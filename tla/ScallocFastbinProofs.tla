------------------------ MODULE ScallocFastbinProofs ------------------------
(***************************************************************************)
(* Proofs about the fastbin loops of ScallocFastbin: nobody follows a word *)
(* that is user data, and the loops implement LockFreeStack.               *)
(*                                                                         *)
(* The inductive invariant says that the list and the lists detached by    *)
(* malloc_consolidate exist, as sequences of chunks.                       *)
(***************************************************************************)
EXTENDS ScallocFastbin, FiniteSetTheorems, SequenceTheorems, TLAPS

-----------------------------------------------------------------------------
(* Linked lists.                                                           *)

(* s are the chunks met from c on when the words f are followed.           *)
Links(f, c, s) ==
  /\ s \in Seq(Chunks)
  /\ \A i, j \in 1 .. Len(s) : s[i] = s[j] => i = j
  /\ c = IF s = <<>> THEN None ELSE s[1]
  /\ \A i \in 1 .. Len(s) : f[s[i]] = IF i = Len(s) THEN None ELSE s[i + 1]

Elems(s) == {s[i] : i \in 1 .. Len(s)}

(* Lemma: a list is the same as long as the words of its chunks are.       *)
LEMMA LinksKept ==
  ASSUME NEW f, NEW g, NEW c, NEW s, Links(f, c, s), \A x \in Elems(s) : g[x] = f[x]
  PROVE  Links(g, c, s)
BY DEF Links, Elems

(* Lemma: nothing is the list of the null pointer.                         *)
LEMMA LinksNone ==
  ASSUME NEW f
  PROVE  /\ Links(f, None, <<>>) /\ Elems(<<>>) = {}
         /\ \A s : Links(f, None, s) => s = <<>>
         /\ \A s : Links(f, None, s) => Elems(s) = {}
<1>1. Links(f, None, <<>>) /\ Elems(<<>>) = {} BY DEF Links, Elems
<1>2. ASSUME NEW s, Links(f, None, s), s # <<>> PROVE FALSE
  <2>1. s \in Seq(Chunks) /\ None = s[1] BY <1>2 DEF Links
  <2>2. Len(s) \in Nat \ {0} BY <1>2, <2>1, EmptySeq
  <2>3. s[1] \in Chunks BY <2>1, <2>2, ElementOfSeq
  <2> QED BY <2>1, <2>3, FastbinAssumption
<1> QED BY <1>1, <1>2

(* Lemma: a chunk that links to the list is put in front of it.            *)
LEMMA LinksCons ==
  ASSUME NEW f, NEW c, NEW s, Links(f, c, s), NEW p \in Chunks, p \notin Elems(s), f[p] = c
  PROVE  Links(f, p, <<p>> \o s) /\ Elems(<<p>> \o s) = Elems(s) \cup {p}
<1> DEFINE l == <<p>> \o s
<1>1. /\ s \in Seq(Chunks) /\ <<p>> \in Seq(Chunks) /\ Len(<<p>>) = 1 /\ <<p>>[1] = p
      /\ Len(s) \in Nat
  BY DEF Links
<1>2. /\ l \in Seq(Chunks) /\ Len(l) = 1 + Len(s) /\ l[1] = p
      /\ \A i \in 1 .. Len(s) : l[i + 1] = s[i]
  BY <1>1, ConcatProperties
<1>3. l # <<>> BY <1>1, <1>2
<1> HIDE DEF l
<1>4. \A i \in 1 .. Len(l) : i = 1 \/ (i - 1 \in 1 .. Len(s) /\ l[i] = s[i - 1])
  <2>1. ASSUME NEW i \in 1 .. Len(l), i # 1 PROVE i - 1 \in 1 .. Len(s) /\ l[i] = s[i - 1]
    <3>1. i - 1 \in 1 .. Len(s) /\ (i - 1) + 1 = i BY <1>1, <1>2, <2>1
    <3> QED BY <1>2, <3>1
  <2> QED BY <2>1
<1>5. Elems(l) = Elems(s) \cup {p}
  <2>1. Elems(l) \subseteq Elems(s) \cup {p} BY <1>2, <1>4 DEF Elems
  <2>2. p \in Elems(l) BY <1>1, <1>2 DEF Elems
  <2>3. ASSUME NEW i \in 1 .. Len(s) PROVE s[i] \in Elems(l)
    <3>1. i + 1 \in 1 .. Len(l) /\ l[i + 1] = s[i] BY <1>1, <1>2
    <3> QED BY <3>1 DEF Elems
  <2> QED BY <2>1, <2>2, <2>3 DEF Elems
<1>6. \A i, j \in 1 .. Len(l) : l[i] = l[j] => i = j
  <2>1. ASSUME NEW i \in 1 .. Len(l), NEW j \in 1 .. Len(l), l[i] = l[j], i # 1, j # 1 PROVE i = j
    <3>1. i - 1 = j - 1 BY <1>4, <2>1 DEF Links
    <3> QED BY <3>1
  <2>2. ASSUME NEW i \in 1 .. Len(l), i # 1 PROVE l[i] # p
    BY <1>4, <2>2 DEF Elems
  <2> QED BY <1>2, <2>1, <2>2
<1>7. \A i \in 1 .. Len(l) : f[l[i]] = IF i = Len(l) THEN None ELSE l[i + 1]
  <2>1. ASSUME NEW i \in 1 .. Len(l), i # 1
        PROVE f[l[i]] = IF i = Len(l) THEN None ELSE l[i + 1]
    <3>1. i - 1 \in 1 .. Len(s) /\ l[i] = s[i - 1] BY <1>4, <2>1
    <3>2. f[s[i - 1]] = IF i - 1 = Len(s) THEN None ELSE s[(i - 1) + 1] BY <3>1 DEF Links
    <3>3. (i - 1 = Len(s)) <=> (i = Len(l)) BY <1>1, <1>2
    <3>4. CASE i = Len(l) BY <3>1, <3>2, <3>3, <3>4
    <3>5. CASE i # Len(l)
      <4>1. i \in 1 .. Len(s) /\ (i - 1) + 1 = i BY <1>1, <1>2, <3>5
      <4>2. l[i + 1] = s[i] BY <1>2, <4>1
      <4> QED BY <3>1, <3>2, <3>3, <3>5, <4>1, <4>2
    <3> QED BY <3>4, <3>5
  <2>2. f[p] = IF 1 = Len(l) THEN None ELSE l[2]
    <3>1. CASE s = <<>> BY <1>1, <1>2, <3>1 DEF Links
    <3>2. CASE s # <<>>
      <4>1. Len(s) \in Nat \ {0} BY <1>1, <3>2, EmptySeq
      <4>2. c = s[1] BY <3>2 DEF Links
      <4>3. l[2] = s[1] BY <1>2, <4>1, SMTT(40)
      <4> QED BY <1>2, <4>1, <4>2, <4>3
    <3> QED BY <3>1, <3>2
  <2> QED BY <1>2, <2>1, <2>2
<1> QED BY <1>2, <1>3, <1>5, <1>6, <1>7 DEF Links, l

(* Lemma: the chunk that a list starts at links to the rest of it.         *)
LEMMA LinksTail ==
  ASSUME NEW f, NEW c, NEW s, Links(f, c, s), c # None
  PROVE  /\ s # <<>> /\ c \in Chunks /\ c = Head(s) /\ c \in Elems(s)
         /\ Links(f, f[c], Tail(s)) /\ Elems(Tail(s)) = Elems(s) \ {c}
<1> DEFINE l == Tail(s)
<1>1. s \in Seq(Chunks) /\ s # <<>> /\ c = s[1] BY DEF Links
<1>2. Len(s) \in Nat /\ Len(s) >= 1 BY <1>1, EmptySeq
<1>3. /\ l \in Seq(Chunks) /\ Len(l) = Len(s) - 1 /\ \A i \in 1 .. Len(l) : l[i] = s[i + 1]
  BY <1>1, HeadTailProperties
<1>4. c = Head(s) /\ c \in Chunks /\ c \in Elems(s) BY <1>1, <1>2, ElementOfSeq DEF Elems
<1> HIDE DEF l
<1>5. \A i \in 1 .. Len(l) : i + 1 \in 1 .. Len(s) BY <1>2, <1>3
<1>6. \A i \in 1 .. Len(s) : i = 1 \/ (i - 1 \in 1 .. Len(l) /\ l[i - 1] = s[i])
  <2>1. ASSUME NEW i \in 1 .. Len(s), i # 1 PROVE i - 1 \in 1 .. Len(l) /\ l[i - 1] = s[i]
    <3>1. i - 1 \in 1 .. Len(l) /\ (i - 1) + 1 = i BY <1>2, <1>3, <2>1
    <3>2. l[i - 1] = s[(i - 1) + 1] BY <1>3, <3>1
    <3> QED BY <3>1, <3>2
  <2> QED BY ONLY <2>1
<1>7. Elems(l) = Elems(s) \ {c}
  <2>1. ASSUME NEW i \in 1 .. Len(l) PROVE l[i] \in Elems(s) \ {c}
    <3>1. i + 1 \in 1 .. Len(s) /\ 1 \in 1 .. Len(s) /\ i + 1 # 1 BY <1>2, <1>5
    <3>2. s[i + 1] # s[1] BY <3>1 DEF Links
    <3> QED BY <1>1, <1>3, <3>1, <3>2 DEF Elems
  <2>2. ASSUME NEW i \in 1 .. Len(s), s[i] # c PROVE s[i] \in Elems(l)
    BY <1>1, <1>6, <2>2 DEF Elems
  <2> QED BY <2>1, <2>2 DEF Elems
<1>8. \A i, j \in 1 .. Len(l) : l[i] = l[j] => i = j
  <2>1. ASSUME NEW i \in 1 .. Len(l), NEW j \in 1 .. Len(l), l[i] = l[j] PROVE i = j
    <3>1. i + 1 = j + 1 BY <1>3, <1>5, <2>1 DEF Links
    <3> QED BY <3>1
  <2> QED BY <2>1
<1>9. \A i \in 1 .. Len(l) : f[l[i]] = IF i = Len(l) THEN None ELSE l[i + 1]
  <2>1. ASSUME NEW i \in 1 .. Len(l) PROVE f[l[i]] = IF i = Len(l) THEN None ELSE l[i + 1]
    <3>1. f[s[i + 1]] = IF i + 1 = Len(s) THEN None ELSE s[(i + 1) + 1] BY <1>5 DEF Links
    <3>2. (i + 1 = Len(s)) <=> (i = Len(l)) BY <1>2, <1>3
    <3>3. i # Len(l) => l[i + 1] = s[(i + 1) + 1]
      <4>1. i # Len(l) => i + 1 \in 1 .. Len(l) BY <1>2, <1>3
      <4> QED BY <1>3, <4>1
    <3> QED BY <1>3, <3>1, <3>2, <3>3
  <2> QED BY <2>1
<1>10. f[c] = IF l = <<>> THEN None ELSE l[1]
  <2>1. 1 \in 1 .. Len(s) BY <1>2
  <2>2. f[s[1]] = IF 1 = Len(s) THEN None ELSE s[1 + 1] BY <2>1 DEF Links
  <2>3. (l = <<>>) <=> (Len(s) = 1) BY <1>2, <1>3, EmptySeq
  <2>4. Len(s) # 1 => l[1] = s[1 + 1] BY <1>2, <1>3
  <2> QED BY <1>1, <2>2, <2>3, <2>4
<1> QED BY <1>1, <1>3, <1>4, <1>7, <1>8, <1>9, <1>10 DEF Links, l

-----------------------------------------------------------------------------
(* ListFrom, which is defined by recursion, finds these lists.             *)

(* Lemma: a set of numbers has a least one.                                *)
LEMMA LeastNumber ==
  ASSUME NEW T, T \subseteq Nat, T # {}
  PROVE  \E m \in T : \A k \in T : m <= k
<1> DEFINE D == {0 .. k : k \in T}
<1>1. D \subseteq FiniteSubsetsOf(Nat) /\ D # {}
  <2>1. ASSUME NEW k \in T PROVE 0 .. k \in SUBSET Nat /\ IsFiniteSet(0 .. k)
    <3>1. k \in Int /\ 0 \in Int /\ 0 .. k \in SUBSET Nat OBVIOUS
    <3> QED BY <3>1, FS_Interval
  <2> QED BY <2>1 DEF FiniteSubsetsOf
<1>2. IsWellFoundedOn(StrictSubsetOrdering(Nat), FiniteSubsetsOf(Nat))
  BY FS_StrictSubsetOrderingWellFounded
<1>3. \E d \in D : \A e \in D : ~(<<e, d>> \in StrictSubsetOrdering(Nat))
  <2> HIDE DEF D
  <2> QED BY <1>1, <1>2, WFMin
<1>4. PICK m \in T : \A e \in D : ~(<<e, 0 .. m>> \in StrictSubsetOrdering(Nat)) BY <1>3
<1>5. ASSUME NEW k \in T, k < m PROVE FALSE
  <2>1. k \in Nat /\ m \in Nat OBVIOUS
  <2>2. 0 .. k \subseteq 0 .. m /\ m \in 0 .. m /\ m \notin 0 .. k BY <1>5, <2>1
  <2>3. <<0 .. k, 0 .. m>> \in (SUBSET Nat) \X (SUBSET Nat) BY <2>1
  <2> QED BY <1>4, <2>2, <2>3, ZenonT(40) DEF StrictSubsetOrdering
<1> QED BY <1>5

(* Lemma: a list has at most as many chunks as there are.                  *)
LEMMA LinksShort ==
  ASSUME NEW f, NEW c, NEW s, Links(f, c, s)
  PROVE  Len(s) \in Nat /\ Len(s) <= Cardinality(Chunks)
<1>1. s \in Seq(Chunks) /\ Len(s) \in Nat BY DEF Links
<1>2. s \in [1 .. Len(s) -> Chunks] BY <1>1, LenProperties
<1>3. s \in Injection(1 .. Len(s), Chunks)
  BY <1>2 DEF Links, Injection, IsInjective
<1>4. Cardinality(1 .. Len(s)) <= Cardinality(Chunks) BY <1>3, FS_Injection, FastbinAssumption
<1>5. Cardinality(1 .. Len(s)) = Len(s) BY <1>1, FS_Interval, SMTT(40)
<1> QED BY <1>1, <1>4, <1>5

(* What ListFrom iterates: the first n of the chunks met from c on.        *)
Further(c, s, n) ==
  LET x == IF s = <<>> THEN c ELSE IF s[Len(s)] \in Chunks THEN fd[s[Len(s)]] ELSE None
  IN  IF x # None /\ Len(s) = n - 1 THEN Append(s, x) ELSE s
Iterates(c, l) ==
  l = [n \in 0 .. Cardinality(Chunks) |-> IF n = 0 THEN <<>> ELSE Further(c, l[n - 1], n)]

(* Lemma: ListFrom is the last of these iterates.                          *)
LEMMA ListFromIterates ==
  ASSUME NEW c
  PROVE  ListFrom(c) = (CHOOSE l : Iterates(c, l))[Cardinality(Chunks)]
BY Zenon DEF ListFrom, Iterates, Further

(* The first k of the chunks of s.                                         *)
First(s, k) == SubSeq(s, 1, IF k <= Len(s) THEN k ELSE Len(s))

(* Lemma: one iteration finds one more chunk of a list, up to its end.     *)
LEMMA FurtherFirst ==
  ASSUME NEW c, NEW s, Links(fd, c, s), NEW n \in Nat, n >= 1
  PROVE  First(s, 0) = <<>> /\ Further(c, First(s, n - 1), n) = First(s, n)
<1>1. /\ s \in Seq(Chunks) /\ Len(s) \in Nat /\ c = IF s = <<>> THEN None ELSE s[1]
      /\ \A i \in 1 .. Len(s) : fd[s[i]] = IF i = Len(s) THEN None ELSE s[i + 1]
      /\ \A i \in 1 .. Len(s) : s[i] \in Chunks
  BY ElementOfSeq DEF Links
<1>2. First(s, 0) = <<>> BY <1>1, SubSeqEmpty DEF First
<1>3. CASE n <= Len(s)
  <2> DEFINE q == SubSeq(s, 1, n - 1)
  <2>1. First(s, n - 1) = q /\ First(s, n) = SubSeq(s, 1, n) BY <1>1, <1>3 DEF First
  <2>2. n \in 1 .. Len(s) /\ n - 1 \in Int /\ \A i \in 1 .. n - 1 : s[i] \in Chunks
    BY <1>1, <1>3
  <2>3. q \in Seq(Chunks) /\ Len(q) = n - 1 /\ \A i \in 1 .. n - 1 : q[i] = s[i]
    <3>1. /\ q \in Seq(Chunks) /\ Len(q) = IF 1 <= n - 1 THEN (n - 1) - 1 + 1 ELSE 0
          /\ \A i \in 1 .. (n - 1) - 1 + 1 : q[i] = s[1 + i - 1]
      BY <2>2, SubSeqProperties
    <3>2. (n - 1) - 1 + 1 = n - 1 /\ \A i \in 1 .. n - 1 : 1 + i - 1 = i OBVIOUS
    <3> QED BY <3>1, <3>2
  <2> HIDE DEF q
  <2>4. SubSeq(s, 1, n) = Append(q, s[n])
    <3>1. 1 \in 1 .. Len(s) /\ n \in 1 .. Len(s) BY <2>2
    <3>2. SubSeq(s, 1, n) = SubSeq(s, 1, n - 1) \o <<s[n]>> BY <1>1, <3>1, SubSeqRecursiveSecond
    <3>3. Append(q, s[n]) = q \o <<s[n]>> BY <1>1, <2>2, <2>3, AppendIsConcat
    <3> QED BY <3>2, <3>3 DEF q
  <2>5. (IF q = <<>> THEN c ELSE IF q[Len(q)] \in Chunks THEN fd[q[Len(q)]] ELSE None) = s[n]
    <3>1. CASE n = 1
      <4>1. q = <<>> BY <2>3, <3>1, EmptySeq
      <4>2. s # <<>> BY <1>1, <2>2, <3>1, EmptySeq
      <4> QED BY <1>1, <3>1, <4>1, <4>2
    <3>2. CASE n # 1
      <4>1. q # <<>> /\ n - 1 \in 1 .. n - 1 /\ n - 1 \in 1 .. Len(s) /\ n - 1 # Len(s) /\ (n - 1) + 1 = n
        BY <1>1, <2>2, <2>3, <3>2, EmptySeq
      <4>2. q[Len(q)] = s[n - 1] BY <2>3, <4>1
      <4>3. fd[s[n - 1]] = s[n] /\ s[n - 1] \in Chunks BY <1>1, <4>1
      <4> QED BY <4>1, <4>2, <4>3
    <3> QED BY <3>1, <3>2
  <2>6. s[n] # None BY <1>1, <2>2, FastbinAssumption
  <2>7. Further(c, q, n) = Append(q, s[n])
    BY <2>3, <2>5, <2>6 DEF Further
  <2> QED BY <1>2, <2>1, <2>4, <2>7
<1>4. CASE n > Len(s)
  <2>1. First(s, n - 1) = s /\ First(s, n) = s
    <3>1. SubSeq(s, 1, Len(s)) = s BY <1>1, SubSeqFull
    <3>2. n - 1 <= Len(s) => n - 1 = Len(s) BY <1>1, <1>4
    <3>3. ~(n <= Len(s)) BY <1>1, <1>4
    <3>4. (IF n - 1 <= Len(s) THEN n - 1 ELSE Len(s)) = Len(s) BY <3>2
    <3>5. (IF n <= Len(s) THEN n ELSE Len(s)) = Len(s) BY <3>3
    <3> QED BY ONLY <3>1, <3>4, <3>5 DEF First
  <2>2. (IF s = <<>> THEN c ELSE IF s[Len(s)] \in Chunks THEN fd[s[Len(s)]] ELSE None) = None
    <3>1. s # <<>> => Len(s) \in 1 .. Len(s) BY <1>1, EmptySeq
    <3> QED BY <1>1, <3>1
  <2>3. Further(c, s, n) = s BY <2>2 DEF Further
  <2> QED BY <1>2, <2>1, <2>3
<1> QED BY <1>1, <1>3, <1>4

(* Lemma: ListFrom finds the list that the words make.                     *)
LEMMA ListFromLinks ==
  ASSUME NEW c, NEW s, Links(fd, c, s)
  PROVE  ListFrom(c) = s
<1> DEFINE C == Cardinality(Chunks)
           g == [n \in 0 .. C |-> First(s, n)]
           l == CHOOSE f : Iterates(c, f)
<1>1. C \in Nat BY FS_CardinalityType, FastbinAssumption
<1>2. s \in Seq(Chunks) /\ Len(s) \in Nat /\ Len(s) <= C BY LinksShort DEF Links
<1>3. First(s, 0) = <<>> BY FurtherFirst
<1>4. \A n \in Nat : n >= 1 => Further(c, First(s, n - 1), n) = First(s, n) BY FurtherFirst
<1> HIDE DEF C
<1>5. Iterates(c, g)
  <2>1. ASSUME NEW n \in 0 .. C
        PROVE  First(s, n) = IF n = 0 THEN <<>> ELSE Further(c, g[n - 1], n)
    <3>1. n # 0 => n - 1 \in 0 .. C /\ n \in Nat /\ n >= 1 BY <1>1
    <3> QED BY <1>3, <1>4, <3>1
  <2> QED BY <2>1 DEF Iterates, C
<1>6. Iterates(c, l) BY <1>5
<1> HIDE DEF g, l
<1>7. \A n \in 0 .. C : l[n] = IF n = 0 THEN <<>> ELSE Further(c, l[n - 1], n)
  BY <1>6 DEF Iterates, C
<1>8. ASSUME NEW n \in 0 .. C, l[n] # First(s, n) PROVE FALSE
  <2> DEFINE T == {k \in 0 .. C : l[k] # First(s, k)}
  <2>1. T \subseteq Nat /\ T # {} BY <1>1, <1>8
  <2>2. PICK m \in T : \A k \in T : m <= k BY <2>1, LeastNumber
  <2>3. m # 0 BY <1>3, <1>7, <2>2
  <2>4. m - 1 \in 0 .. C /\ m \in Nat /\ m >= 1 /\ ~(m <= m - 1) BY <1>1, <2>2, <2>3
  <2>5. l[m - 1] = First(s, m - 1) BY <2>2, <2>4
  <2> QED BY <1>4, <1>7, <2>2, <2>3, <2>4, <2>5
<1>9. l[C] = First(s, C) BY <1>1, <1>8, SMTT(40)
<1>10. First(s, C) = s
  <2>1. SubSeq(s, 1, Len(s)) = s BY <1>2, SubSeqFull
  <2>2. C <= Len(s) => C = Len(s) BY <1>1, <1>2
  <2> QED BY <1>1, <1>2, <2>1, <2>2 DEF First
<1> QED BY <1>9, <1>10, ListFromIterates DEF C, l

-----------------------------------------------------------------------------
(* The inductive invariant.                                                *)

Locals ==
  [pc : {"idle", "link", "swap", "reveal", "remove", "walk"}, p : Chunks \cup {None},
   old : Chunks \cup {None}, next : Chunks \cup {None}, cur : Chunks \cup {None}]

TypeOK ==
  /\ fb \in Chunks \cup {None}
  /\ fd \in [Chunks -> Chunks \cup {None, Junk}]
  /\ lock \in Threads \cup {None}
  /\ mine \in [Threads -> SUBSET Chunks]
  /\ th \in [Threads -> Locals]

(* L is the fastbin's list and W[t] the rest of the one that t walks.      *)
Lists(L, W) ==
  /\ Links(fd, fb, L)
  /\ W \in [Threads -> Seq(Chunks)]
  /\ \A t \in Threads : Links(fd, th[t].cur, W[t])

(* A chunk in a list is nobody's, and nobody else's than its thread's.     *)
Places(L, W) ==
  /\ \A t \in Threads : Elems(L) \cap (mine[t] \cup Elems(W[t])) = {}
  /\ \A s, t \in Threads : Elems(W[s]) \cap mine[t] = {}
  /\ \A s, t \in Threads : s # t => mine[s] \cap mine[t] = {}

(* A thread pushes a chunk it has, which links to what it read of *fb.     *)
(* The victim of REMOVE_FB stays in the list, because whoever takes        *)
(* chunks from it needs the lock; and only one thread walks.               *)
Standing(t, L) ==
  /\ th[t].pc \in {"link", "swap"} => th[t].p \in mine[t]
  /\ th[t].pc = "swap" => fd[th[t].p] = th[t].old
  /\ th[t].pc \in {"reveal", "remove"} => lock = t /\ th[t].p \in Elems(L)
  /\ th[t].pc = "remove" => th[t].next = fd[th[t].p]
  /\ IF th[t].pc = "walk" THEN lock = t /\ th[t].cur # None ELSE th[t].cur = None

Shape(L, W) == Lists(L, W) /\ Places(L, W) /\ \A t \in Threads : Standing(t, L)
IInv == TypeOK /\ \E L, W : Shape(L, W)

(* Lemma: the words of a list are its links, and no user data.             *)
LEMMA LinksWords ==
  ASSUME NEW f, NEW c, NEW s, Links(f, c, s)
  PROVE  /\ c \in Chunks \cup {None} /\ Elems(s) \subseteq Chunks
         /\ \A x \in Elems(s) : f[x] \in Chunks \cup {None}
<1>1. s \in Seq(Chunks) /\ Len(s) \in Nat BY DEF Links
<1>2. \A i \in 1 .. Len(s) : s[i] \in Chunks BY <1>1, ElementOfSeq
<1>3. c \in Chunks \cup {None}
  <2>1. s # <<>> => 1 \in 1 .. Len(s) BY <1>1, EmptySeq
  <2> QED BY <1>2, <2>1 DEF Links
<1>4. ASSUME NEW i \in 1 .. Len(s) PROVE f[s[i]] \in Chunks \cup {None}
  <2>1. i # Len(s) => i + 1 \in 1 .. Len(s) BY <1>1
  <2> QED BY <1>2, <2>1 DEF Links
<1> QED BY <1>2, <1>3, <1>4 DEF Elems

(* Lemma: every step keeps the types.                                      *)
LEMMA TypeStep ==
  ASSUME TypeOK, NEW L, NEW W, Shape(L, W), Next
  PROVE  TypeOK'
<1> USE DEF TypeOK
<1>1. Idle \in Locals BY DEF Idle, Locals
<1>2. \A x \in Elems(L) : fd[x] \in Chunks \cup {None} BY LinksWords DEF Shape, Lists
<1>3. ASSUME NEW t \in Threads, NEW call \in Locals, Goto(t, call) PROVE th' \in [Threads -> Locals]
  BY <1>3 DEF Goto
<1>4. ASSUME NEW t \in Threads, Lock(t) \/ Unlock(t) PROVE TypeOK'
  BY <1>4 DEF Lock, Unlock
<1>5. ASSUME NEW t \in Threads, NEW s \in Threads, NEW c \in Chunks, Pass(s, t, c) PROVE TypeOK'
  BY <1>5 DEF Pass
<1>6. ASSUME NEW t \in Threads, NEW c \in Chunks, PushLoad(t, c) PROVE TypeOK'
  <2>1. [Idle EXCEPT !.pc = "link", !.p = c, !.old = fb] \in Locals BY <1>1 DEF Locals
  <2> QED BY <1>3, <1>6, <2>1 DEF PushLoad
<1>7. ASSUME NEW t \in Threads, PushLink(t) PROVE TypeOK'
  <2>1. th[t] \in Locals /\ [th[t] EXCEPT !.pc = "swap"] \in Locals BY DEF Locals
  <2>2. th[t].old \in Chunks \cup {None} BY <2>1 DEF Locals
  <2> QED BY <1>3, <1>7, <2>1, <2>2 DEF PushLink
<1>8. ASSUME NEW t \in Threads, PushCAS(t) PROVE TypeOK'
  <2>1. th[t] \in Locals /\ [th[t] EXCEPT !.pc = "link", !.old = fb] \in Locals BY DEF Locals
  <2>2. th[t].p \in Chunks \cup {None} BY <2>1 DEF Locals
  <2> QED BY <1>1, <1>3, <1>8, <2>1, <2>2 DEF PushCAS
<1>9. ASSUME NEW t \in Threads, PopLoad(t) PROVE TypeOK'
  <2>1. [Idle EXCEPT !.pc = "reveal", !.p = fb] \in Locals BY <1>1 DEF Locals
  <2> QED BY <1>3, <1>9, <2>1 DEF PopLoad
<1>10. ASSUME NEW t \in Threads, PopReveal(t) PROVE TypeOK'
  <2>1. fd[th[t].p] \in Chunks \cup {None} BY <1>2, <1>10 DEF PopReveal, At, Shape, Standing
  <2>2. th[t] \in Locals /\ [th[t] EXCEPT !.pc = "remove", !.next = fd[th[t].p]] \in Locals
    BY <2>1 DEF Locals
  <2> QED BY <1>3, <1>10, <2>2 DEF PopReveal
<1>11. ASSUME NEW t \in Threads, PopCAS(t) PROVE TypeOK'
  <2>1. [Idle EXCEPT !.pc = "reveal", !.p = fb] \in Locals BY <1>1 DEF Locals
  <2>2. th[t].next \in Chunks \cup {None} /\ th[t].p \in Chunks \cup {None} BY DEF Locals
  <2>3. fb = th[t].p => th[t].p \in Chunks
    BY <1>11, LinksWords DEF PopCAS, At, Shape, Standing, Lists
  <2> QED BY <1>1, <1>3, <1>11, <2>1, <2>2, <2>3 DEF PopCAS
<1>12. ASSUME NEW t \in Threads, TakeAll(t) PROVE TypeOK'
  <2>1. [Idle EXCEPT !.pc = "walk", !.cur = fb] \in Locals BY <1>1 DEF Locals
  <2> QED BY <1>3, <1>12, <2>1 DEF TakeAll
<1>13. ASSUME NEW t \in Threads, Walk(t) PROVE TypeOK'
  <2>1. th[t].cur # None BY <1>13 DEF Walk, At, Shape, Standing
  <2>2. th[t].cur \in Chunks /\ th[t].cur \in Elems(W[t]) BY <2>1, LinksTail DEF Shape, Lists
  <2>3. fd[th[t].cur] \in Chunks \cup {None} BY <2>2, LinksWords DEF Shape, Lists
  <2>4. th[t] \in Locals /\ [th[t] EXCEPT !.cur = fd[th[t].cur]] \in Locals BY <2>3 DEF Locals
  <2> QED BY <1>1, <1>3, <1>13, <2>2, <2>4 DEF Walk
<1> QED BY <1>4, <1>5, <1>6, <1>7, <1>8, <1>9, <1>10, <1>11, <1>12, <1>13 DEF Next, Step

(* Lemma: a thread stands where it stood if nobody touches its chunk, and  *)
(* while it has the lock nobody else takes from the list.                  *)
LEMMA OtherStands ==
  ASSUME NEW L, NEW M, NEW u \in Threads, Standing(u, L), th'[u] = th[u],
         lock = u => lock' = u /\ \A x \in Elems(L) : x \in Elems(M) /\ fd'[x] = fd[x],
         th[u].pc \in {"link", "swap"} => th[u].p \in mine'[u] /\ fd'[th[u].p] = fd[th[u].p]
  PROVE  Standing(u, M)'
BY DEF Standing

(* The steps that only read or link, and leave the lists alone.            *)
Quiet(t) ==
  \/ Lock(t) \/ Unlock(t) \/ PopLoad(t) \/ PopReveal(t) \/ PushLink(t)
  \/ (PushCAS(t) /\ fb # th[t].old) \/ (PopCAS(t) /\ fb # th[t].p)
  \/ \E c \in Chunks : PushLoad(t, c)

(* What those steps leave as it is.                                        *)
LEMMA QuietFacts ==
  ASSUME TypeOK, NEW L, NEW W, Shape(L, W), NEW t \in Threads, Quiet(t)
  PROVE  /\ UNCHANGED <<fb, mine>> /\ \A u \in Threads \ {t} : th'[u] = th[u]
         /\ th'[t].cur = th[t].cur
         /\ \A u \in Threads \ {t} : lock = u => lock' = u
         /\ \A x \in Chunks : x \notin mine[t] => fd'[x] = fd[x]
<1> USE DEF TypeOK
<1>1. th[t].pc # "walk" => th[t].cur = None BY DEF Shape, Standing
<1>2. Idle.cur = None BY DEF Idle
<1>3. CASE Lock(t) \/ Unlock(t) BY <1>3, FastbinAssumption DEF Lock, Unlock
<1>4. CASE PopLoad(t) BY <1>1, <1>2, <1>4 DEF PopLoad, At, Goto, Idle
<1>5. CASE PopReveal(t)
  <2>1. th[t] \in Locals BY DEF TypeOK
  <2> QED BY <1>5, <2>1 DEF PopReveal, At, Goto, Locals
<1>6. CASE PushLink(t)
  <2>1. th[t] \in Locals BY DEF TypeOK
  <2>2. th[t].p \in mine[t] BY <1>6 DEF PushLink, At, Shape, Standing
  <2> QED BY <1>6, <2>1, <2>2 DEF PushLink, At, Goto, Locals
<1>7. CASE PushCAS(t) /\ fb # th[t].old
  <2>1. th[t] \in Locals BY DEF TypeOK
  <2> QED BY <1>7, <2>1, ZenonT(40) DEF PushCAS, At, Goto, Locals
<1>8. CASE PopCAS(t) /\ fb # th[t].p BY <1>1, <1>2, <1>8 DEF PopCAS, At, Goto, Idle
<1>9. CASE \E c \in Chunks : PushLoad(t, c)
  BY <1>1, <1>2, <1>9 DEF PushLoad, At, Goto, Idle
<1> QED BY <1>3, <1>4, <1>5, <1>6, <1>7, <1>8, <1>9 DEF Quiet

(* Lemma: these steps keep the lists and where everybody stands.           *)
LEMMA QuietStep ==
  ASSUME TypeOK, NEW L, NEW W, Shape(L, W), NEW t \in Threads, Quiet(t)
  PROVE  Shape(L, W)' /\ UNCHANGED mine
<1>1. /\ UNCHANGED <<fb, mine>> /\ \A u \in Threads \ {t} : th'[u] = th[u]
      /\ th'[t].cur = th[t].cur
      /\ \A u \in Threads \ {t} : lock = u => lock' = u
      /\ \A x \in Chunks : x \notin mine[t] => fd'[x] = fd[x]
  BY QuietFacts
<1>2. /\ Elems(L) \subseteq Chunks /\ Elems(L) \cap mine[t] = {}
      /\ \A u \in Threads : Elems(W[u]) \subseteq Chunks /\ Elems(W[u]) \cap mine[t] = {}
  BY LinksWords DEF Shape, Lists, Places
<1>3. Lists(L, W)'
  <2>1. Links(fd', fb', L) BY <1>1, <1>2, LinksKept DEF Shape, Lists
  <2>2. ASSUME NEW u \in Threads PROVE Links(fd', th'[u].cur, W[u])
    <3>1. th'[u].cur = th[u].cur BY <1>1
    <3>2. Links(fd, th[u].cur, W[u]) BY DEF Shape, Lists
    <3> QED BY <1>1, <1>2, <3>1, <3>2, LinksKept
  <2> QED BY <2>1, <2>2 DEF Shape, Lists
<1>4. Places(L, W)' BY <1>1 DEF Shape, Places
<1>5. ASSUME NEW u \in Threads \ {t} PROVE Standing(u, L)'
  <2>1. Standing(u, L) /\ th'[u] = th[u] /\ (lock = u => lock' = u) BY <1>1 DEF Shape
  <2>2. \A x \in Elems(L) : fd'[x] = fd[x] BY <1>1, <1>2
  <2>3. th[u].pc \in {"link", "swap"} => th[u].p \in mine'[u] /\ fd'[th[u].p] = fd[th[u].p]
    <3>1. mine[u] \cap mine[t] = {} /\ mine[u] \subseteq Chunks BY DEF Shape, Places, TypeOK
    <3> QED BY <1>1, <2>1, <3>1 DEF Standing
  <2> QED BY <2>1, <2>2, <2>3, OtherStands
<1>6. Standing(t, L)'
  <2> USE DEF TypeOK, Standing, Goto, At
  <2>0. Standing(t, L) /\ th[t] \in Locals BY DEF Shape
  <2>1. CASE Lock(t) \/ Unlock(t)  BY <2>0, <2>1 DEF Lock, Unlock
  <2>2. CASE PopLoad(t)
    <3>1. fb \in Elems(L) BY <2>2, LinksTail DEF PopLoad, Shape, Lists
    <3> QED BY <2>2, <3>1 DEF PopLoad, Idle
  <2>3. CASE PopReveal(t) BY <2>0, <2>3 DEF PopReveal, Locals
  <2>4. CASE PushLink(t) BY <2>0, <2>4 DEF PushLink, Locals
  <2>5. CASE PushCAS(t) /\ fb # th[t].old
    <3>1. th'[t] = [th[t] EXCEPT !.pc = "link", !.old = fb] /\ UNCHANGED <<mine, lock, fd>>
      BY <2>5 DEF PushCAS
    <3>2. th'[t].pc = "link" /\ th'[t].p = th[t].p /\ th'[t].cur = th[t].cur
      BY ONLY <2>0, <3>1 DEF Locals
    <3> QED BY <2>0, <2>5, <3>1, <3>2 DEF PushCAS
  <2>6. CASE PopCAS(t) /\ fb # th[t].p
    <3>1. fb # None => fb \in Elems(L) BY LinksTail DEF Shape, Lists
    <3>2. CASE fb = None
      <4>1. th'[t] = Idle BY <2>6, <3>2 DEF PopCAS
      <4> QED BY <4>1 DEF Idle
    <3>3. CASE fb # None
      <4>1. /\ th'[t] = [Idle EXCEPT !.pc = "reveal", !.p = fb]
            /\ UNCHANGED lock /\ th[t].pc = "remove"
        BY <2>6, <3>3 DEF PopCAS
      <4>2. th'[t].pc = "reveal" /\ th'[t].p = fb /\ th'[t].cur = None BY <4>1 DEF Idle
      <4> QED BY <2>0, <3>1, <3>3, <4>1, <4>2
    <3> QED BY <3>2, <3>3
  <2>7. CASE \E c \in Chunks : PushLoad(t, c) BY <2>0, <2>7 DEF PushLoad, Idle
  <2> QED BY <2>1, <2>2, <2>3, <2>4, <2>5, <2>6, <2>7 DEF Quiet
<1> QED BY <1>1, <1>3, <1>4, <1>5, <1>6 DEF Shape

(* Lemma: so does passing a chunk on.                                      *)
LEMMA PassStep ==
  ASSUME TypeOK, NEW L, NEW W, Shape(L, W),
         NEW t \in Threads, NEW s \in Threads \ {t}, NEW c \in Chunks, Pass(s, t, c)
  PROVE  Shape(L, W)'
<1>1. /\ UNCHANGED <<fb, fd, lock, th>> /\ c \in mine[s] /\ c # th[s].p
      /\ mine' = [mine EXCEPT ![s] = @ \ {c}, ![t] = @ \cup {c}]
  BY DEF Pass
<1>2. /\ mine'[s] = mine[s] \ {c} /\ mine'[t] = mine[t] \cup {c}
      /\ \A u \in Threads \ {s, t} : mine'[u] = mine[u]
  BY <1>1 DEF TypeOK
<1>3. Lists(L, W)' BY <1>1 DEF Shape, Lists
<1>4. Places(L, W)'
  <2>1. \A u \in Threads : mine'[u] \subseteq mine[u] \cup IF u = t THEN mine[s] ELSE {}
    BY <1>1, <1>2
  <2>2. ASSUME NEW u \in Threads
        PROVE  /\ Elems(L) \cap (mine'[u] \cup Elems(W[u])) = {}
               /\ \A v \in Threads : Elems(W[v]) \cap mine'[u] = {}
    BY <2>1 DEF Shape, Places
  <2>3. ASSUME NEW u \in Threads, NEW v \in Threads, u # v PROVE mine'[u] \cap mine'[v] = {}
    <3>1. /\ mine[u] \cap mine[v] = {} /\ (u # s => mine[u] \cap mine[s] = {})
          /\ (v # s => mine[v] \cap mine[s] = {})
      BY <2>3 DEF Shape, Places
    <3>2. CASE u = t BY <1>1, <1>2, <2>3, <3>1, <3>2, ZenonT(40)
    <3>3. CASE v = t BY <1>1, <1>2, <2>3, <3>1, <3>3
    <3>4. CASE u # t /\ v # t BY <2>1, <2>3, <3>1, <3>4
    <3> QED BY <3>2, <3>3, <3>4
  <2> QED BY <2>1, <2>2, <2>3 DEF Places
<1>5. ASSUME NEW u \in Threads PROVE Standing(u, L)'
  <2>1. Standing(u, L) BY DEF Shape
  <2>2. th[u].pc \in {"link", "swap"} => th[u].p \in mine'[u] BY <1>1, <1>2, <2>1 DEF Standing
  <2> QED BY <1>1, <2>1, <2>2, OtherStands
<1> QED BY <1>3, <1>4, <1>5 DEF Shape

(* Lemma: the successful compare-and-swap of a push puts its chunk in      *)
(* front of the list, also if *fb has changed and changed back meanwhile.  *)
LEMMA PushStep ==
  ASSUME TypeOK, NEW L, NEW W, Shape(L, W), NEW t \in Threads, PushCAS(t), fb = th[t].old
  PROVE  \E p \in Chunks :
           /\ p \in mine[t] /\ mine' = [mine EXCEPT ![t] = @ \ {p}]
           /\ Shape(<<p>> \o L, W)' /\ Elems(<<p>> \o L) = Elems(L) \cup {p}
<1>1. PICK p : p = th[t].p OBVIOUS
<1>2. /\ fb' = p /\ mine' = [mine EXCEPT ![t] = @ \ {p}] /\ Goto(t, Idle)
      /\ UNCHANGED <<fd, lock>> /\ th[t].pc = "swap"
  BY <1>1 DEF PushCAS, At
<1>3. p \in mine[t] /\ p \in Chunks /\ fd[p] = fb
  BY <1>1, <1>2 DEF Shape, Standing, TypeOK
<1>4. /\ mine'[t] = mine[t] \ {p} /\ \A u \in Threads \ {t} : mine'[u] = mine[u]
      /\ th'[t] = Idle /\ \A u \in Threads \ {t} : th'[u] = th[u]
  BY <1>2 DEF TypeOK, Goto
<1>5. Links(fd, p, <<p>> \o L) /\ Elems(<<p>> \o L) = Elems(L) \cup {p}
  <2>1. p \notin Elems(L) /\ Links(fd, fb, L) BY <1>3 DEF Shape, Places, Lists
  <2> QED BY <1>3, <2>1, LinksCons
<1> DEFINE M == <<p>> \o L
<1> HIDE DEF M
<1>6. Lists(M, W)'
  <2>1. th[t].cur = None /\ Idle.cur = None BY <1>2 DEF Shape, Standing, Idle
  <2>2. \A u \in Threads : th'[u].cur = th[u].cur BY <1>4, <2>1
  <2> QED BY <1>2, <1>5, <2>2 DEF Shape, Lists, M
<1>7. Places(M, W)'
  <2>1. Elems(M) = Elems(L) \cup {p} BY <1>5 DEF M
  <2>2. \A u \in Threads : p \notin Elems(W[u]) /\ p \notin mine'[u]
    BY <1>3, <1>4 DEF Shape, Places
  <2>3. \A u \in Threads : mine'[u] \subseteq mine[u] BY <1>4
  <2> QED BY <2>1, <2>2, <2>3 DEF Shape, Places
<1>8. ASSUME NEW u \in Threads PROVE Standing(u, M)'
  <2>1. CASE u = t BY <1>4, <2>1 DEF Standing, Idle
  <2>2. CASE u # t
    <3>1. Standing(u, L) /\ th'[u] = th[u] /\ mine'[u] = mine[u] BY <1>4, <2>2 DEF Shape
    <3>2. th[u].pc \in {"link", "swap"} => th[u].p \in mine'[u] BY <3>1 DEF Standing
    <3>3. \A x \in Elems(L) : x \in Elems(M) BY <1>5 DEF M
    <3> QED BY <1>2, <3>1, <3>2, <3>3, OtherStands
  <2> QED BY <2>1, <2>2
<1>9. Shape(M, W)' BY <1>6, <1>7, <1>8 DEF Shape
<1> QED BY <1>2, <1>3, <1>5, <1>9 DEF M

(* Lemma: the successful compare-and-swap of REMOVE_FB takes the first     *)
(* chunk of the list: what was read of its fd is still its link.           *)
LEMMA PopStep ==
  ASSUME TypeOK, NEW L, NEW W, Shape(L, W), NEW t \in Threads, PopCAS(t), fb = th[t].p
  PROVE  \E p \in Chunks :
           /\ L # <<>> /\ p = Head(L) /\ mine' = [mine EXCEPT ![t] = @ \cup {p}]
           /\ Shape(Tail(L), W)' /\ Elems(Tail(L)) = Elems(L) \ {p}
<1>1. PICK p : p = th[t].p OBVIOUS
<1>2. /\ fb' = th[t].next /\ fd' = [fd EXCEPT ![p] = Junk] /\ Goto(t, Idle)
      /\ mine' = [mine EXCEPT ![t] = @ \cup {p}] /\ UNCHANGED lock /\ th[t].pc = "remove"
  BY <1>1 DEF PopCAS, At
<1>3. p \in Elems(L) /\ fb' = fd[p] /\ lock = t
  BY <1>1, <1>2 DEF Shape, Standing
<1>4. p \in Chunks /\ p # None BY <1>3, LinksWords, FastbinAssumption DEF Shape, Lists
<1>5. /\ mine'[t] = mine[t] \cup {p} /\ \A u \in Threads \ {t} : mine'[u] = mine[u]
      /\ th'[t] = Idle /\ \A u \in Threads \ {t} : th'[u] = th[u]
      /\ \A x \in Chunks \ {p} : fd'[x] = fd[x]
  BY <1>2, <1>4 DEF TypeOK, Goto
<1> DEFINE M == Tail(L)
<1>6. L # <<>> /\ p = Head(L) /\ Links(fd, fb', M) /\ Elems(M) = Elems(L) \ {p}
  <2>1. Links(fd, p, L) BY <1>1 DEF Shape, Lists
  <2> QED BY <1>3, <1>4, <2>1, LinksTail
<1> HIDE DEF M
<1>7. Elems(L) \subseteq Chunks /\ \A u \in Threads : Elems(W[u]) \subseteq Chunks /\ p \notin Elems(W[u])
  BY <1>3, LinksWords DEF Shape, Lists, Places
<1>8. Lists(M, W)'
  <2>1. Links(fd', fb', M) BY <1>5, <1>6, <1>7, LinksKept
  <2>2. th[t].cur = None /\ Idle.cur = None BY <1>2 DEF Shape, Standing, Idle
  <2>3. ASSUME NEW u \in Threads PROVE Links(fd', th'[u].cur, W[u])
    <3>1. th'[u].cur = th[u].cur BY <1>5, <2>2
    <3>2. Links(fd, th[u].cur, W[u]) BY DEF Shape, Lists
    <3> QED BY <1>5, <1>7, <3>1, <3>2, LinksKept
  <2> QED BY <2>1, <2>3 DEF Shape, Lists
<1>9. Places(M, W)'
  <2>1. \A u \in Threads : mine'[u] \subseteq mine[u] \cup {p} BY <1>5
  <2>2. \A u \in Threads : p \notin mine[u] BY <1>3 DEF Shape, Places
  <2>3. \A u, v \in Threads : u # v => mine'[u] \cap mine'[v] = {}
    BY <1>5, <2>2 DEF Shape, Places
  <2> QED BY <1>6, <1>7, <2>1, <2>3 DEF Shape, Places
<1>10. ASSUME NEW u \in Threads PROVE Standing(u, M)'
  <2>1. CASE u = t BY <1>5, <2>1 DEF Standing, Idle
  <2>2. CASE u # t
    <3>1. Standing(u, L) /\ th'[u] = th[u] /\ mine'[u] = mine[u] /\ lock # u
      BY <1>3, <1>5, <2>2 DEF Shape
    <3>2. th[u].pc \in {"link", "swap"} => th[u].p \in mine'[u] BY <3>1 DEF Standing
    <3>3. th[u].p \in mine'[u] => fd'[th[u].p] = fd[th[u].p]
      <4>1. p \notin mine[u] /\ mine[u] \subseteq Chunks BY <1>3 DEF Shape, Places, TypeOK
      <4> QED BY <1>5, <3>1, <4>1
    <3> QED BY <3>1, <3>2, <3>3, OtherStands
  <2> QED BY <2>1, <2>2
<1>11. Shape(M, W)' BY <1>8, <1>9, <1>10 DEF Shape
<1> QED BY <1>2, <1>4, <1>6, <1>11 DEF M

(* Lemma: the exchange of malloc_consolidate takes the list as it is.      *)
LEMMA TakeAllStep ==
  ASSUME TypeOK, NEW L, NEW W, Shape(L, W), NEW t \in Threads, TakeAll(t)
  PROVE  /\ UNCHANGED mine /\ W[t] = <<>> /\ t \in DOMAIN W
         /\ Shape(<<>>, [W EXCEPT ![t] = L])'
<1>1. /\ fb # None /\ fb' = None /\ Goto(t, [Idle EXCEPT !.pc = "walk", !.cur = fb])
      /\ UNCHANGED <<fd, lock, mine>> /\ th[t].pc = "idle" /\ lock = t
  BY DEF TakeAll, At
<1>2. /\ th'[t] = [Idle EXCEPT !.pc = "walk", !.cur = fb]
      /\ \A u \in Threads \ {t} : th'[u] = th[u]
  BY <1>1 DEF TypeOK, Goto
<1>3. th'[t].pc = "walk" /\ th'[t].cur = fb BY <1>2 DEF Idle
<1>4. W \in [Threads -> Seq(Chunks)] /\ Links(fd, fb, L) /\ L \in Seq(Chunks)
  BY DEF Shape, Lists, Links
<1>5. \A u \in Threads : u # t => W[u] = <<>> /\ th[u].cur = None
  <2>1. ASSUME NEW u \in Threads, u # t PROVE W[u] = <<>> /\ th[u].cur = None
    <3>1. th[u].cur = None BY <1>1, <2>1 DEF Shape, Standing
    <3>2. Links(fd, None, W[u]) BY <3>1 DEF Shape, Lists
    <3> QED BY <3>1, <3>2, LinksNone
  <2> QED BY <2>1
<1>6. W[t] = <<>> BY <1>1, LinksNone, ZenonT(40) DEF Shape, Standing, Lists
<1>7. PICK V : V = [W EXCEPT ![t] = L] OBVIOUS
<1>8. V \in [Threads -> Seq(Chunks)] /\ V[t] = L /\ \A u \in Threads \ {t} : V[u] = <<>>
  BY <1>4, <1>5, <1>7
<1>9. Links(fd, None, <<>>) /\ Elems(<<>>) = {} BY LinksNone
<1>10. Lists(<<>>, V)'
  <2>1. ASSUME NEW u \in Threads PROVE Links(fd, th'[u].cur, V[u])
    BY <1>2, <1>3, <1>4, <1>5, <1>8, <1>9
  <2> QED BY <1>1, <1>8, <1>9, <2>1 DEF Lists
<1>11. Places(<<>>, V)'
  <2>1. \A u \in Threads : Elems(V[u]) = {} \/ Elems(V[u]) = Elems(L) BY <1>8, <1>9
  <2> QED BY <1>1, <1>9, <2>1 DEF Shape, Places
<1>12. ASSUME NEW u \in Threads PROVE Standing(u, <<>>)'
  <2>1. CASE u = t BY <1>1, <1>3, <2>1 DEF Standing
  <2>2. CASE u # t
    <3>1. Standing(u, L) /\ th'[u] = th[u] /\ lock # u BY <1>1, <1>2, <2>2 DEF Shape
    <3>2. th[u].pc \in {"link", "swap"} => th[u].p \in mine[u] BY <3>1 DEF Standing
    <3> QED BY <1>1, <3>1, <3>2, OtherStands
  <2> QED BY <2>1, <2>2
<1>13. Shape(<<>>, V)' BY <1>10, <1>11, <1>12 DEF Shape
<1> QED BY <1>1, <1>4, <1>6, <1>7, <1>13

(* Lemma: the walk gets one chunk of its list and keeps the rest.          *)
LEMMA WalkStep ==
  ASSUME TypeOK, NEW L, NEW W, Shape(L, W), NEW t \in Threads, Walk(t)
  PROVE  \E p \in Chunks :
           /\ p \in Elems(W[t]) /\ mine' = [mine EXCEPT ![t] = @ \cup {p}]
           /\ Elems(Tail(W[t])) = Elems(W[t]) \ {p} /\ t \in DOMAIN W
           /\ Shape(L, [W EXCEPT ![t] = Tail(W[t])])'
<1>1. PICK p : p = th[t].cur OBVIOUS
<1>2. /\ th[t].pc = "walk" /\ fd' = [fd EXCEPT ![p] = Junk]
      /\ mine' = [mine EXCEPT ![t] = @ \cup {p}] /\ UNCHANGED <<fb, lock>>
      /\ Goto(t, IF fd[p] = None THEN Idle ELSE [th[t] EXCEPT !.cur = fd[p]])
  BY <1>1 DEF Walk, At
<1>3. p # None /\ lock = t BY <1>1, <1>2 DEF Shape, Standing
<1>4. W \in [Threads -> Seq(Chunks)] /\ Links(fd, p, W[t]) BY <1>1 DEF Shape, Lists
<1> DEFINE M == Tail(W[t])
<1>5. /\ p \in Chunks /\ p \in Elems(W[t]) /\ Links(fd, fd[p], M)
      /\ Elems(M) = Elems(W[t]) \ {p}
  BY <1>3, <1>4, LinksTail
<1> HIDE DEF M
<1>6. /\ mine'[t] = mine[t] \cup {p} /\ \A u \in Threads \ {t} : mine'[u] = mine[u]
      /\ th'[t] = IF fd[p] = None THEN Idle ELSE [th[t] EXCEPT !.cur = fd[p]]
      /\ \A u \in Threads \ {t} : th'[u] = th[u]
      /\ \A x \in Chunks \ {p} : fd'[x] = fd[x]
  BY <1>2, <1>5 DEF TypeOK, Goto
<1>7. th'[t].cur = fd[p] /\ th'[t].pc = IF fd[p] = None THEN "idle" ELSE "walk"
  <2>1. th[t] \in Locals BY DEF TypeOK
  <2>2. CASE fd[p] = None BY <1>6, <2>2 DEF Idle
  <2>3. CASE fd[p] # None
    <3>1. th'[t] = [th[t] EXCEPT !.cur = fd[p]] BY <1>6, <2>3
    <3> QED BY <1>2, <2>1, <2>3, <3>1 DEF Locals
  <2> QED BY <2>2, <2>3
<1>8. \A u \in Threads : u # t => W[u] = <<>> /\ th[u].cur = None
  <2>1. ASSUME NEW u \in Threads, u # t PROVE W[u] = <<>> /\ th[u].cur = None
    <3>1. th[u].cur = None BY <1>3, <2>1 DEF Shape, Standing
    <3>2. Links(fd, None, W[u]) BY <3>1 DEF Shape, Lists
    <3> QED BY <3>1, <3>2, LinksNone
  <2> QED BY <2>1
<1>9. PICK V : V = [W EXCEPT ![t] = M] OBVIOUS
<1>10. V \in [Threads -> Seq(Chunks)] /\ V[t] = M /\ \A u \in Threads \ {t} : V[u] = <<>>
  <2>1. M \in Seq(Chunks) BY <1>5 DEF Links
  <2> QED BY <1>4, <1>8, <1>9, <2>1
<1>11. Links(fd', None, <<>>) /\ Elems(<<>>) = {} BY LinksNone
<1>12. p \notin Elems(L) /\ Elems(L) \subseteq Chunks /\ Elems(M) \subseteq Chunks \ {p}
  BY <1>5, LinksWords DEF Shape, Places, Lists
<1>13. Lists(L, V)'
  <2>1. Links(fd', fb, L) BY <1>6, <1>12, LinksKept DEF Shape, Lists
  <2>2. Links(fd', fd[p], M) BY <1>5, <1>6, <1>12, LinksKept
  <2>3. ASSUME NEW u \in Threads PROVE Links(fd', th'[u].cur, V[u])
    BY <1>6, <1>7, <1>8, <1>10, <1>11, <2>2
  <2> QED BY <1>2, <1>10, <2>1, <2>3 DEF Lists
<1>14. Places(L, V)'
  <2>1. \A u \in Threads : Elems(V[u]) \subseteq Elems(W[t]) \ {p} BY <1>5, <1>10, <1>11
  <2>2. \A u \in Threads : mine'[u] \subseteq mine[u] \cup {p} BY <1>6
  <2>3. \A u \in Threads : p \notin mine[u] BY <1>5 DEF Shape, Places
  <2>4. \A u, v \in Threads : u # v => mine'[u] \cap mine'[v] = {}
    BY <1>6, <2>3 DEF Shape, Places
  <2> QED BY <1>12, <2>1, <2>2, <2>4 DEF Shape, Places
<1>15. ASSUME NEW u \in Threads PROVE Standing(u, L)'
  <2>1. CASE u = t BY <1>2, <1>3, <1>7, <2>1 DEF Standing
  <2>2. CASE u # t
    <3>1. Standing(u, L) /\ th'[u] = th[u] /\ mine'[u] = mine[u] /\ lock # u
      BY <1>3, <1>6, <2>2 DEF Shape
    <3>2. th[u].pc \in {"link", "swap"} => th[u].p \in mine'[u] BY <3>1 DEF Standing
    <3>3. th[u].p \in mine'[u] => fd'[th[u].p] = fd[th[u].p]
      <4>1. p \notin mine[u] /\ mine[u] \subseteq Chunks BY <1>5 DEF Shape, Places, TypeOK
      <4> QED BY <1>6, <3>1, <4>1
    <3> QED BY <3>1, <3>2, <3>3, OtherStands
  <2> QED BY <2>1, <2>2
<1>16. Shape(L, V)' BY <1>13, <1>14, <1>15 DEF Shape
<1> QED BY <1>2, <1>4, <1>5, <1>9, <1>16 DEF M

-----------------------------------------------------------------------------
(* The theorems.                                                           *)

(* A step of a stack, from the lists L and W to the lists M and V.         *)
Steps(L, W, M, V) ==
  \/ M = L /\ V = W /\ UNCHANGED mine
  \/ \E t \in Threads :
       \/ M = L /\ V = W /\ \E s \in Threads \ {t}, c \in Chunks : Pass(s, t, c)
       \/ \E p \in Chunks :
            /\ p \in mine[t] /\ mine' = [mine EXCEPT ![t] = @ \ {p}]
            /\ M = <<p>> \o L /\ V = W
       \/ \E p \in Chunks :
            /\ L # <<>> /\ p = Head(L) /\ mine' = [mine EXCEPT ![t] = @ \cup {p}]
            /\ M = Tail(L) /\ V = W
       \/ UNCHANGED mine /\ W[t] = <<>> /\ M = <<>> /\ V = [W EXCEPT ![t] = L]
       \/ \E p \in Chunks :
            /\ p \in Elems(W[t]) /\ mine' = [mine EXCEPT ![t] = @ \cup {p}]
            /\ Elems(Tail(W[t])) = Elems(W[t]) \ {p}
            /\ M = L /\ V = [W EXCEPT ![t] = Tail(W[t])]

(* The lists after a step, M and V, have the shape again.                  *)
LEMMA ShapeStep ==
  ASSUME TypeOK, NEW L, NEW W, Shape(L, W), [Next]_vars
  PROVE  \E M, V : Shape(M, V)' /\ Steps(L, W, M, V)
<1>1. ASSUME NEW t \in Threads, Quiet(t) PROVE \E M, V : Shape(M, V)' /\ Steps(L, W, M, V)
  <2>1. Shape(L, W)' /\ UNCHANGED mine BY <1>1, QuietStep
  <2>2. Steps(L, W, L, W) BY <2>1 DEF Steps
  <2> QED BY <2>1, <2>2
<1>2. ASSUME NEW t \in Threads, NEW s \in Threads \ {t}, NEW c \in Chunks, Pass(s, t, c)
      PROVE  \E M, V : Shape(M, V)' /\ Steps(L, W, M, V)
  <2>1. Shape(L, W)' BY <1>2, PassStep
  <2>2. Steps(L, W, L, W) BY <1>2 DEF Steps
  <2> QED BY <2>1, <2>2
<1>3. ASSUME NEW t \in Threads, PushCAS(t), fb = th[t].old
      PROVE  \E M, V : Shape(M, V)' /\ Steps(L, W, M, V)
  <2>1. PICK p \in Chunks : /\ p \in mine[t] /\ mine' = [mine EXCEPT ![t] = @ \ {p}]
                            /\ Shape(<<p>> \o L, W)'
    BY <1>3, PushStep
  <2>2. Steps(L, W, <<p>> \o L, W) BY <2>1 DEF Steps
  <2> QED BY <2>1, <2>2
<1>4. ASSUME NEW t \in Threads, PopCAS(t), fb = th[t].p
      PROVE  \E M, V : Shape(M, V)' /\ Steps(L, W, M, V)
  <2>1. PICK p \in Chunks : /\ L # <<>> /\ p = Head(L) /\ mine' = [mine EXCEPT ![t] = @ \cup {p}]
                            /\ Shape(Tail(L), W)'
    BY <1>4, PopStep
  <2>2. Steps(L, W, Tail(L), W) BY <2>1 DEF Steps
  <2> QED BY <2>1, <2>2
<1>5. ASSUME NEW t \in Threads, TakeAll(t) PROVE \E M, V : Shape(M, V)' /\ Steps(L, W, M, V)
  <2>1. UNCHANGED mine /\ W[t] = <<>> /\ Shape(<<>>, [W EXCEPT ![t] = L])'
    BY <1>5, TakeAllStep
  <2>2. Steps(L, W, <<>>, [W EXCEPT ![t] = L]) BY <2>1 DEF Steps
  <2> QED BY <2>1, <2>2
<1>6. ASSUME NEW t \in Threads, Walk(t) PROVE \E M, V : Shape(M, V)' /\ Steps(L, W, M, V)
  <2>1. PICK p \in Chunks : /\ p \in Elems(W[t]) /\ mine' = [mine EXCEPT ![t] = @ \cup {p}]
                            /\ Elems(Tail(W[t])) = Elems(W[t]) \ {p}
                            /\ Shape(L, [W EXCEPT ![t] = Tail(W[t])])'
    BY <1>6, WalkStep
  <2>2. Steps(L, W, L, [W EXCEPT ![t] = Tail(W[t])]) BY <2>1 DEF Steps
  <2> QED BY <2>1, <2>2
<1>7. CASE UNCHANGED vars
  <2>1. Lists(L, W)' BY <1>7 DEF vars, Shape, Lists
  <2>2. Places(L, W)' BY <1>7 DEF vars, Shape, Places
  <2>3. \A t \in Threads : Standing(t, L)' BY <1>7 DEF vars, Shape, Standing
  <2>4. Shape(L, W)' BY <2>1, <2>2, <2>3 DEF Shape
  <2> QED BY <1>7, <2>4 DEF vars, Steps
<1>8. CASE Next
  <2>1. PICK t \in Threads :
          \/ Quiet(t) \/ (PushCAS(t) /\ fb = th[t].old) \/ (PopCAS(t) /\ fb = th[t].p)
          \/ TakeAll(t) \/ Walk(t)
          \/ \E s \in Threads \ {t}, c \in Chunks : Pass(s, t, c)
    BY <1>8 DEF Next, Step, Quiet
  <2> QED BY <1>1, <1>2, <1>3, <1>4, <1>5, <1>6, <2>1
<1> QED BY <1>7, <1>8

(* Lemma: at first no chunk is in a list.                                  *)
LEMMA InitShape == Init => TypeOK /\ \E W : Shape(<<>>, W) /\ \A t \in Threads : W[t] = <<>>
<1> SUFFICES ASSUME Init PROVE TypeOK /\ \E W : Shape(<<>>, W) /\ \A t \in Threads : W[t] = <<>>
  OBVIOUS
<1> DEFINE W == [t \in Threads |-> <<>>]
<1>1. TypeOK
  <2>1. Idle \in Locals BY DEF Idle, Locals
  <2> QED BY <2>1 DEF Init, TypeOK
<1>2. Links(fd, None, <<>>) /\ Elems(<<>>) = {} BY LinksNone
<1>3. \A t \in Threads : th[t].cur = None /\ th[t].pc = "idle" BY DEF Init, Idle
<1>4. Lists(<<>>, W) BY <1>2, <1>3 DEF Init, Lists
<1>5. Places(<<>>, W) BY <1>2 DEF Init, Places
<1>6. \A t \in Threads : Standing(t, <<>>) BY <1>3 DEF Standing
<1> QED BY <1>1, <1>4, <1>5, <1>6 DEF Shape

(* Theorem: the words of the list and of the detached lists make lists,    *)
(* which share no chunk with each other or with what threads hold.         *)
THEOREM FastbinInvariant == Spec => []IInv
<1>1. Init => IInv BY InitShape DEF IInv
<1>2. IInv /\ [Next]_vars => IInv'
  <2> SUFFICES ASSUME IInv, [Next]_vars PROVE IInv' OBVIOUS
  <2>1. TypeOK BY DEF IInv
  <2>2. PICK L, W : Shape(L, W) BY DEF IInv
  <2>3. TypeOK' BY <2>1, <2>2, TypeStep DEF vars, TypeOK
  <2>4. \E M, V : Shape(M, V)' BY <2>1, <2>2, ShapeStep
  <2> QED BY <2>3, <2>4 DEF IInv
<1> QED BY <1>1, <1>2, PTL DEF Spec

(* Theorem: nobody follows a word that is user data, neither the walk of   *)
(* malloc_consolidate nor, while the head is its victim, REMOVE_FB.        *)
THEOREM FastbinNoJunkFollowed == Spec => []NoJunkFollowed
<1>1. IInv => NoJunkFollowed
  <2> SUFFICES ASSUME IInv PROVE NoJunkFollowed OBVIOUS
  <2>1. TypeOK BY DEF IInv
  <2>2. ASSUME NEW t \in Threads PROVE th[t].cur # Junk /\ th[t].next # Junk
    <3>1. th[t] \in Locals BY <2>1 DEF TypeOK
    <3> QED BY <3>1, FastbinAssumption DEF Locals
  <2> QED BY <2>1, <2>2, FastbinAssumption DEF TypeOK, NoJunkFollowed
<1> QED BY <1>1, FastbinInvariant, PTL

(* What the refinement takes for the stack and for what the threads hold.  *)
StackNow == ListFrom(fb)
HeldNow == [t \in Threads |-> mine[t] \cup ElementsFrom(th[t].cur)]
HeldWith(W) == [t \in Threads |-> mine[t] \cup Elems(W[t])]

(* What the mapping yields for every pair of lists that has the shape.     *)
ListsMapped == \A L, W : Shape(L, W) => StackNow = L /\ HeldNow = HeldWith(W)
(* The mapped stack and the mapped holdings are the lists of the shape.    *)
LEMMA MappedLists == ListsMapped
<1> SUFFICES ASSUME NEW L, NEW W, Shape(L, W) PROVE StackNow = L /\ HeldNow = HeldWith(W)
  BY DEF ListsMapped
<1>1. StackNow = L BY ListFromLinks DEF Shape, Lists, StackNow
<1>2. ASSUME NEW t \in Threads PROVE ElementsFrom(th[t].cur) = Elems(W[t])
  <2>1. ListFrom(th[t].cur) = W[t] BY ListFromLinks DEF Shape, Lists
  <2>2. DOMAIN W[t] = 1 .. Len(W[t]) BY LenProperties DEF Shape, Lists
  <2> QED BY <2>1, <2>2 DEF ElementsFrom, Elems
<1> QED BY <1>1, <1>2 DEF HeldNow, HeldWith

(* Theorem: the loops implement LockFreeStack.                             *)
THEOREM FastbinImplementsStack == Spec => ImplementsStack
<1>1. Init => Abstract!Init
  <2> SUFFICES ASSUME Init PROVE Abstract!Init OBVIOUS
  <2>1. PICK W : Shape(<<>>, W) /\ \A t \in Threads : W[t] = <<>> BY InitShape
  <2>2. StackNow = <<>> /\ HeldNow = HeldWith(W) BY <2>1, MappedLists DEF ListsMapped
  <2>3. \A t \in Threads : Elems(W[t]) = {} BY <2>1, LinksNone
  <2>4. HeldNow = mine
    <3>1. mine \in [Threads -> SUBSET Chunks] BY DEF Init
    <3> QED BY <2>2, <2>3, <3>1 DEF HeldWith
  <2>5. UNION {HeldNow[t] : t \in Threads} = Chunks BY <2>4 DEF Init
  <2>6. \A s, t \in Threads : s # t => HeldNow[s] \cap HeldNow[t] = {} BY <2>4 DEF Init
  <2>7. HeldNow \in [Threads -> SUBSET Chunks] BY <2>4 DEF Init
  <2> QED BY <2>2, <2>5, <2>6, <2>7, Zenon DEF Abstract!Init, StackNow, HeldNow
<1>2. IInv /\ [Next]_vars => [Abstract!Next]_(Abstract!vars)
  <2> SUFFICES ASSUME IInv, [Next]_vars PROVE [Abstract!Next]_(Abstract!vars) OBVIOUS
  <2>1. TypeOK BY DEF IInv
  <2>2. PICK L, W : Shape(L, W) BY DEF IInv
  <2>3. PICK M, V : Shape(M, V)' /\ Steps(L, W, M, V) BY <2>1, <2>2, ShapeStep
  <2>4. StackNow = L /\ HeldNow = HeldWith(W) BY <2>2, MappedLists DEF ListsMapped
  <2>5. StackNow' = M /\ HeldNow' = HeldWith(V)'
    <3>1. ListsMapped' BY MappedLists, PTL
    <3> QED BY <2>3, <3>1 DEF ListsMapped
  <2>6. PICK h, k : h = HeldNow /\ k = HeldNow' OBVIOUS
  <2>7. /\ h = [t \in Threads |-> mine[t] \cup Elems(W[t])]
        /\ k = [t \in Threads |-> mine'[t] \cup Elems(V[t])]
    BY <2>4, <2>5, <2>6 DEF HeldWith
  <2>8. CASE M = L /\ V = W /\ UNCHANGED mine
    <3>1. k = h BY <2>7, <2>8
    <3>2. UNCHANGED <<StackNow, HeldNow>> BY <2>4, <2>5, <2>6, <2>8, <3>1
    <3> QED BY <3>2, Zenon DEF StackNow, HeldNow, Abstract!vars
  <2>9. ASSUME NEW t \in Threads, NEW s \in Threads \ {t}, NEW c \in Chunks, Pass(s, t, c),
               M = L, V = W
        PROVE  Abstract!Next
    <3>1. c \in mine[s] /\ mine' = [mine EXCEPT ![s] = @ \ {c}, ![t] = @ \cup {c}] BY <2>9 DEF Pass
    <3>2. c \notin Elems(W[s]) BY <2>2, <3>1 DEF Shape, Places
    <3>3. c \in h[s] /\ k = [h EXCEPT ![s] = @ \ {c}, ![t] = @ \cup {c}]
      <4>1. \A u \in Threads : k[u] = IF u = t THEN h[t] \cup {c}
                                       ELSE IF u = s THEN h[s] \ {c} ELSE h[u]
        BY <2>1, <2>7, <2>9, <3>1, <3>2 DEF TypeOK
      <4> QED BY <2>7, <3>1, <4>1
    <3>4. StackNow' = StackNow BY <2>4, <2>5, <2>9
    <3>5. c \in HeldNow[s] /\ HeldNow' = [HeldNow EXCEPT ![s] = @ \ {c}, ![t] = @ \cup {c}]
      BY <2>6, <3>3
    <3>6. Abstract!Pass(s, t, c) BY <3>4, <3>5, Zenon DEF StackNow, HeldNow, Abstract!Pass
    <3> QED BY <3>6, Zenon DEF Abstract!Next
  <2>10. ASSUME NEW t \in Threads, NEW p \in Chunks, p \in mine[t],
                mine' = [mine EXCEPT ![t] = @ \ {p}], M = <<p>> \o L, V = W
         PROVE  Abstract!Next
    <3>1. p \notin Elems(W[t]) BY <2>2, <2>10 DEF Shape, Places
    <3>2. p \in h[t] /\ k = [h EXCEPT ![t] = @ \ {p}]
      <4>1. \A u \in Threads : k[u] = IF u = t THEN h[t] \ {p} ELSE h[u]
        BY <2>1, <2>7, <2>10, <3>1 DEF TypeOK
      <4> QED BY <2>7, <2>10, <4>1
    <3>3. StackNow' = <<p>> \o StackNow BY <2>4, <2>5, <2>10
    <3>4. p \in HeldNow[t] /\ HeldNow' = [HeldNow EXCEPT ![t] = @ \ {p}] BY <2>6, <3>2
    <3>5. Abstract!Push(t, p) BY <3>3, <3>4, Zenon DEF StackNow, HeldNow, Abstract!Push
    <3> QED BY <3>5, Zenon DEF Abstract!Next
  <2>11. ASSUME NEW t \in Threads, NEW p \in Chunks, L # <<>>, p = Head(L),
                mine' = [mine EXCEPT ![t] = @ \cup {p}], M = Tail(L), V = W
         PROVE  Abstract!Next
    <3>1. k = [h EXCEPT ![t] = @ \cup {p}]
      <4>1. \A u \in Threads : k[u] = IF u = t THEN h[t] \cup {p} ELSE h[u]
        BY <2>1, <2>7, <2>11 DEF TypeOK
      <4> QED BY <2>7, <4>1
    <3>2. StackNow # <<>> /\ StackNow' = Tail(StackNow) /\ p = Head(StackNow)
      BY <2>4, <2>5, <2>11
    <3>3. HeldNow' = [HeldNow EXCEPT ![t] = @ \cup {Head(StackNow)}] BY <2>6, <3>1, <3>2
    <3>4. Abstract!Pop(t) BY <3>2, <3>3, Zenon DEF StackNow, HeldNow, Abstract!Pop
    <3> QED BY <3>4, Zenon DEF Abstract!Next
  <2>12. ASSUME NEW t \in Threads, UNCHANGED mine, W[t] = <<>>, M = <<>>,
                V = [W EXCEPT ![t] = L]
         PROVE  Abstract!Next
    <3>1. W \in [Threads -> Seq(Chunks)] /\ L \in Seq(Chunks) BY <2>2 DEF Shape, Lists, Links
    <3>2. Elems(W[t]) = {} BY <2>12, LinksNone
    <3>3. k = [h EXCEPT ![t] = @ \cup Elems(L)]
      <4>1. V[t] = L /\ \A u \in Threads \ {t} : V[u] = W[u] BY <2>12, <3>1
      <4>2. \A u \in Threads : k[u] = IF u = t THEN h[t] \cup Elems(L) ELSE h[u]
        BY <2>7, <2>12, <3>2, <4>1
      <4> QED BY <2>7, <4>2
    <3>4. Elems(L) = Abstract!ToSet(L)
      <4>1. DOMAIN L = 1 .. Len(L) BY <3>1, LenProperties
      <4> QED BY <4>1 DEF Elems, Abstract!ToSet
    <3>5. StackNow' = <<>> BY <2>5, <2>12
    <3>6. HeldNow' = [HeldNow EXCEPT ![t] = @ \cup Abstract!ToSet(StackNow)]
      BY <2>4, <2>6, <3>3, <3>4
    <3>7. Abstract!TakeAll(t) BY <3>5, <3>6, Zenon DEF StackNow, HeldNow, Abstract!TakeAll
    <3> QED BY <3>7, Zenon DEF Abstract!Next
  <2>13. ASSUME NEW t \in Threads, NEW p \in Chunks, p \in Elems(W[t]),
                mine' = [mine EXCEPT ![t] = @ \cup {p}],
                Elems(Tail(W[t])) = Elems(W[t]) \ {p},
                M = L, V = [W EXCEPT ![t] = Tail(W[t])]
         PROVE  UNCHANGED Abstract!vars
    <3>1. W \in [Threads -> Seq(Chunks)] BY <2>2 DEF Shape, Lists
    <3>2. V[t] = Tail(W[t]) /\ \A u \in Threads \ {t} : V[u] = W[u] BY <2>13, <3>1
    <3>3. \A u \in Threads : k[u] = h[u] BY <2>1, <2>7, <2>13, <3>2 DEF TypeOK
    <3>4. k = h BY <2>7, <3>3
    <3>5. UNCHANGED <<StackNow, HeldNow>> BY <2>4, <2>5, <2>6, <2>13, <3>4
    <3> QED BY <3>5, Zenon DEF StackNow, HeldNow, Abstract!vars
  <2> QED BY <2>3, <2>8, <2>9, <2>10, <2>11, <2>12, <2>13 DEF Steps
<1> QED BY <1>1, <1>2, FastbinInvariant, PTL DEF Spec, ImplementsStack, Abstract!Spec
=============================================================================
