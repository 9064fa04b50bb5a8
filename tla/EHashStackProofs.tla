-------------------------- MODULE EHashStackProofs --------------------------
(***************************************************************************)
(* Proofs about the lock-free stack of ephemeral-hash-cas, for any         *)
(* threads, nodes and hashes and whatever the generator yields: the loops  *)
(* implement LockFreeStack until a head word comes back under a pop that   *)
(* has read it, and none does before a hash is drawn that is remembered.   *)
(*                                                                         *)
(* The inductive invariant says that up to the first of these the stack is *)
(* a list of nodes that nobody holds, and up to the second a hash which    *)
(* was drawn and is not in the head yet is one that no thread has read.    *)
(***************************************************************************)
EXTENDS EHashStack, FiniteSetTheorems, TLAPS

(* What ScallocFastbinProofs says of the lists that words make, for nodes. *)
Lists == INSTANCE ScallocFastbinProofs WITH
  Threads <- {}, Chunks <- Nodes, None <- Null, fd <- next, fb <- head.ptr, lock <- Null

Elems(s) == Lists!Elems(s)

-----------------------------------------------------------------------------
(* The inductive invariant.                                                *)

Heads == [ptr : Nodes \cup {Null}, hash : Hashes]
Locals ==
  [pc : {"idle", "push", "link", "push_cas", "pop", "read", "pop_cas"},
   node : Nodes \cup {Null}, old : Heads, new : [ptr : Nodes \cup {Null, Junk}, hash : Hashes]]

TypeOK ==
  /\ head \in Heads
  /\ next \in [Nodes -> Nodes \cup {Null, Junk}]
  /\ mine \in [Threads -> SUBSET Nodes]
  /\ th \in [Threads -> Locals]

(* A thread is about to try its new head.                                  *)
Tries(t) == th[t].pc \in {"push_cas", "pop_cas"}

(* A hash that was drawn is not the head's, nor one that was read, nor     *)
(* another's, until the compare-and-swap it was drawn for.                 *)
Fresh ==
  \A t \in Threads :
    IF Tries(t)
    THEN /\ th[t].new.hash \notin {NoHash, head.hash}
         /\ \A s \in Threads : th[s].old.hash # th[t].new.hash
         /\ \A s \in Threads \ {t} : Tries(s) => th[s].new.hash # th[t].new.hash
    ELSE th[t].new.hash = NoHash

(* A thread pushes a node it has, which links to the head that it read. It *)
(* pops a node that may be another's by now; but if the head is still the  *)
(* one it read, then so is the node after it.                              *)
Standing(t) ==
  /\ th[t].pc \in {"push", "link", "push_cas"} => th[t].node \in mine[t]
  /\ th[t].pc = "push_cas" => next[th[t].node] = th[t].old.ptr /\ th[t].new.ptr = th[t].node
  /\ th[t].pc \in {"read", "pop_cas"} => th[t].old.ptr \in Nodes
  /\ th[t].pc = "pop_cas" /\ head = th[t].old => th[t].new.ptr = next[head.ptr]

(* L is the stack's list, and its nodes are nobody's.                      *)
Shape(L) ==
  /\ Lists!Links(next, head.ptr, L)
  /\ \A t \in Threads : Elems(L) \cap mine[t] = {}
  /\ \A s, t \in Threads : s # t => mine[s] \cap mine[t] = {}
  /\ \A t \in Threads : Standing(t)

IInv ==
  /\ recurred \/ (TypeOK /\ \E L : Shape(L))
  /\ reused \/ (Fresh /\ ~recurred)

(* Lemma: the lemmas on lists apply.                                       *)
LEMMA ListsApply == Lists!FastbinAssumption
BY EHashAssumption, SMT DEF Lists!FastbinAssumption, Lists!IsFiniteSet, IsFiniteSet

(* Lemma: what they say of the stack's list.                               *)
LEMMA ListFacts ==
  ASSUME NEW L, Shape(L)
  PROVE  /\ head.ptr \in Nodes \cup {Null} /\ Elems(L) \subseteq Nodes
         /\ head.ptr # Null =>
              /\ L # <<>> /\ head.ptr = Head(L) /\ head.ptr \in Elems(L)
              /\ next[head.ptr] \in Nodes \cup {Null}
              /\ Lists!Links(next, next[head.ptr], Tail(L))
              /\ Elems(Tail(L)) = Elems(L) \ {head.ptr}
<1>1. Lists!Links(next, head.ptr, L) BY DEF Shape
<1>2. /\ head.ptr \in Nodes \cup {Null} /\ Elems(L) \subseteq Nodes
      /\ \A x \in Elems(L) : next[x] \in Nodes \cup {Null}
  BY <1>1, ListsApply, Lists!LinksWords DEF Elems
<1>3. head.ptr # Null =>
        /\ L # <<>> /\ head.ptr \in Nodes /\ head.ptr = Head(L) /\ head.ptr \in Elems(L)
        /\ Lists!Links(next, next[head.ptr], Tail(L)) /\ Elems(Tail(L)) = Elems(L) \ {head.ptr}
  BY <1>1, ListsApply, Lists!LinksTail DEF Elems
<1> QED BY <1>2, <1>3

(* Lemma: every step keeps the types.                                      *)
LEMMA TypeStep ==
  ASSUME TypeOK, NEW L, Shape(L), [Next]_vars
  PROVE  TypeOK'
<1> USE DEF TypeOK
<1>1. Nothing \in Heads /\ Idle \in Locals
  BY EHashAssumption DEF Nothing, Idle, Heads, Locals
<1>2. ASSUME NEW t \in Threads, NEW call \in Locals, Goto(t, call) PROVE th' \in [Threads -> Locals]
  BY <1>2 DEF Goto
<1>3. ASSUME NEW t \in Threads, NEW s \in Threads, NEW n \in Nodes, Pass(s, t, n) PROVE TypeOK'
  BY <1>3 DEF Pass
<1>4. ASSUME NEW t \in Threads, NEW n \in Nodes, PushLoad(t, n) PROVE TypeOK'
  <2>1. [Idle EXCEPT !.pc = "link", !.node = n, !.old = head] \in Locals BY <1>1 DEF Locals
  <2> QED BY <1>2, <1>4, <2>1 DEF PushLoad
<1>5. ASSUME NEW t \in Threads, PushLink(t) PROVE TypeOK'
  <2>1. th[t] \in Locals /\ th[t].old.ptr \in Nodes \cup {Null} /\ th[t].node \in Nodes
    BY <1>5 DEF Locals, Heads, PushLink, At, Shape, Standing
  <2>2. PICK h \in Hashes :
          Goto(t, [th[t] EXCEPT !.pc = "push_cas", !.new = [ptr |-> th[t].node, hash |-> h]])
    BY <1>5 DEF PushLink
  <2>3. [th[t] EXCEPT !.pc = "push_cas", !.new = [ptr |-> th[t].node, hash |-> h]] \in Locals
    BY <2>1 DEF Locals
  <2>4. th' \in [Threads -> Locals] BY <1>2, <2>2, <2>3
  <2> QED BY <1>5, <2>1, <2>4 DEF PushLink
<1>6. ASSUME NEW t \in Threads, PushCAS(t) PROVE TypeOK'
  <2>1. th[t] \in Locals /\ th[t].new.ptr \in Nodes /\ th[t].node \in Nodes
    BY <1>6 DEF Locals, PushCAS, At, Shape, Standing
  <2>2. th[t].new \in Heads BY <2>1 DEF Locals, Heads
  <2>3. [Idle EXCEPT !.pc = "push", !.node = th[t].node] \in Locals BY <1>1, <2>1 DEF Locals
  <2> QED BY <1>1, <1>2, <1>6, <2>2, <2>3 DEF PushCAS
<1>7. ASSUME NEW t \in Threads, PopLoad(t) PROVE TypeOK'
  <2>1. [Idle EXCEPT !.pc = "read", !.old = head] \in Locals BY <1>1 DEF Locals
  <2> QED BY <1>1, <1>2, <1>7, <2>1 DEF PopLoad
<1>8. ASSUME NEW t \in Threads, PopRead(t) PROVE TypeOK'
  <2>1. th[t] \in Locals /\ th[t].old.ptr \in Nodes
    BY <1>8 DEF Locals, PopRead, At, Shape, Standing
  <2>2. PICK p : p = Next_(th[t].old.ptr) OBVIOUS
  <2>3. p \in Nodes \cup {Null, Junk} BY <2>1, <2>2 DEF Next_
  <2>4. PICK h \in Hashes : Goto(t, [th[t] EXCEPT !.pc = "pop_cas", !.new = [ptr |-> p, hash |-> h]])
    BY <1>8, <2>2 DEF PopRead
  <2>5. [th[t] EXCEPT !.pc = "pop_cas", !.new = [ptr |-> p, hash |-> h]] \in Locals
    BY <2>1, <2>3 DEF Locals
  <2>6. th' \in [Threads -> Locals] BY <1>2, <2>4, <2>5
  <2> QED BY <1>8, <2>6 DEF PopRead
<1>9. ASSUME NEW t \in Threads, PopCAS(t) PROVE TypeOK'
  <2>1. th[t] \in Locals /\ th[t].old.ptr \in Nodes
    BY <1>9 DEF Locals, PopCAS, At, Shape, Standing
  <2>2. head = th[t].old => th[t].new \in Heads
    <3>1. ASSUME head = th[t].old PROVE th[t].new.ptr \in Nodes \cup {Null}
      <4>1. head.ptr # Null BY <2>1, <3>1, EHashAssumption
      <4>2. next[head.ptr] \in Nodes \cup {Null} BY <4>1, ListFacts
      <4> QED BY <1>9, <3>1, <4>2 DEF PopCAS, At, Shape, Standing
    <3> QED BY <2>1, <3>1 DEF Locals, Heads
  <2>3. [Idle EXCEPT !.pc = "pop"] \in Locals BY <1>1 DEF Locals
  <2> QED BY <1>1, <1>2, <1>9, <2>1, <2>2, <2>3 DEF PopCAS, Same
<1>10. CASE UNCHANGED vars BY <1>10 DEF vars
<1> QED BY <1>3, <1>4, <1>5, <1>6, <1>7, <1>8, <1>9, <1>10 DEF Next

-----------------------------------------------------------------------------
(* Hashes.                                                                 *)

(* How a step of t changes what is remembered: it reads the head or        *)
(* forgets, draws a new hash, or replaces the head.                        *)
Reads(t) ==
  /\ UNCHANGED head /\ th'[t].pc \notin {"push_cas", "pop_cas"}
  /\ th'[t].new.hash = NoHash /\ th'[t].old.hash \in {NoHash, head.hash}
Draws(t) ==
  /\ UNCHANGED head /\ th[t].pc \notin {"push_cas", "pop_cas"}
  /\ th'[t].pc \in {"push_cas", "pop_cas"}
  /\ th'[t].new.hash \notin Remembered /\ th'[t].old.hash = th[t].old.hash
Replaces(t) ==
  /\ th[t].pc \in {"push_cas", "pop_cas"} /\ head = th[t].old
  /\ head' = th[t].new /\ th'[t] = Idle

(* Lemma: each step of a thread is one of these, and moves no other.       *)
LEMMA HashSteps ==
  ASSUME TypeOK, ~reused', Next
  PROVE  \/ UNCHANGED <<head, th>>
         \/ \E t \in Threads : /\ Reads(t) \/ Draws(t) \/ Replaces(t)
                               /\ \A u \in Threads \ {t} : th'[u] = th[u]
<1>1. ASSUME NEW t \in Threads, NEW call, Goto(t, call)
      PROVE  th'[t] = call /\ \A u \in Threads \ {t} : th'[u] = th[u]
  BY <1>1 DEF Goto, TypeOK
<1>2. /\ Idle.new.hash = NoHash /\ Idle.old.hash = NoHash /\ Idle.pc = "idle"
  BY DEF Idle, Nothing
<1>3. ASSUME NEW t \in Threads, NEW s \in Threads, NEW n \in Nodes, Pass(t, s, n)
      PROVE  UNCHANGED <<head, th>>
  BY <1>3 DEF Pass
<1>4. ASSUME NEW t \in Threads, PopLoad(t) \/ \E n \in Nodes : PushLoad(t, n)
      PROVE  Reads(t) /\ \A u \in Threads \ {t} : th'[u] = th[u]
  <2>1. PICK i : i = Idle OBVIOUS
  <2>2. i.new.hash = NoHash /\ i.old.hash = NoHash /\ i.pc = "idle" /\ i \in Locals
    BY <1>2, <2>1, EHashAssumption DEF Idle, Nothing, Locals, Heads
  <2>3. /\ UNCHANGED head
        /\ \/ Goto(t, i)
           \/ Goto(t, [i EXCEPT !.pc = "read", !.old = head])
           \/ \E n \in Nodes : Goto(t, [i EXCEPT !.pc = "link", !.node = n, !.old = head])
    BY <1>4, <2>1 DEF PopLoad, PushLoad
  <2>4. /\ \/ th'[t] = i
           \/ th'[t] = [i EXCEPT !.pc = "read", !.old = head]
           \/ \E n \in Nodes : th'[t] = [i EXCEPT !.pc = "link", !.node = n, !.old = head]
        /\ \A u \in Threads \ {t} : th'[u] = th[u]
    BY <2>3 DEF Goto, TypeOK
  <2>5. /\ th'[t].pc \in {"idle", "read", "link"} /\ th'[t].new.hash = NoHash
        /\ th'[t].old.hash \in {NoHash, head.hash}
    BY ONLY <2>2, <2>4 DEF Locals
  <2> QED BY <2>3, <2>4, <2>5 DEF Reads
<1>5. ASSUME NEW t \in Threads, PushLink(t)
      PROVE  Draws(t) /\ \A u \in Threads \ {t} : th'[u] = th[u]
  <2>1. PICK h \in Hashes :
          /\ h \notin Remembered
          /\ Goto(t, [th[t] EXCEPT !.pc = "push_cas", !.new = [ptr |-> th[t].node, hash |-> h]])
    BY <1>5 DEF PushLink, Draw
  <2>2. th[t] \in Locals BY DEF TypeOK
  <2>3. th'[t].pc = "push_cas" /\ th'[t].new.hash = h /\ th'[t].old = th[t].old
    <3>1. th'[t] = [th[t] EXCEPT !.pc = "push_cas", !.new = [ptr |-> th[t].node, hash |-> h]]
      BY <2>1 DEF Goto, TypeOK
    <3> QED BY ONLY <2>2, <3>1 DEF Locals
  <2> QED BY <1>1, <1>5, <2>1, <2>3 DEF PushLink, At, Draws
<1>6. ASSUME NEW t \in Threads, PopRead(t)
      PROVE  Draws(t) /\ \A u \in Threads \ {t} : th'[u] = th[u]
  <2>1. PICK p : p = Next_(th[t].old.ptr) OBVIOUS
  <2>2. PICK h \in Hashes :
          /\ h \notin Remembered
          /\ Goto(t, [th[t] EXCEPT !.pc = "pop_cas", !.new = [ptr |-> p, hash |-> h]])
    BY <1>6, <2>1 DEF PopRead, Draw
  <2>3. th[t] \in Locals BY DEF TypeOK
  <2>4. th'[t].pc = "pop_cas" /\ th'[t].new.hash = h /\ th'[t].old = th[t].old
    <3>1. th'[t] = [th[t] EXCEPT !.pc = "pop_cas", !.new = [ptr |-> p, hash |-> h]]
      BY <2>2 DEF Goto, TypeOK
    <3> QED BY ONLY <2>3, <3>1 DEF Locals
  <2> QED BY <1>1, <1>6, <2>2, <2>4 DEF PopRead, At, Draws
<1>7. ASSUME NEW t \in Threads, PushCAS(t) \/ PopCAS(t)
      PROVE  /\ Reads(t) \/ Replaces(t)
             /\ \A u \in Threads \ {t} : th'[u] = th[u]
  <2>1. CASE head = th[t].old
    BY <1>1, <1>7, <2>1 DEF PushCAS, PopCAS, At, Same, Replaces
  <2>2. CASE head # th[t].old
    <3>1. PICK i : i = Idle OBVIOUS
    <3>2. i.new.hash = NoHash /\ i.old.hash = NoHash /\ i \in Locals
      BY <1>2, <3>1, EHashAssumption DEF Idle, Nothing, Locals, Heads
    <3>3. /\ UNCHANGED head
          /\ \/ Goto(t, [i EXCEPT !.pc = "push", !.node = th[t].node])
             \/ Goto(t, [i EXCEPT !.pc = "pop"])
      BY <1>7, <2>2, <3>1 DEF PushCAS, PopCAS, Same
    <3>4. /\ \/ th'[t] = [i EXCEPT !.pc = "push", !.node = th[t].node]
             \/ th'[t] = [i EXCEPT !.pc = "pop"]
          /\ \A u \in Threads \ {t} : th'[u] = th[u]
      BY <3>3 DEF Goto, TypeOK
    <3>5. /\ th'[t].pc \in {"push", "pop"} /\ th'[t].new.hash = NoHash
          /\ th'[t].old.hash = NoHash
      BY ONLY <3>2, <3>4 DEF Locals
    <3> QED BY <3>3, <3>4, <3>5 DEF Reads
  <2> QED BY <2>1, <2>2
<1> QED BY <1>3, <1>4, <1>5, <1>6, <1>7 DEF Next

(* Lemma: a hash that was drawn stays one that nobody has read.            *)
LEMMA FreshStep ==
  ASSUME TypeOK, Fresh, ~reused', [Next]_vars
  PROVE  Fresh'
<1>1. CASE UNCHANGED <<head, th>> BY <1>1 DEF Fresh, Tries
<1>2. ASSUME NEW t \in Threads, \A u \in Threads \ {t} : th'[u] = th[u], Reads(t)
      PROVE  Fresh'
  BY <1>2 DEF Fresh, Tries, Reads
<1>3. ASSUME NEW t \in Threads, \A u \in Threads \ {t} : th'[u] = th[u], Draws(t)
      PROVE  Fresh'
  <2>1. /\ th[t].new.hash = NoHash /\ head.hash \in Remembered
        /\ \A u \in Threads : th[u].old.hash \in Remembered /\ th[u].new.hash \in Remembered
    BY <1>3 DEF Fresh, Tries, Draws, Remembered
  <2> QED BY <1>3, <2>1 DEF Fresh, Tries, Draws
<1>4. ASSUME NEW t \in Threads, \A u \in Threads \ {t} : th'[u] = th[u], Replaces(t)
      PROVE  Fresh'
  <2>1. th'[t].pc = "idle" /\ th'[t].old.hash = NoHash /\ th'[t].new.hash = NoHash
    BY <1>4 DEF Replaces, Idle, Nothing
  <2>2. head'.hash = th[t].new.hash /\ Tries(t) BY <1>4 DEF Replaces, Tries
  <2> QED BY <1>4, <2>1, <2>2 DEF Fresh, Tries
<1> QED BY <1>1, <1>2, <1>3, <1>4, HashSteps DEF vars

-----------------------------------------------------------------------------
(* The list.                                                               *)

(* Lemma: a thread stands where it stood if nobody touches its node, and   *)
(* if the head has another hash or both it and its node are untouched.     *)
LEMMA OtherStands ==
  ASSUME NEW u \in Threads, Standing(u), th'[u] = th[u],
         th[u].pc \in {"push", "link", "push_cas"} =>
           th[u].node \in mine'[u] /\ next'[th[u].node] = next[th[u].node],
         th[u].pc = "pop_cas" =>
           head' # th[u].old \/ (UNCHANGED head /\ next'[head.ptr] = next[head.ptr])
  PROVE  Standing(u)'
BY DEF Standing

(* The steps that only read or link, and leave the list alone.             *)
Quiet(t) ==
  \/ PopLoad(t) \/ PopRead(t) \/ PushLink(t)
  \/ (PushCAS(t) /\ head # th[t].old) \/ (PopCAS(t) /\ head # th[t].old)
  \/ \E n \in Nodes : PushLoad(t, n)

(* What those steps leave as it is.                                        *)
LEMMA QuietFacts ==
  ASSUME TypeOK, NEW L, Shape(L), NEW t \in Threads, Quiet(t)
  PROVE  /\ UNCHANGED <<head, mine>> /\ \A u \in Threads \ {t} : th'[u] = th[u]
         /\ \A x \in Nodes : x \notin mine[t] => next'[x] = next[x]
<1>1. UNCHANGED <<head, mine>> /\ \E call : Goto(t, call)
  BY DEF Quiet, PopLoad, PopRead, PushLink, PushCAS, PopCAS, PushLoad, Same
<1>2. \A x \in Nodes : x \notin mine[t] => next'[x] = next[x]
  <2>1. CASE PushLink(t)
    <3>1. th[t].node \in mine[t] BY <2>1 DEF PushLink, At, Shape, Standing
    <3> QED BY <2>1, <3>1 DEF PushLink, TypeOK
  <2>2. CASE ~PushLink(t)
    BY <2>2 DEF Quiet, PopLoad, PopRead, PushCAS, PopCAS, PushLoad, Same
  <2> QED BY <2>1, <2>2
<1> QED BY <1>1, <1>2, SMTT(40) DEF Goto, TypeOK

(* Lemma: where t stands after such a step.                                *)
LEMMA QuietStands ==
  ASSUME TypeOK, NEW L, Shape(L), NEW t \in Threads, Quiet(t)
  PROVE  Standing(t)'
<1>1. Standing(t) /\ th[t] \in Locals BY DEF Shape, TypeOK
<1>2. CASE PopLoad(t)
  <2>1. head.ptr \in Nodes \cup {Null} BY ListFacts
  <2>2. CASE head.ptr = Null
    <3>1. th'[t] = Idle BY <1>2, <2>2 DEF PopLoad, Goto, TypeOK
    <3> QED BY <3>1 DEF Standing, Idle
  <2>3. CASE head.ptr # Null
    <3>1. th'[t] = [Idle EXCEPT !.pc = "read", !.old = head]
      BY <1>2, <2>3 DEF PopLoad, Goto, TypeOK
    <3>2. th'[t].pc = "read" /\ th'[t].old = head BY <3>1 DEF Idle
    <3> QED BY <2>1, <2>3, <3>2 DEF Standing
  <2> QED BY <2>2, <2>3
<1>3. CASE PopRead(t)
  <2>1. th[t].pc = "read" /\ th[t].old.ptr \in Nodes /\ UNCHANGED <<head, next>>
    BY <1>1, <1>3 DEF PopRead, At, Standing
  <2>2. PICK p : p = next[th[t].old.ptr] OBVIOUS
  <2>3. PICK h \in Hashes :
          th'[t] = [th[t] EXCEPT !.pc = "pop_cas", !.new = [ptr |-> p, hash |-> h]]
    BY <1>3, <2>1, <2>2 DEF PopRead, Next_, Goto, TypeOK
  <2>4. th'[t].pc = "pop_cas" /\ th'[t].old = th[t].old /\ th'[t].new.ptr = p
    BY ONLY <1>1, <2>3 DEF Locals
  <2> QED BY <2>1, <2>2, <2>4 DEF Standing
<1>4. CASE PushLink(t)
  <2>1. /\ th[t].pc = "link" /\ th[t].node \in mine[t] /\ UNCHANGED mine
        /\ next' = [next EXCEPT ![th[t].node] = th[t].old.ptr]
    BY <1>1, <1>4 DEF PushLink, At, Standing
  <2>2. PICK h \in Hashes :
          th'[t] = [th[t] EXCEPT !.pc = "push_cas", !.new = [ptr |-> th[t].node, hash |-> h]]
    BY <1>4 DEF PushLink, Goto, TypeOK
  <2>3. /\ th'[t].pc = "push_cas" /\ th'[t].old = th[t].old /\ th'[t].node = th[t].node
        /\ th'[t].new.ptr = th[t].node
    BY ONLY <1>1, <2>2 DEF Locals
  <2>4. next'[th[t].node] = th[t].old.ptr BY <2>1 DEF TypeOK
  <2> QED BY <2>1, <2>3, <2>4 DEF Standing
<1>5. CASE PushCAS(t) /\ head # th[t].old
  <2>1. th'[t] = [Idle EXCEPT !.pc = "push", !.node = th[t].node] /\ UNCHANGED mine
    BY <1>5 DEF PushCAS, Same, Goto, TypeOK
  <2>2. th'[t].pc = "push" /\ th'[t].node = th[t].node BY <2>1 DEF Idle
  <2> QED BY <1>1, <1>5, <2>1, <2>2 DEF Standing, PushCAS, At
<1>6. CASE PopCAS(t) /\ head # th[t].old
  <2>1. th'[t] = [Idle EXCEPT !.pc = "pop"] BY <1>6 DEF PopCAS, Same, Goto, TypeOK
  <2> QED BY <2>1 DEF Standing, Idle
<1>7. ASSUME NEW n \in Nodes, PushLoad(t, n) PROVE Standing(t)'
  <2>1. th'[t] = [Idle EXCEPT !.pc = "link", !.node = n, !.old = head] /\ UNCHANGED mine
    BY <1>7 DEF PushLoad, Goto, TypeOK
  <2>2. th'[t].pc = "link" /\ th'[t].node = n BY <2>1 DEF Idle
  <2>3. n \in mine[t] BY <1>1, <1>7 DEF PushLoad, At, Standing
  <2> QED BY <2>1, <2>2, <2>3 DEF Standing
<1> QED BY <1>2, <1>3, <1>4, <1>5, <1>6, <1>7 DEF Quiet

(* Lemma: these steps keep the list and where everybody stands.            *)
LEMMA QuietStep ==
  ASSUME TypeOK, NEW L, Shape(L), NEW t \in Threads, Quiet(t)
  PROVE  Shape(L)' /\ UNCHANGED mine
<1>1. /\ UNCHANGED <<head, mine>> /\ \A u \in Threads \ {t} : th'[u] = th[u]
      /\ \A x \in Nodes : x \notin mine[t] => next'[x] = next[x]
  BY QuietFacts
<1>2. Elems(L) \subseteq Nodes /\ Elems(L) \cap mine[t] = {} BY ListFacts DEF Shape
<1>3. Lists!Links(next', head.ptr, L)
  <2>1. \A x \in Lists!Elems(L) : next'[x] = next[x] BY <1>1, <1>2 DEF Elems
  <2> QED BY <2>1, ListsApply, Lists!LinksKept DEF Shape
<1>4. ASSUME NEW u \in Threads \ {t} PROVE Standing(u)'
  <2>1. Standing(u) /\ th'[u] = th[u] BY <1>1 DEF Shape
  <2>2. th[u].pc \in {"push", "link", "push_cas"} =>
          th[u].node \in mine'[u] /\ next'[th[u].node] = next[th[u].node]
    <3>1. mine[u] \cap mine[t] = {} /\ mine[u] \subseteq Nodes BY DEF Shape, TypeOK
    <3> QED BY <1>1, <2>1, <3>1 DEF Standing
  <2>3. th[u].pc = "pop_cas" /\ head = th[u].old => next'[head.ptr] = next[head.ptr]
    <3>1. ASSUME th[u].pc = "pop_cas", head = th[u].old PROVE head.ptr \in Elems(L)
      <4>1. head.ptr # Null BY <2>1, <3>1, EHashAssumption DEF Standing
      <4> QED BY <4>1, ListFacts
    <3> QED BY <1>1, <1>2, <3>1
  <2> QED BY <1>1, <2>1, <2>2, <2>3, OtherStands
<1>5. Standing(t)' BY QuietStands
<1> QED BY <1>1, <1>3, <1>4, <1>5 DEF Shape

(* Lemma: so does passing a node on.                                       *)
LEMMA PassStep ==
  ASSUME TypeOK, NEW L, Shape(L), NEW s \in Threads, NEW t \in Threads \ {s}, NEW n \in Nodes,
         Pass(s, t, n)
  PROVE  Shape(L)'
<1>1. /\ UNCHANGED <<head, next, th>> /\ n \in mine[s] /\ n # th[s].node
      /\ mine' = [mine EXCEPT ![s] = @ \ {n}, ![t] = @ \cup {n}]
  BY DEF Pass
<1>2. /\ mine'[s] = mine[s] \ {n} /\ mine'[t] = mine[t] \cup {n}
      /\ \A u \in Threads \ {s, t} : mine'[u] = mine[u]
  BY <1>1 DEF TypeOK
<1>3. \A u \in Threads : mine'[u] \subseteq mine[u] \cup IF u = t THEN mine[s] ELSE {}
  BY <1>1, <1>2
<1>4. \A u \in Threads : Elems(L) \cap mine'[u] = {} BY <1>3 DEF Shape
<1>5. ASSUME NEW u \in Threads, NEW v \in Threads, u # v PROVE mine'[u] \cap mine'[v] = {}
  <2>1. /\ mine[u] \cap mine[v] = {} /\ (u # s => mine[u] \cap mine[s] = {})
        /\ (v # s => mine[v] \cap mine[s] = {})
    BY <1>5 DEF Shape
  <2>2. CASE u = t BY <1>1, <1>2, <1>5, <2>1, <2>2
  <2>3. CASE v = t BY <1>1, <1>2, <1>5, <2>1, <2>3
  <2>4. CASE u # t /\ v # t BY <1>3, <1>5, <2>1, <2>4
  <2> QED BY <2>2, <2>3, <2>4
<1>6. ASSUME NEW u \in Threads PROVE Standing(u)'
  <2>1. Standing(u) BY DEF Shape
  <2>2. th[u].pc \in {"push", "link", "push_cas"} => th[u].node \in mine'[u]
    BY <1>1, <1>2, <2>1 DEF Standing
  <2> QED BY <1>1, <2>1, <2>2, OtherStands
<1> QED BY <1>1, <1>4, <1>5, <1>6 DEF Shape

(* Lemma: a new head that nobody has read leaves behind the pops that are  *)
(* under way.                                                              *)
LEMMA HeadMoves ==
  ASSUME NEW t \in Threads, ~Recurs(t), head' = th[t].new,
         NEW u \in Threads \ {t}, th[u].pc = "pop_cas"
  PROVE  head' # th[u].old
BY DEF Recurs, At

(* Lemma: a hash that was drawn and is not stored yet is such a head's.    *)
LEMMA FreshHead ==
  ASSUME Fresh, NEW t \in Threads, Tries(t)
  PROVE  ~Recurs(t)
BY DEF Fresh, Recurs

(* Lemma: the successful compare-and-swap of a push puts its node in front *)
(* of the list.                                                            *)
LEMMA PushStep ==
  ASSUME TypeOK, ~recurred', NEW L, Shape(L), NEW t \in Threads, PushCAS(t), head = th[t].old
  PROVE  \E p \in Nodes :
           /\ p \in mine[t] /\ mine' = [mine EXCEPT ![t] = @ \ {p}]
           /\ Shape(<<p>> \o L)'
<1>1. PICK p : p = th[t].node OBVIOUS
<1>2. /\ head' = th[t].new /\ mine' = [mine EXCEPT ![t] = @ \ {p}] /\ Goto(t, Idle)
      /\ UNCHANGED next /\ th[t].pc = "push_cas" /\ ~Recurs(t)
  BY <1>1 DEF PushCAS, At, Same
<1>3. p \in mine[t] /\ p \in Nodes /\ next[p] = head.ptr /\ head'.ptr = p
  BY <1>1, <1>2 DEF Shape, Standing, TypeOK
<1>4. /\ mine'[t] = mine[t] \ {p} /\ \A u \in Threads \ {t} : mine'[u] = mine[u]
      /\ th'[t] = Idle /\ \A u \in Threads \ {t} : th'[u] = th[u]
  BY <1>2 DEF TypeOK, Goto
<1> DEFINE M == <<p>> \o L
<1>5. Lists!Links(next, p, M) /\ Elems(M) = Elems(L) \cup {p}
  <2>1. p \notin Lists!Elems(L) /\ Lists!Links(next, head.ptr, L) BY <1>3 DEF Shape, Elems
  <2> QED BY <1>3, <2>1, ListsApply, Lists!LinksCons DEF Elems
<1> HIDE DEF M
<1>6. ASSUME NEW u \in Threads PROVE Standing(u)'
  <2>1. CASE u = t BY <1>4, <2>1 DEF Standing, Idle
  <2>2. CASE u # t
    <3>1. Standing(u) /\ th'[u] = th[u] /\ mine'[u] = mine[u] BY <1>4, <2>2 DEF Shape
    <3>2. th[u].pc = "pop_cas" => head' # th[u].old BY <1>2, <2>2, HeadMoves
    <3>3. th[u].pc \in {"push", "link", "push_cas"} => th[u].node \in mine'[u]
      BY <3>1 DEF Standing
    <3> QED BY <1>2, <3>1, <3>2, <3>3, OtherStands
  <2> QED BY <2>1, <2>2
<1>7. \A u \in Threads : Elems(M) \cap mine'[u] = {} BY <1>3, <1>4, <1>5 DEF Shape
<1>8. \A u, v \in Threads : u # v => mine'[u] \cap mine'[v] = {} BY <1>4 DEF Shape
<1>9. Shape(M)' BY <1>2, <1>3, <1>5, <1>6, <1>7, <1>8 DEF Shape
<1> QED BY <1>2, <1>3, <1>9 DEF M

(* Lemma: that of a pop takes the first node, since the next field it has  *)
(* read is still that node's link if the head is the one it has read.      *)
LEMMA PopStep ==
  ASSUME TypeOK, ~recurred', NEW L, Shape(L), NEW t \in Threads, PopCAS(t), head = th[t].old
  PROVE  \E p \in Nodes :
           /\ L # <<>> /\ p = Head(L) /\ mine' = [mine EXCEPT ![t] = @ \cup {p}]
           /\ Shape(Tail(L))'
<1>1. PICK p : p = head.ptr OBVIOUS
<1>2. /\ head' = th[t].new /\ mine' = [mine EXCEPT ![t] = @ \cup {p}] /\ Goto(t, Idle)
      /\ next' = [next EXCEPT ![p] = Junk] /\ th[t].pc = "pop_cas" /\ ~Recurs(t)
  BY <1>1 DEF PopCAS, At, Same
<1>3. p \in Nodes /\ head'.ptr = next[p] BY <1>1, <1>2 DEF Shape, Standing
<1>4. /\ mine'[t] = mine[t] \cup {p} /\ \A u \in Threads \ {t} : mine'[u] = mine[u]
      /\ th'[t] = Idle /\ \A u \in Threads \ {t} : th'[u] = th[u]
      /\ \A x \in Nodes \ {p} : next'[x] = next[x]
  BY <1>2, <1>3 DEF TypeOK, Goto
<1> DEFINE M == Tail(L)
<1>5. /\ L # <<>> /\ p = Head(L) /\ p \in Elems(L) /\ Elems(L) \subseteq Nodes
      /\ Lists!Links(next, next[p], M) /\ Elems(M) = Elems(L) \ {p}
  BY <1>1, <1>3, ListFacts, EHashAssumption
<1> HIDE DEF M
<1>6. Lists!Links(next', next[p], M)
  <2>1. \A x \in Lists!Elems(M) : next'[x] = next[x] BY <1>4, <1>5 DEF Elems
  <2> QED BY <1>5, <2>1, ListsApply, Lists!LinksKept
<1>7. ASSUME NEW u \in Threads PROVE Standing(u)'
  <2>1. CASE u = t BY <1>4, <2>1 DEF Standing, Idle
  <2>2. CASE u # t
    <3>1. Standing(u) /\ th'[u] = th[u] /\ mine'[u] = mine[u] BY <1>4, <2>2 DEF Shape
    <3>2. th[u].pc = "pop_cas" => head' # th[u].old BY <1>2, <2>2, HeadMoves
    <3>3. th[u].pc \in {"push", "link", "push_cas"} =>
            th[u].node \in mine'[u] /\ next'[th[u].node] = next[th[u].node]
      <4>1. p \notin mine[u] /\ mine[u] \subseteq Nodes BY <1>5 DEF Shape, TypeOK
      <4> QED BY <1>4, <3>1, <4>1 DEF Standing
    <3> QED BY <3>1, <3>2, <3>3, OtherStands
  <2> QED BY <2>1, <2>2
<1>8. \A u \in Threads : Elems(M) \cap mine'[u] = {} BY <1>4, <1>5 DEF Shape
<1>9. \A u, v \in Threads : u # v => mine'[u] \cap mine'[v] = {}
  <2>1. \A u \in Threads : p \notin mine[u] BY <1>5 DEF Shape
  <2> QED BY <1>4, <2>1 DEF Shape
<1>10. Shape(M)' BY <1>3, <1>6, <1>7, <1>8, <1>9 DEF Shape
<1> QED BY <1>2, <1>3, <1>5, <1>10 DEF M

-----------------------------------------------------------------------------
(* The theorems.                                                           *)

(* A step of a stack, from the list L to the list M.                       *)
Steps(L, M) ==
  \/ M = L /\ UNCHANGED mine
  \/ \E t \in Threads :
       \/ M = L /\ \E s \in Threads \ {t}, n \in Nodes : Pass(t, s, n)
       \/ \E p \in Nodes :
            /\ p \in mine[t] /\ mine' = [mine EXCEPT ![t] = @ \ {p}]
            /\ M = <<p>> \o L
       \/ \E p \in Nodes :
            /\ L # <<>> /\ p = Head(L) /\ mine' = [mine EXCEPT ![t] = @ \cup {p}]
            /\ M = Tail(L)

(* Lemma: the list after a step, M, has the shape again.                   *)
LEMMA ShapeStep ==
  ASSUME TypeOK, ~recurred', NEW L, Shape(L), [Next]_vars
  PROVE  \E M : Shape(M)' /\ Steps(L, M)
<1>1. ASSUME NEW t \in Threads, Quiet(t) PROVE \E M : Shape(M)' /\ Steps(L, M)
  <2>1. Shape(L)' /\ UNCHANGED mine BY <1>1, QuietStep
  <2> QED BY <2>1 DEF Steps
<1>2. ASSUME NEW t \in Threads, NEW s \in Threads \ {t}, NEW n \in Nodes, Pass(t, s, n)
      PROVE  \E M : Shape(M)' /\ Steps(L, M)
  <2>1. Shape(L)' BY <1>2, PassStep
  <2> QED BY <1>2, <2>1 DEF Steps
<1>3. ASSUME NEW t \in Threads, PushCAS(t), head = th[t].old
      PROVE  \E M : Shape(M)' /\ Steps(L, M)
  <2>1. PICK p \in Nodes : /\ p \in mine[t] /\ mine' = [mine EXCEPT ![t] = @ \ {p}]
                           /\ Shape(<<p>> \o L)'
    BY <1>3, PushStep
  <2>2. Steps(L, <<p>> \o L) BY <2>1 DEF Steps
  <2> QED BY <2>1, <2>2
<1>4. ASSUME NEW t \in Threads, PopCAS(t), head = th[t].old
      PROVE  \E M : Shape(M)' /\ Steps(L, M)
  <2>1. PICK p \in Nodes : /\ L # <<>> /\ p = Head(L) /\ mine' = [mine EXCEPT ![t] = @ \cup {p}]
                           /\ Shape(Tail(L))'
    BY <1>4, PopStep
  <2>2. Steps(L, Tail(L)) BY <2>1 DEF Steps
  <2> QED BY <2>1, <2>2
<1>5. CASE UNCHANGED vars
  <2>1. Shape(L)' BY <1>5 DEF vars, Shape, Standing
  <2> QED BY <1>5, <2>1 DEF vars, Steps
<1>6. CASE Next
  <2>1. PICK t \in Threads :
          \/ Quiet(t) \/ (PushCAS(t) /\ head = th[t].old) \/ (PopCAS(t) /\ head = th[t].old)
          \/ \E s \in Threads \ {t}, n \in Nodes : Pass(t, s, n)
    BY <1>6 DEF Next, Quiet
  <2> QED BY <1>1, <1>2, <1>3, <1>4, <2>1
<1> QED BY <1>5, <1>6

(* Lemma: what has happened stays so.                                      *)
LEMMA FlagsStay ==
  ASSUME [Next]_vars
  PROVE  (recurred => recurred') /\ (reused => reused')
<1>1. ASSUME NEW t \in Threads, PushLink(t) \/ PopRead(t)
      PROVE  recurred' = recurred /\ (reused => reused')
  BY <1>1, Zenon DEF PushLink, PopRead, Draw
<1>2. ASSUME NEW t \in Threads, PushCAS(t) \/ PopCAS(t)
      PROVE  reused' = reused /\ (recurred => recurred')
  BY <1>2, Zenon DEF PushCAS, PopCAS
<1>3. ASSUME NEW t \in Threads, NEW s, NEW n, PopLoad(t) \/ PushLoad(t, n) \/ Pass(t, s, n)
      PROVE  reused' = reused /\ recurred' = recurred
  BY <1>3 DEF PopLoad, PushLoad, Pass
<1>4. CASE UNCHANGED vars
  <2>1. reused' = reused /\ recurred' = recurred BY <1>4 DEF vars
  <2> QED BY <2>1, Zenon
<1>5. CASE Next
  <2>1. PICK t \in Threads :
          \/ PushLink(t) \/ PopRead(t) \/ PushCAS(t) \/ PopCAS(t) \/ PopLoad(t)
          \/ \E n : PushLoad(t, n) \/ \E s : Pass(t, s, n)
    BY <1>5, Zenon DEF Next
  <2> QED BY <1>1, <1>2, <1>3, <2>1, Zenon
<1> QED BY <1>4, <1>5

(* Lemma: no head comes back with a hash that nobody has read.             *)
LEMMA FirstRecurrence ==
  ASSUME Fresh, ~recurred, [Next]_vars
  PROVE  ~recurred'
<1>1. ASSUME NEW t \in Threads, At(t, "push_cas") \/ At(t, "pop_cas") PROVE ~Recurs(t)
  BY <1>1, FreshHead DEF At, Tries
<1> QED BY <1>1 DEF Next, vars, PushLink, PushCAS, PopLoad, PopRead, PopCAS, PushLoad, Pass

(* Lemma: at first the stack is empty and no hash is drawn.                *)
LEMMA InitShape == Init => TypeOK /\ Fresh /\ Shape(<<>>)
<1> SUFFICES ASSUME Init PROVE TypeOK /\ Fresh /\ Shape(<<>>) OBVIOUS
<1>1. Nothing \in Heads /\ Idle \in Locals
  BY EHashAssumption DEF Nothing, Idle, Heads, Locals
<1>2. TypeOK BY <1>1 DEF Init, TypeOK
<1>3. \A t \in Threads : th[t].pc = "idle" /\ th[t].new.hash = NoHash
  BY DEF Init, Idle, Nothing
<1>4. Fresh BY <1>3 DEF Fresh, Tries
<1>5. Lists!Links(next, Null, <<>>) /\ Elems(<<>>) = {}
  BY ListsApply, Lists!LinksNone DEF Elems
<1>6. \A t \in Threads : Standing(t) BY <1>3 DEF Standing
<1>7. head.ptr = Null BY DEF Init, Nothing
<1>8. Shape(<<>>) BY <1>5, <1>6, <1>7 DEF Init, Shape
<1> QED BY <1>2, <1>4, <1>8

(* Theorem: until a head word comes back under a pop, the stack is a list  *)
(* of nodes that nobody holds; until a hash is drawn that is remembered,   *)
(* none comes back, and nobody has read a hash that is still to be stored. *)
THEOREM EHashInvariant == Spec => []IInv
<1>1. Init => IInv BY InitShape DEF IInv, Init
<1>2. IInv /\ [Next]_vars => IInv'
  <2> SUFFICES ASSUME IInv, [Next]_vars PROVE IInv' OBVIOUS
  <2>1. (recurred => recurred') /\ (reused => reused') BY FlagsStay
  <2>2. ASSUME ~recurred' PROVE TypeOK' /\ \E M : Shape(M)'
    <3>1. TypeOK /\ \E L : Shape(L) BY <2>1, <2>2 DEF IInv
    <3>2. PICK L : Shape(L) BY <3>1
    <3> QED BY <2>2, <3>1, <3>2, TypeStep, ShapeStep
  <2>3. ASSUME ~reused' PROVE Fresh' /\ ~recurred'
    <3>1. TypeOK /\ Fresh /\ ~recurred BY <2>1, <2>3 DEF IInv
    <3>2. Fresh' BY <2>3, <3>1, FreshStep
    <3>3. ~recurred' BY <3>1, FirstRecurrence
    <3> QED BY <3>2, <3>3
  <2> QED BY <2>2, <2>3 DEF IInv
<1> QED BY <1>1, <1>2, PTL DEF Spec

(* Theorem: a head word only comes back under a pop after a hash was drawn *)
(* that somebody still remembered.                                         *)
THEOREM EHashRecursOnlyAfterReuse == Spec => []RecursOnlyAfterReuse
<1>1. IInv => RecursOnlyAfterReuse BY DEF IInv, RecursOnlyAfterReuse
<1> QED BY <1>1, EHashInvariant, PTL

(* What the refinement takes for the stack is the list of the shape.       *)
StackNow == ListFrom(head.ptr)
ListMapped == \A L : Shape(L) => StackNow = L

(* Lemma: that is so.                                                      *)
LEMMA MappedList == ListMapped
<1> SUFFICES ASSUME NEW L, Shape(L) PROVE StackNow = L BY DEF ListMapped
<1>1. Lists!ListFrom(head.ptr) = L BY ListsApply, Lists!ListFromLinks DEF Shape
<1>2. Lists!ListFrom(head.ptr) = ListFrom(head.ptr)
  <2>1. Lists!Cardinality(Nodes) = Cardinality(Nodes)
    BY Zenon DEF Lists!Cardinality, Cardinality
  <2> QED BY <2>1, Zenon DEF Lists!ListFrom, ListFrom
<1> QED BY <1>1, <1>2 DEF StackNow

(* Theorem: the loops implement LockFreeStack until a head word comes back *)
(* under a pop that has read it: every push and pop takes effect in its    *)
(* one compare-and-swap, whatever comes and goes meanwhile.                *)
THEOREM EHashStackUntilRecurrence == Spec => StackUntilRecurrence
<1>1. Init => Abstract!Init
  <2> SUFFICES ASSUME Init PROVE Abstract!Init OBVIOUS
  <2>1. StackNow = <<>> BY InitShape, MappedList DEF ListMapped
  <2> QED BY <2>1 DEF Init, Abstract!Init, StackNow
<1>2. IInv /\ [Next]_vars => [recurred' \/ Abstract!Next]_(Abstract!vars)
  <2> SUFFICES ASSUME IInv, [Next]_vars, ~recurred' PROVE [Abstract!Next]_(Abstract!vars)
    OBVIOUS
  <2>1. ~recurred BY FlagsStay
  <2>2. PICK L : TypeOK /\ Shape(L) BY <2>1 DEF IInv
  <2>3. PICK M : Shape(M)' /\ Steps(L, M) BY <2>2, ShapeStep
  <2>4. StackNow = L BY <2>2, MappedList DEF ListMapped
  <2>5. StackNow' = M
    <3>1. ListMapped' BY MappedList, PTL
    <3> QED BY <2>3, <3>1 DEF ListMapped
  <2>6. CASE M = L /\ UNCHANGED mine
    <3>1. UNCHANGED <<StackNow, mine>> BY <2>4, <2>5, <2>6
    <3> QED BY <3>1, Zenon DEF StackNow, Abstract!vars
  <2>7. ASSUME NEW t \in Threads, NEW s \in Threads \ {t}, NEW n \in Nodes, Pass(t, s, n), M = L
        PROVE  Abstract!Next
    <3>1. n \in mine[t] /\ mine' = [mine EXCEPT ![t] = @ \ {n}, ![s] = @ \cup {n}]
      BY <2>7 DEF Pass
    <3>2. UNCHANGED StackNow BY <2>4, <2>5, <2>7
    <3>3. Abstract!Pass(t, s, n) BY <3>1, <3>2, Zenon DEF StackNow, Abstract!Pass
    <3> QED BY <3>3, Zenon DEF Abstract!Next
  <2>8. ASSUME NEW t \in Threads, NEW p \in Nodes, p \in mine[t],
               mine' = [mine EXCEPT ![t] = @ \ {p}], M = <<p>> \o L
        PROVE  Abstract!Next
    <3>1. StackNow' = <<p>> \o StackNow BY <2>4, <2>5, <2>8
    <3>2. Abstract!Push(t, p) BY <2>8, <3>1, Zenon DEF StackNow, Abstract!Push
    <3> QED BY <3>2, Zenon DEF Abstract!Next
  <2>9. ASSUME NEW t \in Threads, NEW p \in Nodes, L # <<>>, p = Head(L),
               mine' = [mine EXCEPT ![t] = @ \cup {p}], M = Tail(L)
        PROVE  Abstract!Next
    <3>1. StackNow # <<>> /\ StackNow' = Tail(StackNow) /\ p = Head(StackNow)
      BY <2>4, <2>5, <2>9
    <3>2. mine' = [mine EXCEPT ![t] = @ \cup {Head(StackNow)}] BY <2>9, <3>1
    <3>3. Abstract!Pop(t) BY <3>1, <3>2, Zenon DEF StackNow, Abstract!Pop
    <3> QED BY <3>3, Zenon DEF Abstract!Next
  <2> QED BY <2>3, <2>6, <2>7, <2>8, <2>9 DEF Steps
<1> QED BY <1>1, <1>2, EHashInvariant, PTL DEF Spec, StackUntilRecurrence
=============================================================================
