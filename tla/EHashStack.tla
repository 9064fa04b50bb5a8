----------------------------- MODULE EHashStack -----------------------------
(***************************************************************************)
(* The lock-free stack of ephemeral-hash-cas (core.h): head is a word of a *)
(* pointer and a 16-bit hash, and every push and pop tries to replace it   *)
(* by a pointer with the next hash of a generator, so that a head that     *)
(* went away and came back is not taken for the old one (ABA).             *)
(*                                                                         *)
(* The generator is a shared xorshift state that each draw advances once,  *)
(* and a hash is 16 bits of it; here a draw yields any of Hashes, since 16 *)
(* bits of a longer state come again in any order, whatever the seed, and  *)
(* from the seed 0, which ehash_stack_init accepts, it only ever yields 0. *)
(* Two variables that the code does not have keep what happened: reused,   *)
(* that a hash was drawn which somebody still remembered, and recurred,    *)
(* that a head word was stored which a pop had read with its next field.   *)
(*                                                                         *)
(* A popped node belongs to its thread, which may overwrite or free it:    *)
(* its next field is Junk at once.  An operator X_Slip is X with a         *)
(* plausible slip.                                                         *)
(***************************************************************************)
EXTENDS Integers, FiniteSets, Sequences

CONSTANTS
  Threads, Nodes,
  Hashes,     \* the values of a hash
  NoHash,     \* the hash of the head ehash_stack_init stores (0)
  Null, Junk

ASSUME EHashAssumption ==
  /\ IsFiniteSet(Nodes) /\ NoHash \in Hashes
  /\ Null \notin Nodes \cup {Junk} /\ Junk \notin Nodes

VARIABLES
  head,  \* stack->head
  next,  \* node -> its next field
  mine,  \* thread -> the nodes that it holds
  th,    \* thread -> where it stands in the code, and its locals
  reused, recurred  \* what has happened, see above

vars == <<head, next, mine, th, reused, recurred>>

Nothing == [ptr |-> Null, hash |-> NoHash]
Idle == [pc |-> "idle", node |-> Null, old |-> Nothing, new |-> Nothing]

(* The next field of what a pointer points to; of Junk, more junk.         *)
Next_(p) == IF p \in Nodes THEN next[p] ELSE Junk

At(t, pc) == th[t].pc = pc
Goto(t, call) == th' = [th EXCEPT ![t] = call]

Init ==
  /\ head = Nothing
  /\ next = [n \in Nodes |-> Junk]
  /\ mine \in [Threads -> SUBSET Nodes]
  /\ UNION {mine[t] : t \in Threads} = Nodes
  /\ \A s, t \in Threads : s # t => mine[s] \cap mine[t] = {}
  /\ th = [t \in Threads |-> Idle]
  /\ reused = FALSE /\ recurred = FALSE

(* Hashes that the head has or that a thread keeps; 0 always is one.       *)
Remembered == {head.hash} \cup {th[t].old.hash : t \in Threads}
                          \cup {th[t].new.hash : t \in Threads}

(* hash_generator_next.  The slip leaves it out: a new head gets the hash  *)
(* of the old one.                                                         *)
Draw_KeepsHash(t, h) == h = th[t].old.hash /\ UNCHANGED reused
Draw(t, h) == reused' = (reused \/ h \in Remembered)

(* Storing t's new head brings back the one that another pop has read, and *)
(* whose next field it has read too.                                       *)
Recurs(t) == \E u \in Threads \ {t} : At(u, "pop_cas") /\ th[u].old = th[t].new

Pass(s, t, n) ==
  /\ n \in mine[s] /\ n # th[s].node
  /\ mine' = [mine EXCEPT ![s] = @ \ {n}, ![t] = @ \cup {n}]
  /\ UNCHANGED <<head, next, th, reused, recurred>>

(* ehash_stack_push: the head is loaded, also when a CAS failed ...        *)
PushLoad(t, n) ==
  /\ \/ At(t, "idle") /\ n \in mine[t]
     \/ At(t, "push") /\ n = th[t].node
  /\ Goto(t, [Idle EXCEPT !.pc = "link", !.node = n, !.old = head])
  /\ UNCHANGED <<head, next, mine, reused, recurred>>

(* ... the node linked to it and a hash drawn ...                          *)
PushLink(t) ==
  /\ At(t, "link")
  /\ next' = [next EXCEPT ![th[t].node] = th[t].old.ptr]
  /\ \E h \in Hashes :
       /\ Draw(t, h)
       /\ Goto(t, [th[t] EXCEPT !.pc = "push_cas", !.new = [ptr |-> th[t].node, hash |-> h]])
  /\ UNCHANGED <<head, mine, recurred>>

(* ... and the head replaced, if pointer and hash are still the same.      *)
Same_IgnoresHash(a, b) == a.ptr = b.ptr
Same(a, b) == a = b

PushCAS(t) ==
  /\ At(t, "push_cas")
  /\ IF Same(head, th[t].old)
     THEN /\ head' = th[t].new
          /\ mine' = [mine EXCEPT ![t] = @ \ {th[t].node}]
          /\ recurred' = (recurred \/ Recurs(t))
          /\ Goto(t, Idle)
     ELSE /\ Goto(t, [Idle EXCEPT !.pc = "push", !.node = th[t].node])
          /\ UNCHANGED <<head, mine, recurred>>
  /\ UNCHANGED <<next, reused>>

(* ehash_stack_pop: an empty stack ends it ...                             *)
PopLoad(t) ==
  /\ th[t].pc \in {"idle", "pop"}
  /\ Goto(t, IF head.ptr = Null THEN Idle ELSE [Idle EXCEPT !.pc = "read", !.old = head])
  /\ UNCHANGED <<head, next, mine, reused, recurred>>

(* ... the new head is the node's next, which another thread may have      *)
(* popped and overwritten meanwhile, with the next hash ...                *)
PopRead(t) ==
  /\ At(t, "read")
  /\ \E h \in Hashes :
       /\ Draw(t, h)
       /\ Goto(t, [th[t] EXCEPT !.pc = "pop_cas",
                                !.new = [ptr |-> Next_(th[t].old.ptr), hash |-> h]])
  /\ UNCHANGED <<head, next, mine, recurred>>

(* ... and replaces the old one if that is still there.                    *)
PopCAS(t) ==
  LET n == th[t].old.ptr
  IN  /\ At(t, "pop_cas")
      /\ IF Same(head, th[t].old)
         THEN /\ head' = th[t].new
              /\ mine' = [mine EXCEPT ![t] = @ \cup {n}]
              /\ next' = [next EXCEPT ![n] = Junk]
              /\ recurred' = (recurred \/ Recurs(t))
              /\ Goto(t, Idle)
         ELSE /\ Goto(t, [Idle EXCEPT !.pc = "pop"])
              /\ UNCHANGED <<head, next, mine, recurred>>
      /\ UNCHANGED reused

Next ==
  \E t \in Threads :
    \/ PushLink(t) \/ PushCAS(t) \/ PopLoad(t) \/ PopRead(t) \/ PopCAS(t)
    \/ \E n \in Nodes : PushLoad(t, n) \/ \E s \in Threads \ {t} : Pass(t, s, n)

Spec == Init /\ [][Next]_vars

-----------------------------------------------------------------------------
(* Properties.                                                             *)

(* The list that starts at n: nodes, and Junk if it leaves them.           *)
ListFrom(n) ==
  LET list[k \in 0 .. Cardinality(Nodes)] ==
        IF k = 0 THEN <<>>
        ELSE LET s == list[k - 1]
                 x == IF s = <<>> THEN n ELSE IF s[Len(s)] \in Nodes THEN next[s[Len(s)]] ELSE Null
             IN  IF x # Null /\ Len(s) = k - 1 THEN Append(s, x) ELSE s
  IN  list[Cardinality(Nodes)]

Abstract == INSTANCE LockFreeStack WITH
              Elements <- Nodes, stack <- ListFrom(head.ptr), held <- mine

(* "One-time hashes ... to protect against ABA" (README.md:4 of the        *)
(* library): the loops are a stack, whatever is drawn.                     *)
ImplementsStack == Abstract!Spec

(* Nothing but a head word that comes back under a pop does harm: up to    *)
(* then each push and pop takes effect in the one compare-and-swap that    *)
(* succeeds, as on a stack; no node is lost or given to two threads,       *)
(* though pops read nodes that are no longer theirs to read, and a push    *)
(* whose head went away and came back succeeds.                            *)
StackUntilRecurrence ==
  Abstract!Init /\ [][recurred' \/ Abstract!Next]_(Abstract!vars)

(* A head word only comes back under a pop after a hash was drawn that was *)
(* still remembered: the hash that a push or pop draws is kept unread from *)
(* the draw to the compare-and-swap, however long that takes.              *)
RecursOnlyAfterReuse == recurred => reused
=============================================================================
