--------------------------- MODULE ScallocFastbin ---------------------------
(***************************************************************************)
(* One fastbin of scalloc.c, load by load: the loop of _int_free_chunk     *)
(* that links a chunk with compare-and-swap and no lock, REMOVE_FB of      *)
(* _int_malloc, and the atomic_exchange and the walk of malloc_consolidate *)
(* (those two with the arena's mutex).  A chunk's fd word is the list's    *)
(* only while the chunk is in it: to whoever holds the chunk it is user    *)
(* data, which this module overwrites with Junk at once.                   *)
(*                                                                         *)
(* Each action is one access to shared memory, in program order; stores    *)
(* become visible in that order, as the release and acquire forms the code *)
(* uses provide.  An operator X_Slip is X with a plausible slip.           *)
(***************************************************************************)
EXTENDS Integers, FiniteSets, Sequences

CONSTANTS Threads, Chunks, None, Junk

ASSUME FastbinAssumption ==
  /\ IsFiniteSet(Chunks)
  /\ None \notin Chunks \cup Threads \cup {Junk} /\ Junk \notin Chunks

VARIABLES
  fb,    \* *fb: the first chunk, or None
  fd,    \* chunk -> its fd word, revealed
  lock,  \* owner of av->mutex, or None
  mine,  \* thread -> the chunks that it holds
  th     \* thread -> where it stands in the code, and its locals

vars == <<fb, fd, lock, mine, th>>

(* p is the chunk pushed, or the victim of REMOVE_FB; old is what was read *)
(* of *fb; next what was read of the victim's fd; cur the walk's position. *)
Idle == [pc |-> "idle", p |-> None, old |-> None, next |-> None, cur |-> None]

At(t, pc) == th[t].pc = pc
Goto(t, call) == th' = [th EXCEPT ![t] = call]

Init ==
  /\ fb = None
  /\ fd = [c \in Chunks |-> Junk]
  /\ lock = None
  /\ mine \in [Threads -> SUBSET Chunks]
  /\ UNION {mine[t] : t \in Threads} = Chunks
  /\ \A s, t \in Threads : s # t => mine[s] \cap mine[t] = {}
  /\ th = [t \in Threads |-> Idle]

Lock(t) ==
  /\ At(t, "idle") /\ lock = None
  /\ lock' = t
  /\ UNCHANGED <<fb, fd, mine, th>>

Unlock(t) ==
  /\ At(t, "idle") /\ lock = t
  /\ lock' = None
  /\ UNCHANGED <<fb, fd, mine, th>>

(* Another thread gets a chunk of the program (not one being pushed).      *)
Pass(s, t, c) ==
  /\ c \in mine[s] /\ c # th[s].p
  /\ mine' = [mine EXCEPT ![s] = @ \ {c}, ![t] = @ \cup {c}]
  /\ UNCHANGED <<fb, fd, lock, th>>

(* _int_free_chunk, with or without the lock: old = *fb ...                *)
PushLoad(t, c) ==
  /\ At(t, "idle") /\ c \in mine[t]
  /\ Goto(t, [Idle EXCEPT !.pc = "link", !.p = c, !.old = fb])
  /\ UNCHANGED <<fb, fd, lock, mine>>

(* ... p->fd = old (old = p would be reported as a double free) ...        *)
PushLink(t) ==
  /\ At(t, "link") /\ th[t].old # th[t].p
  /\ fd' = [fd EXCEPT ![th[t].p] = th[t].old]
  /\ Goto(t, [th[t] EXCEPT !.pc = "swap"])
  /\ UNCHANGED <<fb, lock, mine>>

(* ... and *fb = p if *fb is still old; else old is what it is now.        *)
PushCAS_KeepsLink(t) ==
  /\ At(t, "swap")
  /\ IF fb = th[t].old
     THEN /\ fb' = th[t].p
          /\ mine' = [mine EXCEPT ![t] = @ \ {th[t].p}]
          /\ Goto(t, Idle)
     ELSE /\ Goto(t, [th[t] EXCEPT !.old = fb])
          /\ UNCHANGED <<fb, mine>>
  /\ UNCHANGED <<fd, lock>>
PushCAS(t) ==
  /\ At(t, "swap")
  /\ IF fb = th[t].old
     THEN /\ fb' = th[t].p
          /\ mine' = [mine EXCEPT ![t] = @ \ {th[t].p}]
          /\ Goto(t, Idle)
     ELSE /\ Goto(t, [th[t] EXCEPT !.pc = "link", !.old = fb])
          /\ UNCHANGED <<fb, mine>>
  /\ UNCHANGED <<fd, lock>>

(* REMOVE_FB, with the lock: the victim is *fb ...                         *)
PopLoad_Unlocked(t) ==
  /\ At(t, "idle") /\ fb # None
  /\ Goto(t, [Idle EXCEPT !.pc = "reveal", !.p = fb])
  /\ UNCHANGED <<fb, fd, lock, mine>>
PopLoad(t) ==
  /\ At(t, "idle") /\ lock = t /\ fb # None
  /\ Goto(t, [Idle EXCEPT !.pc = "reveal", !.p = fb])
  /\ UNCHANGED <<fb, fd, lock, mine>>

(* ... the next chunk is read from its fd ...                              *)
PopReveal(t) ==
  /\ At(t, "reveal")
  /\ Goto(t, [th[t] EXCEPT !.pc = "remove", !.next = fd[th[t].p]])
  /\ UNCHANGED <<fb, fd, lock, mine>>

(* ... and becomes *fb if *fb is still the victim; else the victim is what *)
(* *fb is now, and the pop gives up when that is nothing.                  *)
PopCAS_KeepsVictim(t) ==
  LET victim == th[t].p
  IN  /\ At(t, "remove")
      /\ \/ /\ fb = victim
            /\ fb' = th[t].next
            /\ fd' = [fd EXCEPT ![victim] = Junk]
            /\ mine' = [mine EXCEPT ![t] = @ \cup {victim}]
            /\ Goto(t, Idle)
         \/ /\ fb # victim
            /\ Goto(t, IF fb = None THEN Idle ELSE [th[t] EXCEPT !.pc = "reveal"])
            /\ UNCHANGED <<fb, fd, mine>>
      /\ UNCHANGED lock
PopCAS(t) ==
  LET victim == th[t].p
  IN  /\ At(t, "remove")
      /\ \/ /\ fb = victim
            /\ fb' = th[t].next
            /\ fd' = [fd EXCEPT ![victim] = Junk]
            /\ mine' = [mine EXCEPT ![t] = @ \cup {victim}]
            /\ Goto(t, Idle)
         \/ /\ fb # victim
            /\ Goto(t, IF fb = None THEN Idle ELSE [Idle EXCEPT !.pc = "reveal", !.p = fb])
            /\ UNCHANGED <<fb, fd, mine>>
      /\ UNCHANGED lock

(* malloc_consolidate, with the lock: the list is detached whole ...       *)
TakeAll_Copies(t) ==
  /\ At(t, "idle") /\ lock = t /\ fb # None
  /\ Goto(t, [Idle EXCEPT !.pc = "walk", !.cur = fb])
  /\ UNCHANGED <<fb, fd, lock, mine>>
TakeAll(t) ==
  /\ At(t, "idle") /\ lock = t /\ fb # None
  /\ fb' = None
  /\ Goto(t, [Idle EXCEPT !.pc = "walk", !.cur = fb])
  /\ UNCHANGED <<fd, lock, mine>>

(* ... and walked, each chunk's fd read before the chunk is merged.        *)
Walk_ReadsLate(t) ==
  LET p == th[t].cur
  IN  /\ At(t, "walk")
      /\ fd' = [fd EXCEPT ![p] = Junk]
      /\ mine' = [mine EXCEPT ![t] = @ \cup {p}]
      /\ Goto(t, IF fd'[p] = None THEN Idle ELSE [th[t] EXCEPT !.cur = fd'[p]])
      /\ UNCHANGED <<fb, lock>>
Walk(t) ==
  LET p == th[t].cur
  IN  /\ At(t, "walk")
      /\ fd' = [fd EXCEPT ![p] = Junk]
      /\ mine' = [mine EXCEPT ![t] = @ \cup {p}]
      /\ Goto(t, IF fd[p] = None THEN Idle ELSE [th[t] EXCEPT !.cur = fd[p]])
      /\ UNCHANGED <<fb, lock>>

Step(t) ==
  PushLink(t) \/ PushCAS(t) \/ PopReveal(t) \/ PopCAS(t) \/ Walk(t)

Next ==
  \E t \in Threads :
    \/ Step(t) \/ Lock(t) \/ Unlock(t) \/ PopLoad(t) \/ TakeAll(t)
    \/ \E c \in Chunks : PushLoad(t, c) \/ \E s \in Threads \ {t} : Pass(t, s, c)

Spec == Init /\ [][Next]_vars

(* A thread inside an operation is scheduled; no new operation has to      *)
(* start, and the mutex need not be fair.                                  *)
FairSpec == Spec /\ \A t \in Threads : WF_vars(Step(t))

-----------------------------------------------------------------------------
(* Properties.                                                             *)

(* The list that starts at c: chunks, and Junk where it leaves them.       *)
ListFrom(c) ==
  LET list[n \in 0 .. Cardinality(Chunks)] ==
        IF n = 0 THEN <<>>
        ELSE LET s == list[n - 1]
                 x == IF s = <<>> THEN c ELSE IF s[Len(s)] \in Chunks THEN fd[s[Len(s)]] ELSE None
             IN  IF x # None /\ Len(s) = n - 1 THEN Append(s, x) ELSE s
  IN  list[Cardinality(Chunks)]

ElementsFrom(c) == LET s == ListFrom(c) IN {s[i] : i \in DOMAIN s}

(* Nobody follows a word that is user data, so that the checks for a       *)
(* misaligned chunk in malloc_consolidate never abort, whatever frees run  *)
(* meanwhile.  The link that REMOVE_FB reads counts only as long as the    *)
(* head is still the victim: otherwise its compare-and-swap fails and the  *)
(* link is dropped.                                                        *)
NoJunkFollowed == fb # Junk /\ \A t \in Threads : th[t].cur # Junk
                    /\ (At(t, "remove") /\ fb = th[t].p => th[t].next # Junk)

(* The loops implement a stack: each push, pop and detachment happens in   *)
(* the one step that changes *fb, no chunk is lost or given to two, and a  *)
(* chunk freed, taken and freed again while a push waits does not break    *)
(* the list (REMOVE_FB would, were it not for the lock).                   *)
Abstract ==
  INSTANCE LockFreeStack WITH
    Elements <- Chunks,
    stack <- ListFrom(fb),
    held  <- [t \in Threads |-> mine[t] \cup ElementsFrom(th[t].cur)]
ImplementsStack == Abstract!Spec

(* REMOVE_FB ends although frees need no lock and can make it start over:  *)
(* while the popping thread has the lock no chunk leaves the list, so the  *)
(* others run out of chunks to push.                                       *)
PopEnds == \A t \in Threads : th[t].pc \in {"reveal", "remove"} ~> th[t].pc = "idle"
=============================================================================
