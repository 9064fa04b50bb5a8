------------------------- MODULE ScallocArenaProofs -------------------------
(***************************************************************************)
(* The arena's mutex, binmap and caches, for every value of the constants; *)
(* then the invariant that says where each chunk of the heap is, and every *)
(* step that hands a chunk from one place to another as it is.             *)
(***************************************************************************)
EXTENDS ScallocArena, SequenceTheorems, FiniteSetTheorems, WellFoundedInduction, TLAPS

-----------------------------------------------------------------------------
(* The mutex.  A thread's next step says whether it needs the lock; what   *)
(* has to be known beside that is where malloc_consolidate and             *)
(* _int_free_maybe_consolidate return to, since they run within malloc,    *)
(* free, realloc, memalign and malloc_trim alike.                          *)
CallFields ==
  {"fn", "pc", "want", "nb", "al", "pad", "p", "old", "v", "iters", "sorted", "cached", "fb",
   "chain", "after", "k"}

CallOK(c) ==
  /\ DOMAIN c = CallFields
  /\ c.pc \in LockedPCs \cup UnlockedPCs
  /\ c.pc = "consolidate" => c.after \in {"unsorted", "systrim"}
  /\ c.pc = "systrim" \/ (c.pc = "consolidate" /\ c.after = "systrim")
       => c.k \in {"aligned", "done"}

LockInv ==
  /\ DOMAIN op = Threads
  /\ \A t \in Threads : CallOK(op[t])
  /\ LockHeld

(* What an action of thread t may do to the lock: take it if nobody has    *)
(* it, keep it, or give it back, as its next step c needs.                 *)
Moves(t, c) ==
  /\ op' = [op EXCEPT ![t] = c]
  /\ CallOK(c)
  /\ IF c.pc \in LockedPCs THEN lock \in {None, t} /\ lock' = t
     ELSE lock' = IF lock = t THEN None ELSE lock

(* Lemma: a step that moves the lock as the thread's next step needs keeps *)
(* the invariant, for that thread and all others.                          *)
LEMMA MovesInv ==
  ASSUME LockInv, NEW t \in Threads, NEW c, Moves(t, c)
  PROVE  LockInv'
<1>1. /\ DOMAIN op = Threads /\ None \notin Threads
      /\ \A u \in Threads : CallOK(op[u]) /\ (op[u].pc \in LockedPCs <=> lock = u)
  BY ArenaAssumption DEF LockInv, LockHeld
<1>2. /\ DOMAIN op' = Threads /\ op'[t] = c /\ \A u \in Threads \ {t} : op'[u] = op[u]
  BY <1>1 DEF Moves
<1>3. \A u \in Threads : CallOK(op'[u])
  BY <1>1, <1>2 DEF Moves
<1>4. ASSUME NEW u \in Threads PROVE op'[u].pc \in LockedPCs <=> lock' = u
  <2>1. CASE u = t
    BY <2>1, <1>1, <1>2 DEF Moves
  <2>2. CASE u # t
    BY <2>2, <1>1, <1>2 DEF Moves
  <2> QED
    BY <2>1, <2>2
<1> QED
  BY <1>2, <1>3, <1>4 DEF LockInv, LockHeld, CallOK

(* Lemma: a step that changes neither the calls nor the lock.              *)
LEMMA StaysInv == LockInv /\ UNCHANGED <<op, lock>> => LockInv'
BY DEF LockInv, LockHeld

(* Lemma: _int_malloc's result is a step with the lock held.               *)
LEMMA GotMoves ==
  ASSUME LockInv, NEW t \in Threads, NEW v, lock = t, Got(t, v), UNCHANGED lock
  PROVE  \E c : Moves(t, c)
<1> DEFINE c == [op[t] EXCEPT !.pc = "got", !.v = v]
<1>1. CallOK(op[t]) /\ DOMAIN op = Threads
  BY DEF LockInv
<1>2. op' = [op EXCEPT ![t] = c]
  BY <1>1, Zenon DEF Got
<1>3. CallOK(c) /\ c.pc = "got"
  BY <1>1 DEF CallOK, CallFields, LockedPCs
<1>4. Moves(t, c)
  BY <1>2, <1>3 DEF Moves, LockedPCs
<1> QED
  BY <1>4

(* Lemma: a call stays a call when it goes on, without the consolidation.  *)
Plain == (LockedPCs \cup UnlockedPCs) \ {"consolidate", "systrim"}

(* Lemma: CallOK asks nothing of a call outside the consolidation and the  *)
(* trim.                                                                   *)
LEMMA PlainOK ==
  ASSUME NEW c, DOMAIN c = CallFields, c.pc \in Plain
  PROVE  CallOK(c)
BY DEF CallOK, Plain

(* Lemma: the calls that MaybeConsolidate goes on with.                    *)
LEMMA MaybeOK ==
  ASSUME NEW call, DOMAIN call = CallFields, NEW sz, NEW k, k \in {"aligned", "done"}
  PROVE  /\ CallOK(MaybeConsolidate(call, sz, k))
         /\ MaybeConsolidate(call, sz, k).pc \in LockedPCs
<1>1. CASE sz < ConsolidationThreshold
  BY <1>1 DEF MaybeConsolidate, CallOK, CallFields, LockedPCs
<1>2. CASE ~(sz < ConsolidationThreshold) /\ have_fastchunks
  <2>1. MaybeConsolidate(call, sz, k) = [call EXCEPT !.pc = "consolidate", !.fb = 0,
                                            !.chain = <<>>, !.after = "systrim", !.k = k]
    BY <1>2 DEF MaybeConsolidate
  <2> QED
    BY <2>1 DEF CallOK, CallFields, LockedPCs
<1>3. CASE ~(sz < ConsolidationThreshold) /\ ~have_fastchunks
  BY <1>3 DEF MaybeConsolidate, CallOK, CallFields, LockedPCs
<1> QED
  BY <1>1, <1>2, <1>3

(* Lemma: _int_free_chunk within a call that has the lock keeps it.        *)
LEMMA FreeLockedMoves ==
  ASSUME LockInv, NEW t \in Threads, lock \in {None, t}, lock' = t, NEW h, NEW p, NEW out,
         NEW call, DOMAIN call = CallFields, call.pc = "done", FreeLocked(t, h, p, out, call)
  PROVE  \E c : Moves(t, c)
<1>1. CASE h[p].sz <= MaxFast
  <2>1. op' = [op EXCEPT ![t] = call]
    BY <1>1 DEF FreeLocked
  <2> QED
    BY <2>1, PlainOK, Zenon DEF Moves, Plain, LockedPCs, UnlockedPCs
<1>2. CASE ~(h[p].sz <= MaxFast)
  <2> PICK c : c = MaybeConsolidate(call, Merge(h, top, p, TRUE).sz, call.pc)
    BY Zenon
  <2>1. op' = [op EXCEPT ![t] = c]
    BY <1>2, Zenon DEF FreeLocked
  <2>2. CallOK(c) /\ c.pc \in LockedPCs
    BY MaybeOK, Zenon
  <2> QED
    BY <2>1, <2>2, Zenon DEF Moves
<1> QED
  BY <1>1, <1>2

(* Lemma: so does the end of _int_realloc.                                 *)
LEMMA ReallocRestMoves ==
  ASSUME LockInv, NEW t \in Threads, lock \in {None, t}, lock' = t, NEW h, NEW p, NEW size,
         NEW nb, NEW out, ReallocRest(t, h, p, size, nb, out)
  PROVE  \E c : Moves(t, c)
<1> PICK call : call = [op[t] EXCEPT !.fn = "realloc", !.pc = "done", !.want = nb, !.p = None,
                                     !.old = 0, !.v = p, !.nb = 0]
  OBVIOUS
<1>1. DOMAIN call = CallFields /\ call.pc = "done"
  BY DEF LockInv, CallOK, CallFields
<1>2. CASE TooSmall(size - nb)
  <2>1. op' = [op EXCEPT ![t] = call]
    BY <1>2 DEF ReallocRest
  <2> QED
    BY <1>1, <2>1, PlainOK, Zenon DEF Moves, Plain, LockedPCs, UnlockedPCs
<1>3. CASE ~TooSmall(size - nb)
  <2> PICK g : g = CutAt(SetInuse([h EXCEPT ![p].sz = size], p), p, nb)
    OBVIOUS
  <2>1. FreeLocked(t, g, p + nb, out, call)
    BY <1>3 DEF ReallocRest
  <2> QED
    BY <1>1, <2>1, FreeLockedMoves, Zenon
<1> QED
  BY <1>2, <1>3

(* Lemma: a call that starts _int_malloc takes the lock when nobody has    *)
(* it.                                                                     *)
LEMMA EnterMoves ==
  ASSUME NEW t \in Threads, NEW call, DOMAIN call = CallFields, NEW nb, Enter(t, call, nb)
  PROVE  \E c : Moves(t, c)
<1> PICK c : c = [call EXCEPT !.pc = "int_malloc", !.nb = nb]
  OBVIOUS
<1>1. DOMAIN c = CallFields /\ c.pc = "int_malloc"
  BY DEF CallFields
<1>2. op' = [op EXCEPT ![t] = c] /\ lock = None /\ lock' = t
  BY DEF Enter
<1> QED
  BY <1>1, <1>2, PlainOK, Zenon DEF Moves, Plain, LockedPCs, UnlockedPCs

(* Lemma: the fields of a thread's call record, and its rest state.        *)
LEMMA IdleFields == DOMAIN Idle = CallFields /\ Idle.pc = "idle"
BY DEF Idle, CallFields

-----------------------------------------------------------------------------
(* Every step of a thread within a call, and every call, moves it.         *)
LEMMA SearchSteps ==
  ASSUME LockInv, NEW t \in Threads,
         \/ TakeFast(t) \/ TakeSmall(t) \/ StartSearch(t) \/ UnsortedDone(t) \/ SearchAgain(t)
  PROVE  \E c : Moves(t, c)
<1>1. DOMAIN op = Threads /\ DOMAIN op[t] = CallFields
  BY DEF LockInv, CallOK
<1>2. CASE TakeFast(t)
  <2> PICK c : c = [op[t] EXCEPT !.pc = "stash_fast", !.v = Head(fastbins[op[t].nb])]
    OBVIOUS
  <2>1. op' = [op EXCEPT ![t] = c] /\ lock = t /\ lock' = t
    BY <1>1, <1>2, Zenon DEF TakeFast, Holds
  <2>2. DOMAIN c = CallFields /\ c.pc = "stash_fast"
    BY <1>1 DEF CallFields
  <2> QED
    BY <2>1, <2>2, PlainOK, Zenon DEF Moves, Plain, LockedPCs, UnlockedPCs
<1>3. CASE TakeSmall(t)
  <2> PICK c : c = [op[t] EXCEPT !.pc = "stash_small", !.v = Last(bins[op[t].nb])]
    OBVIOUS
  <2>1. op' = [op EXCEPT ![t] = c] /\ lock = t /\ lock' = t
    BY <1>1, <1>3, Zenon DEF TakeSmall, Holds
  <2>2. DOMAIN c = CallFields /\ c.pc = "stash_small"
    BY <1>1 DEF CallFields
  <2> QED
    BY <2>1, <2>2, PlainOK, Zenon DEF Moves, Plain, LockedPCs, UnlockedPCs
<1>4. CASE StartSearch(t)
  <2> PICK s : s = Search(op[t])
    OBVIOUS
  <2> PICK c : c = IF ~InSmallbinRange(op[t].nb) /\ have_fastchunks
                   THEN [s EXCEPT !.pc = "consolidate", !.after = "unsorted"] ELSE s
    OBVIOUS
  <2>1. op' = [op EXCEPT ![t] = c] /\ lock = t /\ lock' = t
    BY <1>4 DEF StartSearch, Holds
  <2>2. DOMAIN s = CallFields /\ s.pc = "unsorted"
    BY <1>1 DEF Search, CallFields
  <2>3. CASE c = s
    BY <2>1, <2>2, <2>3, PlainOK, Zenon DEF Moves, Plain, LockedPCs, UnlockedPCs
  <2>4. CASE c = [s EXCEPT !.pc = "consolidate", !.after = "unsorted"]
    <3>1. DOMAIN c = CallFields /\ c.pc = "consolidate" /\ c.after = "unsorted"
      BY <2>2, <2>4, Zenon DEF CallFields
    <3> QED
      BY <2>1, <3>1, Zenon DEF Moves, CallOK, LockedPCs
  <2> QED
    BY <2>3, <2>4
<1>5. CASE UnsortedDone(t)
  <2> PICK c : c = [op[t] EXCEPT !.pc = "fit"]
    BY Zenon
  <2>1. op' = [op EXCEPT ![t] = c] /\ lock = t /\ lock' = t
    BY <1>1, <1>5 DEF UnsortedDone, Holds
  <2>2. DOMAIN c = CallFields /\ c.pc = "fit"
    BY <1>1 DEF CallFields
  <2> QED
    BY <2>1, <2>2, PlainOK, Zenon DEF Moves, Plain, LockedPCs, UnlockedPCs
<1>6. CASE SearchAgain(t)
  <2> PICK c : c = [op[t] EXCEPT !.pc = "consolidate", !.after = "unsorted", !.iters = 0]
    OBVIOUS
  <2>1. op' = [op EXCEPT ![t] = c] /\ lock = t /\ lock' = t
    BY <1>1, <1>6, Zenon DEF SearchAgain, NoBinFits, Holds
  <2>2. DOMAIN c = CallFields /\ c.pc = "consolidate" /\ c.after = "unsorted"
    BY <1>1 DEF CallFields
  <2> QED
    BY <2>1, <2>2, Zenon DEF Moves, CallOK, LockedPCs
<1> QED
  BY <1>2, <1>3, <1>4, <1>5, <1>6

(* Lemma: the steps that take a chunk from a list or from top.             *)
LEMMA TakeSteps ==
  ASSUME LockInv, NEW t \in Threads,
         \/ StashFast(t) \/ StashSmall(t) \/ SplitRemainder(t) \/ ExactFit(t) \/ SortVictim(t)
         \/ ReturnCached(t) \/ BestFit(t) \/ ScanBins(t) \/ UseTop(t) \/ SysMalloc(t)
  PROVE  (\E c : Moves(t, c)) \/ UNCHANGED <<op, lock>>
<1>1. DOMAIN op = Threads /\ DOMAIN op[t] = CallFields
  BY DEF LockInv, CallOK
<1>2. CASE StashFast(t)
  <2>1. lock = t /\ UNCHANGED lock /\ (Got(t, op[t].v) \/ UNCHANGED op)
    BY <1>2 DEF StashFast, Holds
  <2> QED
    BY <2>1, GotMoves
<1>3. CASE StashSmall(t)
  <2>1. lock = t /\ UNCHANGED lock /\ (Got(t, op[t].v) \/ UNCHANGED op)
    BY <1>3 DEF StashSmall, Holds
  <2> QED
    BY <2>1, GotMoves
<1>4. CASE SplitRemainder(t)
  <2>1. lock = t /\ UNCHANGED lock /\ Got(t, Last(unsorted))
    BY <1>4 DEF SplitRemainder, Unsorted, Holds
  <2> QED
    BY <2>1, GotMoves
<1>5. CASE ExactFit(t)
  <2>1. /\ lock = t /\ UNCHANGED lock /\ op[t].pc = "unsorted"
        /\ Got(t, Last(unsorted)) \/ op' = [op EXCEPT ![t].cached = TRUE]
    BY <1>5 DEF ExactFit, Unsorted, Holds
  <2>2. CASE Got(t, Last(unsorted))
    BY <2>1, <2>2, GotMoves
  <2>3. CASE op' = [op EXCEPT ![t].cached = TRUE]
    <3> PICK c : c = [op[t] EXCEPT !.cached = TRUE]
      BY Zenon
    <3>1. op' = [op EXCEPT ![t] = c]
      BY <1>1, <2>3
    <3>2. DOMAIN c = CallFields /\ c.pc = "unsorted"
      BY <1>1, <2>1 DEF CallFields
    <3> QED
      BY <2>1, <3>1, <3>2, PlainOK, Zenon DEF Moves, Plain, LockedPCs, UnlockedPCs
  <2> QED
    BY <2>1, <2>2, <2>3
<1>6. CASE SortVictim(t)
  <2> PICK r : r = [op[t] EXCEPT !.iters = @ + 1, !.sorted = @ + 1]
    OBVIOUS
  <2> PICK c : c = [r EXCEPT !.pc = IF r.iters >= MaxIters THEN "fit" ELSE @]
    OBVIOUS
  <2>1. /\ lock = t /\ UNCHANGED lock /\ op[t].pc = "unsorted"
        /\ Got(t, Head(tcache[t][op[t].nb])) \/ op' = [op EXCEPT ![t] = c]
    BY <1>6 DEF SortVictim, Unsorted, Holds
  <2>2. CASE Got(t, Head(tcache[t][op[t].nb]))
    BY <2>1, <2>2, GotMoves
  <2>3. CASE op' = [op EXCEPT ![t] = c]
    <3>1. DOMAIN r = CallFields /\ r.pc = "unsorted"
      BY <1>1, <2>1 DEF CallFields
    <3>2. DOMAIN c = CallFields /\ c.pc \in {"fit", "unsorted"}
      BY <3>1 DEF CallFields
    <3> QED
      BY <2>1, <2>3, <3>2, PlainOK, Zenon DEF Moves, Plain, LockedPCs, UnlockedPCs
  <2> QED
    BY <2>1, <2>2, <2>3
<1>7. CASE ReturnCached(t)
  <2>1. lock = t /\ UNCHANGED lock /\ Got(t, Head(tcache[t][op[t].nb]))
    BY <1>7 DEF ReturnCached, Holds
  <2> QED
    BY <2>1, GotMoves
<1>8. CASE BestFit(t)
  <2>1. lock = t /\ \E i, c : TakeFromBin(t, i, c, FALSE)
    BY <1>8, Zenon DEF BestFit, Holds
  <2>2. \E v : UNCHANGED lock /\ Got(t, v)
    BY <2>1 DEF TakeFromBin
  <2> QED
    BY <2>1, <2>2, GotMoves
<1>9. CASE ScanBins(t)
  <2>1. lock = t /\ \E i, c, b : TakeFromBin(t, i, c, b)
    BY <1>9 DEF ScanBins, Holds
  <2>2. \E v : UNCHANGED lock /\ Got(t, v)
    BY <2>1 DEF TakeFromBin
  <2> QED
    BY <2>1, <2>2, GotMoves
<1>10. CASE UseTop(t)
  <2>1. lock = t /\ UNCHANGED lock /\ Got(t, top)
    BY <1>10 DEF UseTop, NoBinFits, Holds
  <2> QED
    BY <2>1, GotMoves
<1>11. CASE SysMalloc(t)
  <2>1. lock = t /\ UNCHANGED lock /\ \E v : Got(t, v)
    BY <1>11 DEF SysMalloc, NoBinFits, Holds
  <2> QED
    BY <2>1, GotMoves
<1> QED
  BY <1>2, <1>3, <1>4, <1>5, <1>6, <1>7, <1>8, <1>9, <1>10, <1>11

(* Lemma: malloc_consolidate and systrim.                                  *)
LEMMA TidySteps ==
  ASSUME LockInv, NEW t \in Threads,
         \/ ConsolidateBegin(t) \/ ConsolidateDetach(t) \/ ConsolidateChunk(t)
         \/ ConsolidateEnd(t) \/ SysTrim(t)
  PROVE  \E c : Moves(t, c)
<1>1. DOMAIN op = Threads /\ DOMAIN op[t] = CallFields /\ CallOK(op[t])
  BY DEF LockInv, CallOK
<1>2. CASE ConsolidateBegin(t)
  <2> PICK c : c = [op[t] EXCEPT !.fb = MINSIZE]
    BY Zenon
  <2>1. op' = [op EXCEPT ![t] = c] /\ lock = t /\ lock' = t /\ op[t].pc = "consolidate"
    BY <1>1, <1>2 DEF ConsolidateBegin, Holds
  <2>2. /\ DOMAIN c = CallFields /\ c.pc = op[t].pc /\ c.after = op[t].after
        /\ c.k = op[t].k
    BY <1>1 DEF CallFields
  <2> QED
    BY <1>1, <2>1, <2>2, Zenon DEF Moves, CallOK, LockedPCs
<1>3. CASE ConsolidateDetach(t)
  <2> PICK c : c = [op[t] EXCEPT !.chain = fastbins[op[t].fb], !.fb = op[t].fb + 1]
    OBVIOUS
  <2>1. op' = [op EXCEPT ![t] = c] /\ lock = t /\ lock' = t /\ op[t].pc = "consolidate"
    BY <1>1, <1>3, Zenon DEF ConsolidateDetach, Holds
  <2>2. /\ DOMAIN c = CallFields /\ c.pc = op[t].pc /\ c.after = op[t].after
        /\ c.k = op[t].k
    BY <1>1 DEF CallFields
  <2> QED
    BY <1>1, <2>1, <2>2, Zenon DEF Moves, CallOK, LockedPCs
<1>4. CASE ConsolidateChunk(t)
  <2> PICK c : c = [op[t] EXCEPT !.chain = Tail(@)]
    BY Zenon
  <2>1. op' = [op EXCEPT ![t] = c] /\ lock = t /\ lock' = t /\ op[t].pc = "consolidate"
    BY <1>1, <1>4 DEF ConsolidateChunk, Holds
  <2>2. /\ DOMAIN c = CallFields /\ c.pc = op[t].pc /\ c.after = op[t].after
        /\ c.k = op[t].k
    BY <1>1 DEF CallFields
  <2> QED
    BY <1>1, <2>1, <2>2, Zenon DEF Moves, CallOK, LockedPCs
<1>5. CASE ConsolidateEnd(t)
  <2> PICK c : c = [op[t] EXCEPT !.pc = op[t].after, !.fb = 0, !.after = "idle"]
    OBVIOUS
  <2>1. op' = [op EXCEPT ![t] = c] /\ lock = t /\ lock' = t /\ op[t].pc = "consolidate"
    BY <1>1, <1>5, Zenon DEF ConsolidateEnd, Holds
  <2>2. DOMAIN c = CallFields /\ c.pc = op[t].after /\ c.k = op[t].k
    BY <1>1 DEF CallFields
  <2> QED
    BY <1>1, <2>1, <2>2, Zenon DEF Moves, CallOK, LockedPCs
<1>6. CASE SysTrim(t)
  <2> PICK c : c = [op[t] EXCEPT !.pc = op[t].k, !.k = "idle"]
    OBVIOUS
  <2>1. op' = [op EXCEPT ![t] = c] /\ lock = t /\ lock' = t /\ op[t].pc = "systrim"
    BY <1>1, <1>6, Zenon DEF SysTrim, Holds
  <2>2. DOMAIN c = CallFields /\ c.pc = op[t].k
    BY <1>1 DEF CallFields
  <2> QED
    BY <1>1, <2>1, <2>2, Zenon DEF Moves, CallOK, LockedPCs
<1> QED
  BY <1>2, <1>3, <1>4, <1>5, <1>6

(* Lemma: free, and the end of every call.                                 *)
LEMMA FreeSteps ==
  ASSUME LockInv, NEW t \in Threads,
         \/ FreeFlag(t) \/ FreePush(t) \/ FreeMerge(t) \/ Done(t) \/ MallocGot(t)
  PROVE  \E c : Moves(t, c)
<1>1. /\ DOMAIN op = Threads /\ DOMAIN op[t] = CallFields /\ CallOK(op[t])
      /\ op[t].pc \in LockedPCs <=> lock = t
  BY DEF LockInv, LockHeld, CallOK
<1>2. CASE FreeFlag(t)
  <2> PICK c : c = [op[t] EXCEPT !.pc = "push"]
    BY Zenon
  <2>1. op' = [op EXCEPT ![t] = c] /\ lock # t /\ lock' = lock
    BY <1>1, <1>2 DEF FreeFlag, LockedPCs
  <2>2. DOMAIN c = CallFields /\ c.pc = "push"
    BY <1>1 DEF CallFields
  <2> QED
    BY <2>1, <2>2, PlainOK, Zenon DEF Moves, Plain, LockedPCs, UnlockedPCs
<1>3. CASE FreePush(t)
  <2>1. op' = [op EXCEPT ![t] = Idle] /\ lock # t /\ lock' = lock
    BY <1>1, <1>3 DEF FreePush, Finish, LockedPCs
  <2> QED
    BY <2>1, IdleFields, PlainOK, Zenon DEF Moves, Plain, LockedPCs, UnlockedPCs
<1>4. CASE FreeMerge(t)
  <2> PICK r : r = MaybeConsolidate(op[t], Merge(hdr, top, op[t].p, TRUE).sz, "done")
    BY Zenon
  <2> PICK c : c = [r EXCEPT !.p = None]
    BY Zenon
  <2>1. op' = [op EXCEPT ![t] = c] /\ lock = None /\ lock' = t
    BY <1>4 DEF FreeMerge
  <2>2. CallOK(r) /\ r.pc \in LockedPCs
    BY <1>1, MaybeOK, Zenon
  <2>3. DOMAIN c = CallFields /\ c.pc = r.pc /\ c.after = r.after /\ c.k = r.k
    BY <2>2, Zenon DEF CallOK, CallFields
  <2> QED
    BY <2>1, <2>2, <2>3, Zenon DEF Moves, CallOK
<1>5. CASE Done(t)
  <2>1. op' = [op EXCEPT ![t] = Idle] /\ lock = t /\ lock' = None
    BY <1>5 DEF Done, Finish, Holds
  <2> QED
    BY <2>1, IdleFields, PlainOK, Zenon DEF Moves, Plain, LockedPCs, UnlockedPCs
<1>6. CASE MallocGot(t)
  <2> PICK c : c = [op[t] EXCEPT !.pc = "done"]
    BY Zenon
  <2>1. op' = [op EXCEPT ![t] = c] /\ lock = t /\ lock' = t
    BY <1>1, <1>6 DEF MallocGot, Holds
  <2>2. DOMAIN c = CallFields /\ c.pc = "done"
    BY <1>1 DEF CallFields
  <2> QED
    BY <2>1, <2>2, PlainOK, Zenon DEF Moves, Plain, LockedPCs, UnlockedPCs
<1> QED
  BY <1>2, <1>3, <1>4, <1>5, <1>6

(* Lemma: realloc and its retry.                                           *)
LEMMA ReallocSteps ==
  ASSUME LockInv, NEW t \in Threads, ReallocGot(t) \/ ReallocRetry(t) \/ RetryGot(t)
  PROVE  \E c : Moves(t, c)
<1>1. /\ DOMAIN op = Threads /\ DOMAIN op[t] = CallFields /\ CallOK(op[t])
      /\ op[t].pc \in LockedPCs <=> lock = t
  BY DEF LockInv, LockHeld, CallOK
<1>2. CASE ReallocGot(t)
  <2> PICK moved : moved = [op[t] EXCEPT !.pc = "done", !.p = None, !.old = 0, !.nb = 0]
    OBVIOUS
  <2>1. DOMAIN moved = CallFields /\ moved.pc = "done"
    BY <1>1 DEF CallFields
  <2>2. /\ lock = t
        /\ \/ UNCHANGED lock /\ \E h, p, s, nb : ReallocRest(t, h, p, s, nb, None)
           \/ UNCHANGED lock /\ FreeLocked(t, hdr, op[t].p, None, moved)
           \/ lock' = None /\ op' = [op EXCEPT ![t].pc = "retry"]
    BY <1>2 DEF ReallocGot, Holds
  <2>3. CASE UNCHANGED lock /\ \E h, p, s, nb : ReallocRest(t, h, p, s, nb, None)
    BY <2>2, <2>3, ReallocRestMoves
  <2>4. CASE UNCHANGED lock /\ FreeLocked(t, hdr, op[t].p, None, moved)
    BY <2>1, <2>2, <2>4, FreeLockedMoves, Zenon
  <2>5. CASE lock' = None /\ op' = [op EXCEPT ![t].pc = "retry"]
    <3> PICK c : c = [op[t] EXCEPT !.pc = "retry"]
      BY Zenon
    <3>1. op' = [op EXCEPT ![t] = c]
      BY <1>1, <2>5
    <3>2. DOMAIN c = CallFields /\ c.pc = "retry"
      BY <1>1 DEF CallFields
    <3> QED
      BY <2>2, <2>5, <3>1, <3>2, PlainOK, Zenon DEF Moves, Plain, LockedPCs, UnlockedPCs
  <2> QED
    BY <2>2, <2>3, <2>4, <2>5
<1>3. CASE ReallocRetry(t)
  <2> PICK c : c = [op[t] EXCEPT !.pc = "free_chunk", !.v = Head(tcache[t][op[t].want])]
    OBVIOUS
  <2> PICK r : r = [op[t] EXCEPT !.fn = "retry"]
    BY Zenon
  <2>1. DOMAIN c = CallFields /\ c.pc = "free_chunk" /\ DOMAIN r = CallFields
    BY <1>1 DEF CallFields
  <2>2. lock # t
    BY <1>1, <1>3 DEF ReallocRetry, LockedPCs
  <2>3. \/ op' = [op EXCEPT ![t] = c] /\ UNCHANGED lock
        \/ Enter(t, r, op[t].want)
    BY <1>1, <1>3, Zenon DEF ReallocRetry
  <2>4. CASE op' = [op EXCEPT ![t] = c] /\ UNCHANGED lock
    BY <2>1, <2>2, <2>4, PlainOK, Zenon DEF Moves, Plain, LockedPCs, UnlockedPCs
  <2>5. CASE Enter(t, r, op[t].want)
    BY <2>1, <2>5, EnterMoves
  <2> QED
    BY <2>3, <2>4, <2>5
<1>4. CASE RetryGot(t)
  <2> PICK c : c = [op[t] EXCEPT !.pc = "done", !.v = op[t].p, !.want = op[t].old, !.p = None]
    OBVIOUS
  <2> PICK r : r = [op[t] EXCEPT !.pc = "free_chunk"]
    BY Zenon
  <2>1. DOMAIN c = CallFields /\ c.pc = "done" /\ DOMAIN r = CallFields /\ r.pc = "free_chunk"
    BY <1>1 DEF CallFields
  <2>2. /\ lock = t
        /\ \/ op' = [op EXCEPT ![t] = c] /\ lock' = lock
           \/ op' = [op EXCEPT ![t] = r] /\ lock' = None
    BY <1>1, <1>4, Zenon DEF RetryGot, Holds
  <2> QED
    BY <2>1, <2>2, PlainOK, Zenon DEF Moves, Plain, LockedPCs, UnlockedPCs
<1> QED
  BY <1>2, <1>3, <1>4

(* Lemma: memalign after its _int_malloc.                                  *)
LEMMA MemalignSteps ==
  ASSUME LockInv, NEW t \in Threads, MemalignGot(t) \/ MemalignTail(t)
  PROVE  \E c : Moves(t, c)
<1>1. DOMAIN op = Threads /\ DOMAIN op[t] = CallFields
  BY DEF LockInv, CallOK
<1> PICK d : d = [op[t] EXCEPT !.pc = "done"]
  BY Zenon
<1> PICK a : a = [op[t] EXCEPT !.pc = "aligned"]
  BY Zenon
<1>2. /\ DOMAIN d = CallFields /\ d.pc = "done" /\ DOMAIN a = CallFields /\ a.pc = "aligned"
      /\ \A new : DOMAIN [op[t] EXCEPT !.v = new] = CallFields
  BY <1>1 DEF CallFields
<1>3. lock = t /\ lock' = t
  BY Zenon DEF MemalignGot, MemalignTail, Holds
<1>4. CASE op' = [op EXCEPT ![t] = d] \/ op' = [op EXCEPT ![t] = a]
  BY <1>2, <1>3, <1>4, PlainOK, Zenon DEF Moves, Plain, LockedPCs, UnlockedPCs
<1>5. ASSUME NEW call, NEW sz, NEW k, DOMAIN call = CallFields, k \in {"aligned", "done"},
             op' = [op EXCEPT ![t] = MaybeConsolidate(call, sz, k)]
      PROVE  \E c : Moves(t, c)
  <2> PICK c : c = MaybeConsolidate(call, sz, k)
    OBVIOUS
  <2>1. CallOK(c) /\ c.pc \in LockedPCs
    BY <1>5, MaybeOK
  <2> QED
    BY <1>3, <1>5, <2>1, Zenon DEF Moves
<1>6. CASE MemalignGot(t)
  <2>1. \/ op' = [op EXCEPT ![t].pc = "done"] \/ op' = [op EXCEPT ![t].pc = "aligned"]
        \/ \E new, sz : op' = [op EXCEPT ![t] =
                                 MaybeConsolidate([@ EXCEPT !.v = new], sz, "aligned")]
    BY <1>6, Zenon DEF MemalignGot
  <2>2. CASE op' = [op EXCEPT ![t].pc = "done"] \/ op' = [op EXCEPT ![t].pc = "aligned"]
    BY <1>1, <1>4, <2>2
  <2>3. ASSUME NEW new, NEW sz,
               op' = [op EXCEPT ![t] = MaybeConsolidate([@ EXCEPT !.v = new], sz, "aligned")]
        PROVE  \E c : Moves(t, c)
    <3> PICK call : call = [op[t] EXCEPT !.v = new]
      BY Zenon
    <3>1. op' = [op EXCEPT ![t] = MaybeConsolidate(call, sz, "aligned")]
      BY <1>1, <2>3
    <3>2. DOMAIN call = CallFields
      BY <1>2
    <3> QED
      BY <1>5, <3>1, <3>2, Zenon
  <2> QED
    BY <2>1, <2>2, <2>3, Zenon
<1>7. CASE MemalignTail(t)
  <2>1. \/ op' = [op EXCEPT ![t].pc = "done"]
        \/ \E sz : op' = [op EXCEPT ![t] = MaybeConsolidate(@, sz, "done")]
    BY <1>7, Zenon DEF MemalignTail
  <2>2. CASE op' = [op EXCEPT ![t].pc = "done"]
    BY <1>1, <1>4, <2>2
  <2>3. ASSUME NEW sz, op' = [op EXCEPT ![t] = MaybeConsolidate(@, sz, "done")]
        PROVE  \E c : Moves(t, c)
    <3>1. op' = [op EXCEPT ![t] = MaybeConsolidate(op[t], sz, "done")]
      BY <1>1, <2>3
    <3> QED
      BY <1>1, <1>5, <3>1, Zenon
  <2> QED
    BY <2>1, <2>2, <2>3
<1> QED
  BY <1>6, <1>7

(* Lemma: the calls.                                                       *)
LEMMA CallSteps ==
  ASSUME LockInv, NEW t \in Threads, Call(t)
  PROVE  (\E c : Moves(t, c)) \/ UNCHANGED <<op, lock>>
<1>1. /\ DOMAIN op = Threads
      /\ op[t].pc \in LockedPCs <=> lock = t
  BY DEF LockInv, LockHeld, CallOK
<1>2. ASSUME NEW nb, Malloc(t, nb) PROVE (\E c : Moves(t, c)) \/ UNCHANGED <<op, lock>>
  <2> PICK call : call = [Idle EXCEPT !.fn = "malloc", !.want = nb]
    OBVIOUS
  <2>1. DOMAIN call = CallFields
    BY IdleFields
  <2>2. UNCHANGED <<op, lock>> \/ Enter(t, call, nb)
    BY <1>2 DEF Malloc
  <2> QED
    BY <2>1, <2>2, EnterMoves, Zenon
<1>3. ASSUME NEW p, Free(t, p) PROVE (\E c : Moves(t, c)) \/ UNCHANGED <<op, lock>>
  <2> PICK call : call = [Idle EXCEPT !.fn = "free", !.pc = "free_chunk", !.p = p]
    OBVIOUS
  <2>1. DOMAIN call = CallFields /\ call.pc = "free_chunk"
    BY DEF Idle, CallFields
  <2>2. lock # t /\ (UNCHANGED <<op, lock>> \/ (op' = [op EXCEPT ![t] = call] /\ UNCHANGED lock))
    BY <1>1, <1>3 DEF Free, LockedPCs
  <2> QED
    BY <2>1, <2>2, PlainOK, Zenon DEF Moves, Plain, LockedPCs, UnlockedPCs
<1>4. ASSUME NEW p, NEW nb, Realloc(t, p, nb)
      PROVE  (\E c : Moves(t, c)) \/ UNCHANGED <<op, lock>>
  <2> PICK g : g = [Idle EXCEPT !.fn = "realloc", !.pc = "done", !.want = nb, !.v = p]
    OBVIOUS
  <2> PICK m : m = [Idle EXCEPT !.fn = "realloc", !.pc = "int_malloc", !.want = nb, !.nb = nb,
                                !.p = p, !.old = live[p]]
    OBVIOUS
  <2>1. /\ DOMAIN g = CallFields /\ g.pc = "done"
        /\ DOMAIN m = CallFields /\ m.pc = "int_malloc"
    BY DEF Idle, CallFields
  <2>2. \/ UNCHANGED <<op, lock>>
        \/ /\ lock = None /\ lock' = t
           /\ \/ \E h, s, out : ReallocRest(t, h, p, s, nb, out)
              \/ op' = [op EXCEPT ![t] = g] \/ op' = [op EXCEPT ![t] = m]
    BY <1>4 DEF Realloc
  <2>3. CASE lock = None /\ lock' = t /\ \E h, s, out : ReallocRest(t, h, p, s, nb, out)
    BY <2>3, ReallocRestMoves
  <2>4. CASE /\ lock = None /\ lock' = t
             /\ op' = [op EXCEPT ![t] = g] \/ op' = [op EXCEPT ![t] = m]
    BY <2>1, <2>4, PlainOK, Zenon DEF Moves, Plain, LockedPCs, UnlockedPCs
  <2> QED
    BY <2>2, <2>3, <2>4
<1>5. ASSUME NEW al, NEW nb, Memalign(t, al, nb)
      PROVE  (\E c : Moves(t, c)) \/ UNCHANGED <<op, lock>>
  <2> PICK call : call = [Idle EXCEPT !.fn = "memalign", !.want = nb, !.al = al]
    OBVIOUS
  <2>1. DOMAIN call = CallFields
    BY IdleFields
  <2>2. UNCHANGED <<op, lock>> \/ Enter(t, call, Padded(nb, al))
    BY <1>5 DEF Memalign
  <2> QED
    BY <2>1, <2>2, EnterMoves, Zenon
<1>6. ASSUME NEW pad, MallocTrim(t, pad)
      PROVE  (\E c : Moves(t, c)) \/ UNCHANGED <<op, lock>>
  <2> PICK call : call = [Idle EXCEPT !.fn = "trim", !.pc = "consolidate", !.pad = pad,
                                      !.after = "systrim", !.k = "done"]
    OBVIOUS
  <2>1. /\ DOMAIN call = CallFields /\ call.pc = "consolidate" /\ call.after = "systrim"
        /\ call.k = "done"
    BY DEF Idle, CallFields
  <2>2. op' = [op EXCEPT ![t] = call] /\ lock = None /\ lock' = t
    BY <1>6 DEF MallocTrim
  <2> QED
    BY <2>1, <2>2, Zenon DEF Moves, CallOK, LockedPCs
<1> QED
  BY <1>2, <1>3, <1>4, <1>5, <1>6 DEF Call

(* Lemma: no call is under way at first.                                   *)
LEMMA LockInit == Init => LockInv
<1> SUFFICES ASSUME Init PROVE LockInv
  OBVIOUS
<1>1. lock = None /\ DOMAIN op = Threads /\ \A t \in Threads : op[t] = Idle
  BY DEF Init
<1>2. \A t \in Threads : CallOK(op[t]) /\ op[t].pc \notin LockedPCs
  BY <1>1, IdleFields DEF CallOK, LockedPCs, UnlockedPCs
<1> QED
  BY <1>1, <1>2, ArenaAssumption DEF LockInv, LockHeld

(* Lemma: every step of a call moves the lock as the thread needs it.      *)
LEMMA StepMoves ==
  ASSUME LockInv, NEW t \in Threads, Step(t) \/ Call(t)
  PROVE  (\E c : Moves(t, c)) \/ UNCHANGED <<op, lock>>
BY SearchSteps, TakeSteps, TidySteps, FreeSteps, ReallocSteps, MemalignSteps, CallSteps DEF Step

(* Lemma: so every step keeps the invariant.                               *)
LEMMA LockNext == LockInv /\ [Next]_vars => LockInv'
<1> SUFFICES ASSUME LockInv, [Next]_vars PROVE LockInv'
  OBVIOUS
<1>1. CASE UNCHANGED vars
  BY <1>1, StaysInv DEF vars
<1>2. ASSUME NEW t \in Threads, Step(t) \/ Call(t) PROVE LockInv'
  BY <1>2, StepMoves, MovesInv, StaysInv
<1> QED
  BY <1>1, <1>2 DEF Next

(* Theorem: the mutex protects what it should, for any number of threads   *)
(* and any sizes: a thread is at a step that needs the arena's lock exactly*)
(* when it holds it.                                                       *)
THEOREM ArenaLockHeld == Spec => []LockHeld
<1>1. LockInv => LockHeld
  BY DEF LockInv
<1> QED
  BY LockInit, LockNext, <1>1, PTL DEF Spec

-----------------------------------------------------------------------------
(* The binmap.  A bin gets its mark with its chunk and loses it only when  *)
(* the scan finds it empty; taking a chunk out leaves the mark.            *)
BinmapInv == DOMAIN bins = BinIndices /\ BinmapCovers

(* Lemma: nothing can be unlinked from an empty list.                      *)
LEMMA UnlinkEmpty == \A c : Unlink(<<>>, c) = <<>>
<1> TAKE c
<1>1. ~\E i \in 1 .. Len(<<>>) : <<>>[i] = c
  OBVIOUS
<1> QED
  BY <1>1 DEF Unlink, RemoveFirst

(* Lemma: merging neighbours puts nothing into an empty list.              *)
LEMMA MergedEmpty == \A m : Merged(<<>>, m) = <<>>
BY UnlinkEmpty DEF Merged

(* Lemma: a step that leaves the binmap and puts nothing into an empty     *)
(* bin.                                                                    *)
LEMMA TakenInv ==
  ASSUME BinmapInv, UNCHANGED binmap, DOMAIN bins' = BinIndices,
         \A i \in BinIndices : bins[i] = <<>> => bins'[i] = <<>>
  PROVE  BinmapInv'
BY DEF BinmapInv, BinmapCovers, BinIndices

(* Lemma: a freed or merged small chunk marks its bin.                     *)
LEMMA FreeMergedBins ==
  ASSUME BinmapInv, NEW h, NEW m, NEW out, FreeMerged(h, m, out)
  PROVE  BinmapInv'
<1> PICK b : b = [i \in BinIndices |-> Merged(Unlink(bins[i], out), m)]
  BY Zenon
<1> PICK n : n = BinIndex(m.sz)
  OBVIOUS
<1>1. DOMAIN b = BinIndices /\ \A i \in BinIndices : bins[i] = <<>> => b[i] = <<>>
  BY UnlinkEmpty, MergedEmpty
<1>2. \/ bins' = [b EXCEPT ![n] = <<m.q>> \o @] /\ binmap' = binmap \cup {n}
      \/ bins' = b /\ binmap' = binmap
  BY DEF FreeMerged
<1>3. CASE bins' = [b EXCEPT ![n] = <<m.q>> \o @] /\ binmap' = binmap \cup {n}
  <2>1. DOMAIN bins' = BinIndices /\ \A i \in BinIndices \ {n} : bins'[i] = b[i]
    BY <1>1, <1>3
  <2> QED
    BY <1>1, <1>3, <2>1 DEF BinmapInv, BinmapCovers, BinIndices
<1>4. CASE bins' = b /\ binmap' = binmap
  BY <1>1, <1>4, TakenInv
<1> QED
  BY <1>2, <1>3, <1>4

(* Lemma: unlinking a chunk from its bin leaves no bin unmarked.           *)
LEMMA UnlinkedBins ==
  ASSUME BinmapInv, NEW out, bins' = [i \in BinIndices |-> Unlink(bins[i], out)],
         UNCHANGED binmap
  PROVE  BinmapInv'
<1>1. DOMAIN bins' = BinIndices /\ \A i \in BinIndices : bins[i] = <<>> => bins'[i] = <<>>
  BY UnlinkEmpty
<1> QED
  BY <1>1, TakenInv

(* Lemma: nor does _int_free_chunk, to a fastbin or merged.                *)
LEMMA FreeLockedBins ==
  ASSUME BinmapInv, NEW t, NEW h, NEW p, NEW out, NEW call, FreeLocked(t, h, p, out, call)
  PROVE  BinmapInv'
BY UnlinkedBins, FreeMergedBins, Zenon DEF FreeLocked

(* Lemma: nor does the end of _int_realloc.                                *)
LEMMA ReallocRestBins ==
  ASSUME BinmapInv, NEW t, NEW h, NEW p, NEW size, NEW nb, NEW out,
         ReallocRest(t, h, p, size, nb, out)
  PROVE  BinmapInv'
BY UnlinkedBins, FreeLockedBins DEF ReallocRest

(* Lemma: nor does a step that leaves bins and binmap alone.               *)
LEMMA SameBins == BinmapInv /\ UNCHANGED <<bins, binmap>> => BinmapInv'
BY DEF BinmapInv, BinmapCovers, BinIndices

(* Lemma: a chunk leaves the bin it was found in.                          *)
LEMMA FoundBins ==
  ASSUME BinmapInv, NEW i, NEW s, bins' = [bins EXCEPT ![i] = s],
         i \in BinIndices => bins[i] # <<>>
  PROVE  /\ DOMAIN bins' = BinIndices
         /\ \A j \in BinIndices : bins[j] = <<>> => bins'[j] = <<>>
BY DEF BinmapInv

(* Lemma: the scan unmarks empty bins only.                                *)
LEMMA ScannedBins ==
  ASSUME BinmapInv, NEW nb, binmap' = Scanned(nb), DOMAIN bins' = BinIndices,
         \A j \in BinIndices : bins[j] = <<>> => bins'[j] = <<>>
  PROVE  BinmapInv'
BY DEF BinmapInv, BinmapCovers, BinIndices, Scanned

(* Lemma: the steps of _int_malloc that take from a bin, or sort a chunk   *)
(* into one and mark it, keep every filled bin marked.                     *)
LEMMA BinTakeSteps ==
  ASSUME BinmapInv, NEW t \in Threads,
         \/ TakeSmall(t) \/ StashSmall(t) \/ SortVictim(t) \/ BestFit(t) \/ ScanBins(t)
  PROVE  BinmapInv'
<1> PICK nb : nb = op[t].nb
  OBVIOUS
<1>1. CASE TakeSmall(t)
  <2>1. bins[nb] # <<>> /\ bins' = [bins EXCEPT ![nb] = Front(@)] /\ UNCHANGED binmap
    BY <1>1 DEF TakeSmall, HasSmall
  <2> PICK s : s = Front(bins[nb])
    OBVIOUS
  <2>2. bins' = [bins EXCEPT ![nb] = s]
    BY <2>1
  <2> QED
    BY <2>1, <2>2, FoundBins, TakenInv, Zenon
<1>2. CASE StashSmall(t)
  <2> PICK s : s = Front(bins[nb])
    OBVIOUS
  <2>1. \/ UNCHANGED <<bins, binmap>>
        \/ bins[nb] # <<>> /\ bins' = [bins EXCEPT ![nb] = s] /\ UNCHANGED binmap
    BY <1>2 DEF StashSmall
  <2>2. CASE bins[nb] # <<>> /\ bins' = [bins EXCEPT ![nb] = s] /\ UNCHANGED binmap
    BY <2>2, FoundBins, TakenInv, Zenon
  <2> QED
    BY <2>1, <2>2, SameBins
<1>3. CASE SortVictim(t)
  <2> PICK i : i = BinIndex(hdr[Last(unsorted)].sz)
    OBVIOUS
  <2> PICK s : s = Placed(bins[i], Last(unsorted))
    OBVIOUS
  <2>1. bins' = [bins EXCEPT ![i] = s] /\ binmap' = binmap \cup {i}
    BY <1>3 DEF SortVictim
  <2> QED
    BY <2>1 DEF BinmapInv, BinmapCovers, BinIndices
<1>4. CASE BestFit(t)
  <2> PICK i : i = BinIndex(nb)
    OBVIOUS
  <2>1. bins[i] # <<>> /\ UNCHANGED binmap /\ \E c : TakeFromBin(t, i, c, FALSE)
    BY <1>4, Zenon DEF BestFit, OwnBinFits
  <2>2. \E s : bins' = [bins EXCEPT ![i] = s]
    BY <2>1, Zenon DEF TakeFromBin
  <2> QED
    BY <2>1, <2>2, FoundBins, TakenInv, Zenon
<1>5. CASE ScanBins(t)
  <2>1. binmap' = Scanned(nb) /\ \E i, c, r : TakeFromBin(t, i, c, r)
    BY <1>5 DEF ScanBins
  <2>2. \E i, c : bins' = [bins EXCEPT ![i] = Unlink(@, c)]
    BY <2>1, Zenon DEF TakeFromBin
  <2>3. /\ DOMAIN bins' = BinIndices
        /\ \A j \in BinIndices : bins[j] = <<>> => bins'[j] = <<>>
    BY <2>2, UnlinkEmpty DEF BinmapInv
  <2> QED
    BY <2>1, <2>3, ScannedBins
<1> QED
  BY <1>1, <1>2, <1>3, <1>4, <1>5

(* Lemma: the steps that put chunks back, and those that leave the bins.   *)
LEMMA BinGiveSteps ==
  ASSUME BinmapInv, NEW t \in Threads,
         \/ ConsolidateChunk(t) \/ FreeMerge(t) \/ ReallocGot(t) \/ MemalignGot(t)
         \/ MemalignTail(t) \/ UseTop(t) \/ SearchAgain(t) \/ SysMalloc(t)
  PROVE  BinmapInv'
<1>1. CASE ConsolidateChunk(t)
  <2>1. UNCHANGED binmap /\ \E m : bins' = [i \in BinIndices |-> Merged(bins[i], m)]
    BY <1>1, Zenon DEF ConsolidateChunk
  <2>2. DOMAIN bins' = BinIndices /\ \A i \in BinIndices : bins[i] = <<>> => bins'[i] = <<>>
    BY <2>1, MergedEmpty
  <2> QED
    BY <2>1, <2>2, TakenInv
<1>2. CASE FreeMerge(t)
  <2>1. \E m : FreeMerged(hdr, m, None)
    BY <1>2, Zenon DEF FreeMerge
  <2> QED
    BY <2>1, FreeMergedBins
<1>3. CASE ReallocGot(t)
  <2>1. \/ \E h, p, s, nb : ReallocRest(t, h, p, s, nb, None)
        \/ \E call : FreeLocked(t, hdr, op[t].p, None, call)
        \/ UNCHANGED <<bins, binmap>>
    BY <1>3 DEF ReallocGot, binVars
  <2> QED
    BY <2>1, ReallocRestBins, FreeLockedBins, SameBins
<1>4. CASE MemalignGot(t) \/ MemalignTail(t)
  <2>1. \/ \E h, m : FreeMerged(h, m, None)
        \/ UNCHANGED <<bins, binmap>>
    BY <1>4, Zenon DEF MemalignGot, MemalignTail, binVars
  <2> QED
    BY <2>1, FreeMergedBins, SameBins
<1>5. CASE UseTop(t) \/ SearchAgain(t) \/ SysMalloc(t)
  <2>1. UNCHANGED bins /\ \E nb : binmap' = Scanned(nb)
    BY <1>5 DEF UseTop, SearchAgain, SysMalloc
  <2>2. DOMAIN bins' = BinIndices /\ \A i \in BinIndices : bins[i] = <<>> => bins'[i] = <<>>
    BY <2>1 DEF BinmapInv
  <2> QED
    BY <2>1, <2>2, ScannedBins
<1> QED
  BY <1>1, <1>2, <1>3, <1>4, <1>5

(* Lemma: the steps that touch neither bins nor binmap.                    *)
LEMMA OtherSteps ==
  ASSUME NEW t \in Threads,
         \/ TakeFast(t) \/ StashFast(t) \/ StartSearch(t) \/ SplitRemainder(t) \/ ExactFit(t)
         \/ UnsortedDone(t) \/ ReturnCached(t) \/ ConsolidateBegin(t) \/ ConsolidateDetach(t)
         \/ ConsolidateEnd(t) \/ SysTrim(t) \/ FreeFlag(t) \/ FreePush(t) \/ Done(t)
         \/ MallocGot(t) \/ ReallocRetry(t) \/ RetryGot(t)
  PROVE  UNCHANGED <<bins, binmap>>
BY Zenon
  DEF TakeFast, StashFast, StartSearch, SplitRemainder, ExactFit, UnsortedDone, ReturnCached,
       ConsolidateBegin, ConsolidateDetach, ConsolidateEnd, SysTrim, FreeFlag, FreePush,
         Done,
       MallocGot, ReallocRetry, RetryGot, binVars

(* Lemma: a new call changes the bins only through realloc in place.       *)
LEMMA CallBins ==
  ASSUME BinmapInv, NEW t \in Threads, Call(t)
  PROVE  BinmapInv'
<1>1. \/ UNCHANGED <<bins, binmap>>
      \/ \E h, p, s, nb, out : ReallocRest(t, h, p, s, nb, out)
  BY ZenonT(40) DEF Call, Malloc, Free, Realloc, Memalign, MallocTrim, binVars
<1> QED
  BY <1>1, ReallocRestBins, SameBins

(* Lemma: every bin is empty at first.                                     *)
LEMMA BinmapInit == Init => BinmapInv
BY DEF Init, BinmapInv, BinmapCovers, BinIndices

(* Lemma: every step keeps the marks of the bins that have chunks.         *)
LEMMA BinmapNext == BinmapInv /\ [Next]_vars => BinmapInv'
<1> SUFFICES ASSUME BinmapInv, [Next]_vars PROVE BinmapInv'
  OBVIOUS
<1>1. CASE UNCHANGED vars
  BY <1>1, SameBins DEF vars, binVars
<1>2. ASSUME NEW t \in Threads, Step(t) PROVE BinmapInv'
  BY <1>2, BinTakeSteps, BinGiveSteps, OtherSteps, SameBins DEF Step
<1>3. ASSUME NEW t \in Threads, Call(t) PROVE BinmapInv'
  BY <1>3, CallBins
<1> QED
  BY <1>1, <1>2, <1>3 DEF Next

(* Theorem: the scan of the binmap misses no chunk, for any bins, sizes    *)
(* and threads.                                                            *)
THEOREM ArenaBinmapCovers == Spec => []BinmapCovers
<1>1. BinmapInv => BinmapCovers
  BY DEF BinmapInv
<1> QED
  BY BinmapInit, BinmapNext, <1>1, PTL DEF Spec

-----------------------------------------------------------------------------
(* The per-thread caches.  Chunks come in at four places and go out at     *)
(* five; two of the five, the returns of cached chunks in _int_malloc, do  *)
(* not look whether there is one: the flag that the loop sets promises it. *)
(* The promise is what has to be known beside the bound, since a list that *)
(* is popped empty has no defined length.                                  *)
Searching(c) ==
  c.pc \in {"unsorted", "fit"} \/ (c.pc = "consolidate" /\ c.after = "unsorted")
Owing(c) == c.cached /\ Searching(c)

IsList(s) == \E S : s \in Seq(S)

CacheInv ==
  /\ DOMAIN tcache = Threads
  /\ \A t \in Threads :
       /\ DOMAIN tcache[t] = TcacheSizes
       /\ \A s \in TcacheSizes : IsList(tcache[t][s]) /\ Len(tcache[t][s]) <= TcacheCount
       /\ Owing(op[t]) => op[t].nb \in TcacheSizes /\ tcache[t][op[t].nb] # <<>>

(* Lemma: a set of numbers has a least one.                                *)
LEMMA LeastNumber ==
  ASSUME NEW T, T \subseteq Nat, T # {}
  PROVE  \E m \in T : \A k \in T : m <= k
<1> DEFINE D == {0 .. k : k \in T}
<1>1. D \subseteq FiniteSubsetsOf(Nat) /\ D # {}
  <2>1. ASSUME NEW k \in T PROVE 0 .. k \in SUBSET Nat /\ IsFiniteSet(0 .. k)
    <3>1. k \in Int /\ 0 \in Int /\ 0 .. k \in SUBSET Nat OBVIOUS
    <3> QED BY <3>1, FS_Interval
  <2> QED BY <2>1, Zenon DEF FiniteSubsetsOf
<1>2. IsWellFoundedOn(StrictSubsetOrdering(Nat), FiniteSubsetsOf(Nat))
  BY FS_StrictSubsetOrderingWellFounded
<1>3. \E d \in D : \A e \in D : ~(<<e, d>> \in StrictSubsetOrdering(Nat))
  <2> HIDE DEF D
  <2> QED BY <1>1, <1>2, WFMin
<1>4. PICK m \in T : \A e \in D : ~(<<e, 0 .. m>> \in StrictSubsetOrdering(Nat)) BY <1>3
<1>5. ASSUME NEW k \in T, k < m PROVE FALSE
  <2>1. k \in Nat /\ m \in Nat OBVIOUS
  <2>2. 0 .. k \subseteq 0 .. m /\ m \in 0 .. m /\ m \notin 0 .. k BY <1>5, <2>1
  <2>3. <<0 .. k, 0 .. m>> \in (SUBSET Nat) \X (SUBSET Nat) BY <2>1
  <2> QED BY <1>4, <2>2, <2>3, ZenonT(40) DEF StrictSubsetOrdering
<1> QED BY <1>5

(* Lemma: a chunk put in front of a list.                                  *)
LEMMA ListPush ==
  ASSUME NEW s, IsList(s), NEW c
  PROVE  /\ IsList(<<c>> \o s) /\ <<c>> \o s # <<>>
         /\ Len(s) \in Nat /\ Len(<<c>> \o s) = Len(s) + 1
<1> PICK S : s \in Seq(S)
  BY DEF IsList
<1>1. s \in Seq(S \cup {c}) /\ <<c>> \in Seq(S \cup {c}) /\ Len(<<c>>) = 1
  OBVIOUS
<1>2. <<c>> \o s \in Seq(S \cup {c}) /\ Len(<<c>> \o s) = Len(<<c>>) + Len(s)
  BY <1>1, ConcatProperties
<1>3. Len(s) \in Nat /\ Len(<<>>) = 0
  OBVIOUS
<1>4. Len(<<c>> \o s) = Len(s) + 1
  BY <1>1, <1>2, <1>3
<1> QED
  BY <1>2, <1>3, <1>4 DEF IsList

(* Lemma: the head taken off a list that has one.                          *)
LEMMA ListPop ==
  ASSUME NEW s, IsList(s), s # <<>>
  PROVE  IsList(Tail(s)) /\ Len(Tail(s)) \in Nat /\ Len(s) \in Nat /\ Len(Tail(s)) <= Len(s)
<1> PICK S : s \in Seq(S)
  BY DEF IsList
<1>1. Tail(s) \in Seq(S) /\ Len(Tail(s)) = Len(s) - 1 /\ Len(s) \in Nat
  BY HeadTailProperties
<1>2. Len(Tail(s)) \in Nat
  BY <1>1
<1> QED
  BY <1>1, <1>2 DEF IsList

(* Lemma: an element taken out of a list.                                  *)
LEMMA ListRemove ==
  ASSUME NEW s, IsList(s), NEW i \in DOMAIN s
  PROVE  /\ IsList(RemoveAt(s, i)) /\ Len(RemoveAt(s, i)) \in Nat /\ Len(s) \in Nat
         /\ Len(RemoveAt(s, i)) <= Len(s)
<1> PICK S : s \in Seq(S)
  BY DEF IsList
<1>1. Len(s) \in Nat /\ i \in 1 .. Len(s)
  OBVIOUS
<1> PICK n : n = Len(s)
  OBVIOUS
<1> PICK a : a = SubSeq(s, 1, i - 1)
  BY Zenon
<1> PICK b : b = SubSeq(s, i + 1, n)
  BY Zenon
<1>2. \A k \in 1 .. n : s[k] \in S
  OBVIOUS
<1>3. a \in Seq(S) /\ Len(a) = i - 1
  BY <1>1, <1>2, SubSeqProperties
<1>4. b \in Seq(S) /\ Len(b) = n - i
  BY <1>1, <1>2, SubSeqProperties
<1>5. a \o b \in Seq(S) /\ Len(a \o b) = Len(a) + Len(b)
  BY <1>3, <1>4, ConcatProperties, Zenon
<1>6. RemoveAt(s, i) = a \o b
  BY DEF RemoveAt
<1>7. Len(a \o b) \in Nat /\ Len(a \o b) <= n
  BY <1>1, <1>3, <1>4, <1>5, SMTT(40)
<1> QED
  BY <1>1, <1>5, <1>6, <1>7, Zenon DEF IsList

(* Lemma: a step of thread t that leaves the caches and promises nothing   *)
(* that was not promised before.                                           *)
LEMMA CalmInv ==
  ASSUME LockInv, CacheInv, NEW t \in Threads,
         (\E c : Moves(t, c)) \/ UNCHANGED <<op, lock>>, UNCHANGED tcache,
         Owing(op'[t]) => Owing(op[t]) /\ op'[t].nb = op[t].nb
  PROVE  CacheInv'
<1>1. \A u \in Threads \ {t} : op'[u] = op[u]
  BY DEF Moves, LockInv
<1>2. ASSUME NEW u \in Threads, Owing(op'[u])
      PROVE  op'[u].nb \in TcacheSizes /\ tcache[u][op'[u].nb] # <<>>
  <2>1. CASE u = t
    BY <1>2, <2>1 DEF CacheInv
  <2>2. CASE u # t
    <3>1. op'[u] = op[u]
      BY <1>1, <2>2
    <3>2. Owing(op[u])
      BY <1>2, <3>1
    <3> QED
      BY <3>1, <3>2 DEF CacheInv
  <2> QED
    BY <2>1, <2>2
<1>3. \A u \in Threads : Owing(op[u])' = Owing(op'[u])
  BY DEF Owing
<1> QED
  BY <1>2, <1>3 DEF CacheInv, TcacheSizes, IsList

(* Lemma: a step of thread t that changes one of its own lists to s.       *)
LEMMA OwnListInv ==
  ASSUME LockInv, CacheInv, NEW t \in Threads,
         (\E c : Moves(t, c)) \/ UNCHANGED <<op, lock>>,
         NEW n \in TcacheSizes, NEW s, tcache' = [tcache EXCEPT ![t][n] = s],
         IsList(s), Len(s) <= TcacheCount,
         Owing(op'[t]) => op'[t].nb = n /\ s # <<>>
  PROVE  CacheInv'
<1>1. \A u \in Threads \ {t} : op'[u] = op[u]
  BY DEF Moves, LockInv
<1>2. /\ DOMAIN tcache' = Threads
      /\ \A u \in Threads \ {t} : tcache'[u] = tcache[u]
      /\ DOMAIN tcache'[t] = TcacheSizes
      /\ tcache'[t][n] = s
      /\ \A m \in TcacheSizes \ {n} : tcache'[t][m] = tcache[t][m]
  BY DEF CacheInv
<1>3. ASSUME NEW u \in Threads
      PROVE  /\ DOMAIN tcache'[u] = TcacheSizes
             /\ \A m \in TcacheSizes : IsList(tcache'[u][m]) /\ Len(tcache'[u][m]) <= TcacheCount
  <2>1. CASE u = t
    BY <1>2, <2>1 DEF CacheInv
  <2>2. CASE u # t
    BY <1>2, <2>2 DEF CacheInv
  <2> QED
    BY <2>1, <2>2
<1>4. ASSUME NEW u \in Threads, Owing(op'[u])
      PROVE  op'[u].nb \in TcacheSizes /\ tcache'[u][op'[u].nb] # <<>>
  <2>1. CASE u = t
    BY <1>2, <1>4, <2>1
  <2>2. CASE u # t
    <3>1. op'[u] = op[u] /\ tcache'[u] = tcache[u]
      BY <1>1, <1>2, <2>2
    <3>2. Owing(op[u])
      BY <1>4, <3>1
    <3> QED
      BY <3>1, <3>2 DEF CacheInv
  <2> QED
    BY <2>1, <2>2
<1>5. \A u \in Threads : Owing(op[u])' = Owing(op'[u])
  BY DEF Owing
<1> QED
  BY <1>2, <1>3, <1>4, <1>5 DEF CacheInv, TcacheSizes, IsList

(* The steps of the search, during which a call may have promised to return*)
(* a cached chunk.                                                         *)
Promising == {"unsorted", "fit", "consolidate"}

(* Lemma: a call that stands at any other step is in no search.            *)
LEMMA QuietCall == \A c : c.pc \notin Promising => ~Searching(c)
BY DEF Searching, Promising

(* Lemma: nor does a call that _int_malloc has just answered.              *)
LEMMA GotQuiet ==
  ASSUME LockInv, NEW t \in Threads, NEW v, Got(t, v)
  PROVE  ~Searching(op'[t])
<1>1. DOMAIN op = Threads /\ DOMAIN op[t] = CallFields
  BY DEF LockInv, CallOK
<1>2. op'[t].pc = "got"
  BY <1>1 DEF Got, CallFields
<1> QED
  BY <1>2, QuietCall DEF Promising

(* Lemma: nor one that consolidates or trims after a free: it goes on to   *)
(* systrim, and from there to its own end.                                 *)
LEMMA MaybeQuiet ==
  ASSUME NEW call, DOMAIN call = CallFields, NEW sz, NEW k, k \in {"aligned", "done"}
  PROVE  ~Searching(MaybeConsolidate(call, sz, k))
<1> PICK c : c = MaybeConsolidate(call, sz, k)
  OBVIOUS
<1>1. CASE sz < ConsolidationThreshold
  <2>1. c.pc = k
    BY <1>1 DEF MaybeConsolidate, CallFields
  <2> QED
    BY <2>1, QuietCall DEF Promising
<1>2. CASE ~(sz < ConsolidationThreshold) /\ have_fastchunks
  <2>1. c.pc = "consolidate" /\ c.after = "systrim"
    BY <1>2 DEF MaybeConsolidate, CallFields
  <2> QED
    BY <2>1 DEF Searching
<1>3. CASE ~(sz < ConsolidationThreshold) /\ ~have_fastchunks
  <2>1. c.pc = "systrim"
    BY <1>3 DEF MaybeConsolidate, CallFields
  <2> QED
    BY <2>1, QuietCall DEF Promising
<1> QED
  BY <1>1, <1>2, <1>3

(* Lemma: nor one whose free was part of realloc.                          *)
LEMMA FreeLockedQuiet ==
  ASSUME LockInv, NEW t \in Threads, NEW h, NEW p, NEW out, NEW call,
         DOMAIN call = CallFields, call.pc = "done", FreeLocked(t, h, p, out, call)
  PROVE  ~Searching(op'[t])
<1>1. DOMAIN op = Threads
  BY DEF LockInv
<1>2. CASE h[p].sz <= MaxFast
  <2>1. op'[t] = call
    BY <1>1, <1>2 DEF FreeLocked
  <2> QED
    BY <2>1, QuietCall DEF Promising
<1>3. CASE ~(h[p].sz <= MaxFast)
  <2>1. op'[t] = MaybeConsolidate(call, Merge(h, top, p, TRUE).sz, call.pc)
    BY <1>1, <1>3 DEF FreeLocked
  <2> QED
    BY <2>1, MaybeQuiet, Zenon
<1> QED
  BY <1>2, <1>3

(* Lemma: nor one at the end of _int_realloc.                              *)
LEMMA ReallocRestQuiet ==
  ASSUME LockInv, NEW t \in Threads, NEW h, NEW p, NEW size, NEW nb, NEW out,
         ReallocRest(t, h, p, size, nb, out)
  PROVE  ~Searching(op'[t])
<1> PICK call : call = [op[t] EXCEPT !.fn = "realloc", !.pc = "done", !.want = nb, !.p = None,
                                     !.old = 0, !.v = p, !.nb = 0]
  OBVIOUS
<1>1. DOMAIN call = CallFields /\ call.pc = "done" /\ DOMAIN op = Threads
  BY DEF LockInv, CallOK, CallFields
<1>2. CASE TooSmall(size - nb)
  <2>1. op'[t] = call
    BY <1>1, <1>2 DEF ReallocRest
  <2> QED
    BY <1>1, <2>1, QuietCall, Zenon DEF Promising
<1>3. CASE ~TooSmall(size - nb)
  <2> PICK g : g = CutAt(SetInuse([h EXCEPT ![p].sz = size], p), p, nb)
    OBVIOUS
  <2>1. FreeLocked(t, g, p + nb, out, call)
    BY <1>3 DEF ReallocRest
  <2> QED
    BY <1>1, <2>1, FreeLockedQuiet, Zenon
<1> QED
  BY <1>2, <1>3

(* Lemma: the steps after which a call is in no search.                    *)
LEMMA QuietSteps ==
  ASSUME LockInv, NEW t \in Threads,
         \/ TakeFast(t) \/ TakeSmall(t) \/ SysTrim(t) \/ FreeFlag(t) \/ FreePush(t)
         \/ FreeMerge(t) \/ Done(t) \/ MallocGot(t) \/ RetryGot(t)
  PROVE  UNCHANGED tcache /\ ~Searching(op'[t])
<1>1. DOMAIN op = Threads /\ DOMAIN op[t] = CallFields /\ CallOK(op[t])
  BY DEF LockInv, CallOK
<1>2. CASE TakeFast(t) \/ TakeSmall(t) \/ FreeFlag(t) \/ MallocGot(t) \/ RetryGot(t)
  <2>1. UNCHANGED tcache
    BY <1>2 DEF TakeFast, TakeSmall, FreeFlag, MallocGot, RetryGot
  <2>2. op'[t].pc \in {"stash_fast", "stash_small", "push", "done", "free_chunk"}
    BY <1>1, <1>2 DEF TakeFast, TakeSmall, FreeFlag, MallocGot, RetryGot, CallFields
  <2> QED
    BY <2>1, <2>2, QuietCall DEF Promising
<1>3. CASE SysTrim(t)
  <2>1. op[t].k \in {"aligned", "done"} /\ UNCHANGED tcache
    BY <1>1, <1>3 DEF SysTrim, Holds, CallOK
  <2>2. op'[t].pc = op[t].k
    BY <1>1, <1>3 DEF SysTrim, CallFields
  <2> QED
    BY <2>1, <2>2, QuietCall DEF Promising
<1>4. CASE FreePush(t) \/ Done(t)
  <2>1. op'[t] = Idle /\ UNCHANGED tcache
    BY <1>1, <1>4, Zenon DEF FreePush, Done, Finish
  <2> QED
    BY <2>1, IdleFields, QuietCall DEF Promising
<1>5. CASE FreeMerge(t)
  <2> PICK r : r = MaybeConsolidate(op[t], Merge(hdr, top, op[t].p, TRUE).sz, "done")
    BY Zenon
  <2>1. UNCHANGED tcache /\ op'[t] = [r EXCEPT !.p = None]
    BY <1>1, <1>5 DEF FreeMerge
  <2>2. DOMAIN r = CallFields /\ ~Searching(r)
    BY <1>1, MaybeOK, MaybeQuiet, Zenon DEF CallOK
  <2>3. /\ op'[t].pc = r.pc /\ op'[t].after = r.after /\ op'[t].cached = r.cached
    BY <2>1, <2>2 DEF CallFields
  <2> QED
    BY <2>1, <2>2, <2>3, Zenon DEF Searching
<1> QED
  BY <1>2, <1>3, <1>4, <1>5

(* Lemma: the searches that end with a chunk or with none.                 *)
LEMMA FoundSteps ==
  ASSUME LockInv, NEW t \in Threads,
         SplitRemainder(t) \/ BestFit(t) \/ ScanBins(t) \/ UseTop(t) \/ SysMalloc(t)
  PROVE  UNCHANGED tcache /\ ~Searching(op'[t])
<1>1. CASE SplitRemainder(t) \/ UseTop(t) \/ SysMalloc(t)
  <2>1. UNCHANGED tcache /\ \E v : Got(t, v)
    BY <1>1 DEF SplitRemainder, UseTop, SysMalloc
  <2> QED
    BY <2>1, GotQuiet
<1>2. CASE BestFit(t) \/ ScanBins(t)
  <2>1. \E i, c, r : TakeFromBin(t, i, c, r)
    BY <1>2, Zenon DEF BestFit, ScanBins
  <2>2. UNCHANGED tcache /\ \E v : Got(t, v)
    BY <2>1 DEF TakeFromBin
  <2> QED
    BY <2>2, GotQuiet
<1> QED
  BY <1>1, <1>2

(* Lemma: realloc's and memalign's steps once _int_malloc has answered.    *)
LEMMA AnsweredSteps ==
  ASSUME LockInv, NEW t \in Threads, ReallocGot(t) \/ MemalignGot(t) \/ MemalignTail(t)
  PROVE  UNCHANGED tcache /\ ~Searching(op'[t])
<1>1. DOMAIN op = Threads /\ DOMAIN op[t] = CallFields
  BY DEF LockInv, CallOK
<1>2. UNCHANGED tcache
  BY Zenon DEF ReallocGot, MemalignGot, MemalignTail
<1>3. CASE ReallocGot(t)
  <2> PICK moved : moved = [op[t] EXCEPT !.pc = "done", !.p = None, !.old = 0, !.nb = 0]
    OBVIOUS
  <2>1. DOMAIN moved = CallFields /\ moved.pc = "done"
    BY <1>1 DEF CallFields
  <2>2. \/ \E h, p, s, nb : ReallocRest(t, h, p, s, nb, None)
        \/ FreeLocked(t, hdr, op[t].p, None, moved)
        \/ op' = [op EXCEPT ![t].pc = "retry"]
    BY <1>3 DEF ReallocGot
  <2>3. CASE op' = [op EXCEPT ![t].pc = "retry"]
    <3>1. op'[t].pc = "retry"
      BY <1>1, <2>3 DEF CallFields
    <3> QED
      BY <1>2, <3>1, QuietCall DEF Promising
  <2> QED
    BY <1>2, <2>1, <2>2, <2>3, ReallocRestQuiet, FreeLockedQuiet, Zenon
<1>4. ASSUME op'[t].pc \in {"done", "aligned"} PROVE ~Searching(op'[t])
  BY <1>4, QuietCall DEF Promising
<1>5. CASE MemalignGot(t)
  <2>1. \/ op' = [op EXCEPT ![t].pc = "done"] \/ op' = [op EXCEPT ![t].pc = "aligned"]
        \/ \E new, sz : op' = [op EXCEPT ![t] =
                                 MaybeConsolidate([@ EXCEPT !.v = new], sz, "aligned")]
    BY <1>5, Zenon DEF MemalignGot
  <2>2. CASE op' = [op EXCEPT ![t].pc = "done"] \/ op' = [op EXCEPT ![t].pc = "aligned"]
    <3>1. op'[t].pc \in {"done", "aligned"}
      BY <1>1, <2>2 DEF CallFields
    <3> QED
      BY <1>2, <1>4, <3>1
  <2>3. ASSUME NEW new, NEW sz,
               op' = [op EXCEPT ![t] = MaybeConsolidate([@ EXCEPT !.v = new], sz, "aligned")]
        PROVE  ~Searching(op'[t])
    <3> PICK call : call = [op[t] EXCEPT !.v = new]
      BY Zenon
    <3>1. op'[t] = MaybeConsolidate(call, sz, "aligned")
      BY <1>1, <2>3
    <3>2. DOMAIN call = CallFields
      BY <1>1
    <3> QED
      BY <3>1, <3>2, MaybeQuiet
  <2> QED
    BY <1>2, <2>1, <2>2, <2>3, Zenon
<1>6. CASE MemalignTail(t)
  <2>1. \/ op' = [op EXCEPT ![t].pc = "done"]
        \/ \E sz : op' = [op EXCEPT ![t] = MaybeConsolidate(@, sz, "done")]
    BY <1>6, Zenon DEF MemalignTail
  <2>2. CASE op' = [op EXCEPT ![t].pc = "done"]
    <3>1. op'[t].pc \in {"done", "aligned"}
      BY <1>1, <2>2 DEF CallFields
    <3> QED
      BY <1>2, <1>4, <3>1
  <2>3. ASSUME NEW sz, op' = [op EXCEPT ![t] = MaybeConsolidate(@, sz, "done")]
        PROVE  ~Searching(op'[t])
    <3>1. op'[t] = MaybeConsolidate(op[t], sz, "done")
      BY <1>1, <2>3
    <3> QED
      BY <1>1, <3>1, MaybeQuiet
  <2> QED
    BY <1>2, <2>1, <2>2, <2>3
<1> QED
  BY <1>3, <1>5, <1>6

(* Lemma: the search begins with nothing cached, unless the small bin has  *)
(* a chunk of the size.                                                    *)
LEMMA SearchBegins ==
  ASSUME LockInv, NEW t \in Threads, StartSearch(t)
  PROVE  UNCHANGED tcache /\ ~op'[t].cached /\ op'[t].nb = op[t].nb /\ ~HasSmall(op[t].nb)
<1>1. DOMAIN op = Threads /\ DOMAIN op[t] = CallFields
  BY DEF LockInv, CallOK
<1> QED
  BY <1>1 DEF StartSearch, Search, CallFields

(* Lemma: the steps of the search between the caching of a chunk and its   *)
(* return keep the promise: the size stays the one it was cached under.    *)
LEMMA SearchingSteps ==
  ASSUME LockInv, NEW t \in Threads,
         \/ UnsortedDone(t) \/ SearchAgain(t) \/ ConsolidateBegin(t) \/ ConsolidateDetach(t)
         \/ ConsolidateChunk(t) \/ ConsolidateEnd(t)
  PROVE  /\ UNCHANGED tcache /\ op'[t].nb = op[t].nb /\ op'[t].cached = op[t].cached
         /\ Searching(op'[t]) => Searching(op[t])
<1>1. DOMAIN op = Threads /\ DOMAIN op[t] = CallFields /\ CallOK(op[t])
  BY DEF LockInv, CallOK
<1>2. UNCHANGED tcache
  BY Zenon
    DEF UnsortedDone, SearchAgain, ConsolidateBegin, ConsolidateDetach, ConsolidateChunk,
         ConsolidateEnd
<1>3. CASE UnsortedDone(t)
  <2>1. /\ op[t].pc = "unsorted" /\ op'[t].nb = op[t].nb /\ op'[t].cached = op[t].cached
    BY <1>1, <1>3 DEF UnsortedDone, Holds, CallFields
  <2> QED
    BY <1>2, <2>1 DEF Searching
<1>4. CASE SearchAgain(t)
  <2>1. /\ op[t].pc = "fit" /\ op'[t].nb = op[t].nb /\ op'[t].cached = op[t].cached
    BY <1>1, <1>4 DEF SearchAgain, NoBinFits, Holds, CallFields
  <2> QED
    BY <1>2, <2>1 DEF Searching
<1>5. CASE ConsolidateBegin(t) \/ ConsolidateDetach(t) \/ ConsolidateChunk(t)
  <2>1. /\ op'[t].nb = op[t].nb /\ op'[t].cached = op[t].cached
        /\ op'[t].pc = op[t].pc /\ op'[t].after = op[t].after
    BY <1>1, <1>5, ZenonT(40)
      DEF ConsolidateBegin, ConsolidateDetach, ConsolidateChunk, CallFields
  <2> QED
    BY <1>2, <2>1 DEF Searching
<1>6. CASE ConsolidateEnd(t)
  <2>1. /\ op[t].pc = "consolidate" /\ op[t].after \in {"unsorted", "systrim"}
        /\ op'[t].nb = op[t].nb /\ op'[t].cached = op[t].cached /\ op'[t].pc = op[t].after
    BY <1>1, <1>6 DEF ConsolidateEnd, Holds, CallFields, CallOK
  <2> QED
    BY <1>2, <2>1 DEF Searching
<1> QED
  BY <1>3, <1>4, <1>5, <1>6

(* Lemma: nor is a call in a search when it has just begun.                *)
LEMMA CallQuiet ==
  ASSUME LockInv, NEW t \in Threads, Call(t)
  PROVE  ~Searching(op'[t])
<1>1. DOMAIN op = Threads
  BY DEF LockInv
<1>2. ASSUME op[t].pc = "idle", UNCHANGED op PROVE ~Searching(op'[t])
  BY <1>2 DEF Searching
<1>3. ASSUME NEW call, NEW nb, DOMAIN call = CallFields, Enter(t, call, nb)
      PROVE  ~Searching(op'[t])
  <2>1. op'[t].pc = "int_malloc"
    BY <1>1, <1>3 DEF Enter, CallFields
  <2> QED
    BY <2>1 DEF Searching
<1>4. ASSUME NEW call, op' = [op EXCEPT ![t] = call],
             call.pc \in {"free_chunk", "done", "int_malloc"}
      PROVE  ~Searching(op'[t])
  <2>1. op'[t] = call
    BY <1>1, <1>4
  <2> QED
    BY <1>4, <2>1 DEF Searching
<1>5. ASSUME NEW nb, Malloc(t, nb) PROVE ~Searching(op'[t])
  <2> PICK call : call = [Idle EXCEPT !.fn = "malloc", !.want = nb]
    OBVIOUS
  <2>1. DOMAIN call = CallFields
    BY IdleFields
  <2>2. op[t].pc = "idle" /\ (UNCHANGED op \/ Enter(t, call, nb))
    BY <1>5 DEF Malloc
  <2> QED
    BY <1>2, <1>3, <2>1, <2>2, Zenon
<1>6. ASSUME NEW p, Free(t, p) PROVE ~Searching(op'[t])
  <2> PICK call : call = [Idle EXCEPT !.fn = "free", !.pc = "free_chunk", !.p = p]
    OBVIOUS
  <2>1. call.pc = "free_chunk"
    BY DEF Idle
  <2>2. op[t].pc = "idle" /\ (UNCHANGED op \/ op' = [op EXCEPT ![t] = call])
    BY <1>6 DEF Free
  <2> QED
    BY <1>2, <1>4, <2>1, <2>2, Zenon
<1>7. ASSUME NEW p, NEW nb, Realloc(t, p, nb) PROVE ~Searching(op'[t])
  <2> PICK g : g = [Idle EXCEPT !.fn = "realloc", !.pc = "done", !.want = nb, !.v = p]
    OBVIOUS
  <2> PICK m : m = [Idle EXCEPT !.fn = "realloc", !.pc = "int_malloc", !.want = nb, !.nb = nb,
                                !.p = p, !.old = live[p]]
    OBVIOUS
  <2>1. g.pc = "done" /\ m.pc = "int_malloc"
    BY DEF Idle
  <2>2. /\ op[t].pc = "idle"
        /\ \/ UNCHANGED op
           \/ \E h, s, out : ReallocRest(t, h, p, s, nb, out)
           \/ op' = [op EXCEPT ![t] = g] \/ op' = [op EXCEPT ![t] = m]
    BY <1>7 DEF Realloc
  <2> QED
    BY <1>2, <1>4, <2>1, <2>2, ReallocRestQuiet, Zenon
<1>8. ASSUME NEW al, NEW nb, Memalign(t, al, nb) PROVE ~Searching(op'[t])
  <2> PICK call : call = [Idle EXCEPT !.fn = "memalign", !.want = nb, !.al = al]
    OBVIOUS
  <2>1. DOMAIN call = CallFields
    BY IdleFields
  <2>2. op[t].pc = "idle" /\ (UNCHANGED op \/ Enter(t, call, Padded(nb, al)))
    BY <1>8 DEF Memalign
  <2> QED
    BY <1>2, <1>3, <2>1, <2>2, Zenon
<1>9. ASSUME NEW pad, MallocTrim(t, pad) PROVE ~Searching(op'[t])
  <2> PICK call : call = [Idle EXCEPT !.fn = "trim", !.pc = "consolidate", !.pad = pad,
                                      !.after = "systrim", !.k = "done"]
    OBVIOUS
  <2>1. call.pc = "consolidate" /\ call.after = "systrim"
    BY DEF Idle
  <2>2. op'[t] = call
    BY <1>1, <1>9 DEF MallocTrim
  <2> QED
    BY <2>1, <2>2 DEF Searching
<1> QED
  BY <1>5, <1>6, <1>7, <1>8, <1>9 DEF Call

(* Lemma: a thread's own list, and what it can take: a free slot is one    *)
(* below the bound.                                                        *)
LEMMA OwnList ==
  ASSUME CacheInv, NEW t \in Threads, NEW n \in TcacheSizes
  PROVE  /\ IsList(tcache[t][n]) /\ Len(tcache[t][n]) \in Nat
         /\ Len(tcache[t][n]) <= TcacheCount /\ TcacheCount \in Nat
         /\ Slots(t, n) > 0 => Len(tcache[t][n]) + 1 <= TcacheCount
<1>1. IsList(tcache[t][n]) /\ Len(tcache[t][n]) <= TcacheCount
  BY DEF CacheInv
<1>2. Len(tcache[t][n]) \in Nat
  BY <1>1, ListPush
<1>3. TcacheCount \in Nat
  BY ArenaAssumption
<1> QED
  BY <1>1, <1>2, <1>3 DEF Slots

(* Lemma: a step of thread t that puts a chunk into one of its lists.      *)
LEMMA PushInv ==
  ASSUME LockInv, CacheInv, NEW t \in Threads,
         (\E c : Moves(t, c)) \/ UNCHANGED <<op, lock>>,
         NEW n \in TcacheSizes, Slots(t, n) > 0, NEW c,
         tcache' = [tcache EXCEPT ![t][n] = <<c>> \o @],
         Owing(op'[t]) => op'[t].nb = n
  PROVE  CacheInv'
<1> PICK s : s = <<c>> \o tcache[t][n]
  BY Zenon
<1>1. IsList(s) /\ s # <<>> /\ Len(s) = Len(tcache[t][n]) + 1
  BY OwnList, ListPush
<1>2. Len(s) <= TcacheCount
  BY <1>1, OwnList
<1>3. tcache' = [tcache EXCEPT ![t][n] = s]
  BY DEF CacheInv
<1> QED
  BY <1>1, <1>2, <1>3, OwnListInv, Zenon

(* Lemma: a step of thread t that takes the head of one of its lists,      *)
(* where there is one.                                                     *)
LEMMA PopInv ==
  ASSUME LockInv, CacheInv, NEW t \in Threads,
         (\E c : Moves(t, c)) \/ UNCHANGED <<op, lock>>,
         NEW n \in TcacheSizes, tcache[t][n] # <<>>,
         tcache' = [tcache EXCEPT ![t][n] = Tail(@)],
         ~Owing(op'[t])
  PROVE  CacheInv'
<1> PICK s : s = Tail(tcache[t][n])
  BY Zenon
<1>1. IsList(s) /\ Len(s) \in Nat /\ Len(s) <= Len(tcache[t][n])
  BY OwnList, ListPop
<1>2. Len(s) <= TcacheCount
  BY ONLY <1>1, OwnList, CacheInv
<1>3. tcache' = [tcache EXCEPT ![t][n] = s]
  BY DEF CacheInv
<1> QED
  BY <1>1, <1>2, <1>3, OwnListInv, Zenon

(* Lemma: the steps of _int_malloc that fill a cache.                      *)
LEMMA StashSteps ==
  ASSUME LockInv, CacheInv, NEW t \in Threads, StashFast(t) \/ StashSmall(t) \/ ExactFit(t)
  PROVE  CacheInv'
<1>1. DOMAIN op = Threads /\ DOMAIN op[t] = CallFields
  BY DEF LockInv, CallOK
<1>2. (\E c : Moves(t, c)) \/ UNCHANGED <<op, lock>>
  BY TakeSteps
<1> PICK nb : nb = op[t].nb
  OBVIOUS
<1>3. CASE UNCHANGED tcache /\ \E v : Got(t, v)
  <2>1. ~Owing(op'[t])
    BY <1>3, GotQuiet DEF Owing
  <2> QED
    BY <1>2, <1>3, <2>1, CalmInv
<1>4. CASE StashFast(t) \/ StashSmall(t)
  <2>1. op[t].pc \in {"stash_fast", "stash_small"}
    BY <1>4, Zenon DEF StashFast, StashSmall, Holds
  <2>2. \/ UNCHANGED tcache /\ \E v : Got(t, v)
        \/ /\ CacheWanted(t, nb) /\ UNCHANGED op
           /\ \E c : tcache' = [tcache EXCEPT ![t][nb] = <<c>> \o @]
    BY <1>4, Zenon DEF StashFast, StashSmall
  <2>3. CASE /\ CacheWanted(t, nb) /\ UNCHANGED op
             /\ \E c : tcache' = [tcache EXCEPT ![t][nb] = <<c>> \o @]
    <3>1. nb \in TcacheSizes /\ Slots(t, nb) > 0
      BY <2>3 DEF CacheWanted
    <3>2. op'[t].pc \notin Promising
      BY <2>1, <2>3 DEF Promising
    <3>3. ~Owing(op'[t])
      BY <3>2, QuietCall DEF Owing
    <3> QED
      BY <1>2, <2>3, <3>1, <3>3, PushInv, Zenon
  <2> QED
    BY <1>3, <2>2, <2>3, Zenon
<1>5. CASE ExactFit(t)
  <2>1. \/ UNCHANGED tcache /\ \E v : Got(t, v)
        \/ /\ CacheWanted(t, nb) /\ op' = [op EXCEPT ![t].cached = TRUE]
           /\ \E c : tcache' = [tcache EXCEPT ![t][nb] = <<c>> \o @]
    BY <1>5, Zenon DEF ExactFit
  <2>2. CASE /\ CacheWanted(t, nb) /\ op' = [op EXCEPT ![t].cached = TRUE]
             /\ \E c : tcache' = [tcache EXCEPT ![t][nb] = <<c>> \o @]
    <3>1. nb \in TcacheSizes /\ Slots(t, nb) > 0
      BY <2>2 DEF CacheWanted
    <3>2. op'[t].nb = nb
      BY <1>1, <2>2 DEF CallFields
    <3> QED
      BY <1>2, <2>2, <3>1, <3>2, PushInv, Zenon
  <2> QED
    BY <1>3, <2>1, <2>2, Zenon
<1> QED
  BY <1>4, <1>5

(* Lemma: the two returns of a cached chunk, which rely on the promise.    *)
LEMMA ReturnSteps ==
  ASSUME LockInv, CacheInv, NEW t \in Threads, SortVictim(t) \/ ReturnCached(t)
  PROVE  CacheInv'
<1>1. DOMAIN op = Threads /\ DOMAIN op[t] = CallFields
  BY DEF LockInv, CallOK
<1>2. (\E c : Moves(t, c)) \/ UNCHANGED <<op, lock>>
  BY TakeSteps
<1> PICK nb : nb = op[t].nb
  OBVIOUS
<1>3. ASSUME Owing(op[t]), NEW v, Got(t, v), tcache' = [tcache EXCEPT ![t][nb] = Tail(@)]
      PROVE  CacheInv'
  <2>1. nb \in TcacheSizes /\ tcache[t][nb] # <<>>
    BY <1>3 DEF CacheInv
  <2>2. ~Owing(op'[t])
    BY <1>3, GotQuiet DEF Owing
  <2> QED
    BY <1>2, <1>3, <2>1, <2>2, PopInv, Zenon
<1>4. CASE ReturnCached(t)
  <2>1. Owing(op[t])
    BY <1>4 DEF ReturnCached, Holds, Owing, Searching
  <2>2. tcache' = [tcache EXCEPT ![t][nb] = Tail(@)] /\ \E v : Got(t, v)
    BY <1>4 DEF ReturnCached
  <2> QED
    BY <1>3, <2>1, <2>2
<1>5. CASE SortVictim(t)
  <2> PICK r : r = [op[t] EXCEPT !.iters = @ + 1, !.sorted = @ + 1]
    OBVIOUS
  <2> PICK c : c = [r EXCEPT !.pc = IF r.iters >= MaxIters THEN "fit" ELSE @]
    OBVIOUS
  <2>1. r.cached = op[t].cached /\ c.cached = op[t].cached /\ c.nb = nb
    BY <1>1 DEF CallFields
  <2>2. /\ op[t].pc = "unsorted"
        /\ \/ /\ r.cached /\ tcache' = [tcache EXCEPT ![t][nb] = Tail(@)]
              /\ Got(t, Head(tcache[t][nb]))
           \/ UNCHANGED tcache /\ op' = [op EXCEPT ![t] = c]
    BY <1>5 DEF SortVictim, Unsorted, Holds
  <2>3. CASE /\ r.cached /\ tcache' = [tcache EXCEPT ![t][nb] = Tail(@)]
             /\ Got(t, Head(tcache[t][nb]))
    <3>1. Owing(op[t])
      BY <2>1, <2>2, <2>3 DEF Owing, Searching
    <3> QED
      BY <1>3, <2>3, <3>1
  <2>4. CASE UNCHANGED tcache /\ op' = [op EXCEPT ![t] = c]
    <3>1. op'[t] = c
      BY <1>1, <2>4
    <3>2. Owing(op'[t]) => Owing(op[t]) /\ op'[t].nb = op[t].nb
      BY <2>1, <2>2, <3>1 DEF Owing, Searching
    <3> QED
      BY <1>2, <2>4, <3>2, CalmInv, Zenon
  <2> QED
    BY <2>2, <2>3, <2>4
<1> QED
  BY <1>4, <1>5

(* Lemma: realloc's retry is a malloc: from the cache, or by the arena.    *)
LEMMA RetrySteps ==
  ASSUME LockInv, CacheInv, NEW t \in Threads, ReallocRetry(t)
  PROVE  CacheInv'
<1>1. DOMAIN op = Threads /\ DOMAIN op[t] = CallFields
  BY DEF LockInv, CallOK
<1>2. (\E c : Moves(t, c)) \/ UNCHANGED <<op, lock>>
  BY ReallocSteps
<1> PICK nb : nb = op[t].want
  OBVIOUS
<1> PICK c : c = [op[t] EXCEPT !.pc = "free_chunk", !.v = Head(tcache[t][nb])]
  OBVIOUS
<1> PICK r : r = [op[t] EXCEPT !.fn = "retry"]
  BY Zenon
<1>3. DOMAIN r = CallFields /\ c.pc = "free_chunk"
  BY <1>1 DEF CallFields
<1>4. \/ /\ nb \in TcacheSizes /\ tcache[t][nb] # <<>>
         /\ tcache' = [tcache EXCEPT ![t][nb] = Tail(@)] /\ op' = [op EXCEPT ![t] = c]
      \/ Enter(t, r, nb) /\ UNCHANGED tcache
  BY <1>1, Zenon DEF ReallocRetry, CacheHit
<1>5. CASE /\ nb \in TcacheSizes /\ tcache[t][nb] # <<>>
           /\ tcache' = [tcache EXCEPT ![t][nb] = Tail(@)] /\ op' = [op EXCEPT ![t] = c]
  <2>1. op'[t] = c
    BY <1>1, <1>5
  <2>2. ~Owing(op'[t])
    BY <1>3, <2>1, QuietCall, Zenon DEF Promising, Owing
  <2> QED
    BY <1>2, <1>5, <2>2, PopInv, Zenon
<1>6. CASE Enter(t, r, nb) /\ UNCHANGED tcache
  <2>1. op'[t].pc = "int_malloc"
    BY <1>1, <1>3, <1>6 DEF Enter, CallFields
  <2>2. ~Owing(op'[t])
    BY <2>1, QuietCall DEF Promising, Owing
  <2> QED
    BY <1>2, <1>6, <2>2, CalmInv
<1> QED
  BY <1>4, <1>5, <1>6

(* Lemma: of the calls, malloc and memalign take from the caller's own     *)
(* cache, and free fills it.                                               *)
LEMMA CallCaches ==
  ASSUME LockInv, CacheInv, NEW t \in Threads, Call(t)
  PROVE  CacheInv'
<1>1. ~Owing(op'[t])
  BY CallQuiet DEF Owing
<1>2. (\E c : Moves(t, c)) \/ UNCHANGED <<op, lock>>
  BY CallSteps
<1>3. ASSUME UNCHANGED tcache PROVE CacheInv'
  BY <1>1, <1>2, <1>3, CalmInv
<1>4. ASSUME NEW nb, Malloc(t, nb) PROVE CacheInv'
  <2>1. \/ /\ nb \in TcacheSizes /\ tcache[t][nb] # <<>>
           /\ tcache' = [tcache EXCEPT ![t][nb] = Tail(@)]
        \/ UNCHANGED tcache
    BY <1>4 DEF Malloc, CacheHit
  <2> QED
    BY <1>1, <1>2, <1>3, <2>1, PopInv, Zenon
<1>5. ASSUME NEW p, Free(t, p) PROVE CacheInv'
  <2> PICK sz : sz = hdr[p].sz
    OBVIOUS
  <2>1. \/ /\ sz \in TcacheSizes /\ Slots(t, sz) > 0
           /\ tcache' = [tcache EXCEPT ![t][sz] = <<p>> \o @]
        \/ UNCHANGED tcache
    BY <1>5 DEF Free
  <2> QED
    BY <1>1, <1>2, <1>3, <2>1, PushInv, Zenon
<1>6. ASSUME NEW p, NEW nb, Realloc(t, p, nb) PROVE CacheInv'
  BY <1>3, <1>6, Zenon DEF Realloc
<1>7. ASSUME NEW al, NEW nb, Memalign(t, al, nb) PROVE CacheInv'
  <2> PICK hits : hits = IF nb \in TcacheSizes THEN AlignedIn(t, nb, al) ELSE {}
    BY Zenon
  <2> PICK i : i = CHOOSE n \in hits : \A m \in hits : n <= m
    OBVIOUS
  <2>1. \/ hits # {} /\ tcache' = [tcache EXCEPT ![t][nb] = RemoveAt(@, i)]
        \/ UNCHANGED tcache
    BY <1>7 DEF Memalign
  <2>2. CASE hits # {} /\ tcache' = [tcache EXCEPT ![t][nb] = RemoveAt(@, i)]
    <3>1. nb \in TcacheSizes /\ hits \subseteq DOMAIN tcache[t][nb]
      BY <2>2 DEF AlignedIn
    <3>2. IsList(tcache[t][nb])
      BY <3>1, OwnList
    <3>3. DOMAIN tcache[t][nb] \subseteq Nat
      BY <3>2 DEF IsList
    <3>4. \E n \in hits : \A m \in hits : n <= m
      BY <2>2, <3>1, <3>3, LeastNumber
    <3>5. i \in DOMAIN tcache[t][nb]
      BY <3>1, <3>4
    <3> PICK s : s = RemoveAt(tcache[t][nb], i)
      BY Zenon
    <3>6. IsList(s) /\ Len(s) \in Nat /\ Len(s) <= Len(tcache[t][nb])
      BY <3>2, <3>5, ListRemove
    <3>7. Len(s) <= TcacheCount
      BY <3>1, <3>6, OwnList
    <3>8. tcache' = [tcache EXCEPT ![t][nb] = s]
      BY <2>2, <3>1 DEF CacheInv
    <3> QED
      BY <1>1, <1>2, <3>1, <3>6, <3>7, <3>8, OwnListInv, Zenon
  <2> QED
    BY <1>3, <2>1, <2>2
<1>8. ASSUME NEW pad, MallocTrim(t, pad) PROVE CacheInv'
  BY <1>3, <1>8 DEF MallocTrim
<1> QED
  BY <1>4, <1>5, <1>6, <1>7, <1>8 DEF Call

(* Lemma: the caches are empty at first.                                   *)
LEMMA CacheInit == Init => CacheInv
<1> SUFFICES ASSUME Init PROVE CacheInv
  OBVIOUS
<1>1. /\ DOMAIN tcache = Threads
      /\ \A t \in Threads : DOMAIN tcache[t] = TcacheSizes
      /\ \A t \in Threads : \A s \in TcacheSizes : tcache[t][s] = <<>>
      /\ \A t \in Threads : op[t] = Idle
  BY DEF Init
<1>2. IsList(<<>>) /\ Len(<<>>) = 0 /\ 0 <= TcacheCount
  <2>1. <<>> \in Seq({})
    OBVIOUS
  <2> QED
    BY <2>1, ArenaAssumption DEF IsList
<1>3. \A t \in Threads : ~Owing(op[t])
  BY <1>1, IdleFields, QuietCall DEF Promising, Owing
<1> QED
  BY <1>1, <1>2, <1>3 DEF CacheInv

(* Lemma: every step keeps them so.                                        *)
LEMMA CacheNext == LockInv /\ CacheInv /\ [Next]_vars => CacheInv'
<1> SUFFICES ASSUME LockInv, CacheInv, [Next]_vars PROVE CacheInv'
  OBVIOUS
<1>1. CASE UNCHANGED vars
  BY <1>1 DEF vars, CacheInv, Owing, Searching, IsList, TcacheSizes
<1>2. ASSUME NEW t \in Threads, UNCHANGED tcache,
             Owing(op'[t]) => Owing(op[t]) /\ op'[t].nb = op[t].nb, Step(t)
      PROVE  CacheInv'
  BY <1>2, StepMoves, CalmInv
<1>3. ASSUME NEW t \in Threads, Step(t) PROVE CacheInv'
  <2>1. CASE \/ TakeFast(t) \/ TakeSmall(t) \/ SysTrim(t) \/ FreeFlag(t) \/ FreePush(t)
             \/ FreeMerge(t) \/ Done(t) \/ MallocGot(t) \/ RetryGot(t)
    BY <1>2, <1>3, <2>1, QuietSteps DEF Owing
  <2>2. CASE SplitRemainder(t) \/ BestFit(t) \/ ScanBins(t) \/ UseTop(t) \/ SysMalloc(t)
    BY <1>2, <1>3, <2>2, FoundSteps DEF Owing
  <2>3. CASE ReallocGot(t) \/ MemalignGot(t) \/ MemalignTail(t)
    BY <1>2, <1>3, <2>3, AnsweredSteps DEF Owing
  <2>4. CASE \/ UnsortedDone(t) \/ SearchAgain(t) \/ ConsolidateBegin(t) \/ ConsolidateDetach(t)
             \/ ConsolidateChunk(t) \/ ConsolidateEnd(t)
    BY <1>2, <1>3, <2>4, SearchingSteps DEF Owing
  <2>5. CASE StartSearch(t)
    BY <1>2, <1>3, <2>5, SearchBegins DEF Owing
  <2> QED
    BY <1>3, <2>1, <2>2, <2>3, <2>4, <2>5, StashSteps, ReturnSteps, RetrySteps DEF Step
<1> QED
  BY <1>1, <1>3, CallCaches DEF Next

(* Theorem: no cache of any thread holds more chunks than its slots,       *)
(* whichever of free, the stashing of fastbins and small bins and the      *)
(* unsorted loop (of sizes below and above MIN_LARGE_SIZE) filled it, for  *)
(* any number of threads and slots and any tcache_max_bytes up to which    *)
(* each size has a tcache bin of its own.                                  *)
THEOREM ArenaCacheBounded == Spec => []CacheBounded
<1>1. CacheInv => CacheBounded
  BY DEF CacheInv, CacheBounded
<1> QED
  BY <1>1, CacheInit, CacheNext, LockInit, LockNext, PTL DEF Spec

-----------------------------------------------------------------------------
(* The heap under the arena.  ScallocHeapProofs also speaks of calloc,     *)
(* whose variables play no part here.                                      *)
HP == INSTANCE ScallocHeapProofs WITH
  free <- Binned, max_system_mem <- 0, garbage <- 0, overgrown <- FALSE, call <- 0, stale <- {}

(* Lemma: the operators on headers are the same there.                     *)
LEMMA SameSmall ==
  /\ HP!MINSIZE = MINSIZE
  /\ \A n : HP!TooSmall(n) = TooSmall(n)
  /\ \A h, p : HP!Next_(h, p) = Next_(h, p) /\ HP!InUseAfter(h, p) = InUseAfter(h, p)
BY Zenon DEF HP!MINSIZE, MINSIZE, HP!TooSmall, TooSmall, HP!Next_, Next_, HP!InUseAfter,
             InUseAfter

(* Lemma: the shape operators of the heap's proof module are the arena's   *)
(* own.                                                                    *)
LEMMA SameShape ==
  /\ \A h, p : HP!SetInuse(h, p) = SetInuse(h, p) /\ HP!Absorb(h, p) = Absorb(h, p)
  /\ \A h, p, n : HP!CutAt(h, p, n) = CutAt(h, p, n) /\ HP!SplitFree(h, p, n) = SplitFree(h, p, n)
<1>1. \A h, p : HP!SetInuse(h, p) = SetInuse(h, p)
  BY DEF HP!Next_, Next_, HP!SetInuse, SetInuse
<1>2. \A h, p : HP!Absorb(h, p) = Absorb(h, p)
  BY DEF HP!Next_, Next_, HP!Absorb, Absorb
<1>3. \A h, p, n : HP!CutAt(h, p, n) = CutAt(h, p, n)
  BY DEF HP!CutAt, CutAt
<1>4. \A h, p, n : HP!SplitFree(h, p, n) = SplitFree(h, p, n)
  BY <1>3, SameSmall DEF HP!SplitFree, SplitFree
<1> QED BY <1>1, <1>2, <1>3, <1>4

(* Lemma: its merge operators too; both modules instantiate ScallocChunks  *)
(* alike.                                                                  *)
LEMMA SameMerge ==
  /\ \A h, tp, p, b : HP!Merge(h, tp, p, b) = Merge(h, tp, p, b)
  /\ \A h, m : HP!MergedHdr(h, m) = MergedHdr(h, m)
<1>1. \A h, m : HP!MergedHdr(h, m) = MergedHdr(h, m)
  BY DEF HP!MergedHdr, MergedHdr
<1>2. \A h, p : HP!Backward(h, p) = Backward(h, p)
  BY DEF HP!Backward, Backward
<1>3. \A h, tp, p, b : HP!Merge(h, tp, p, b) = Merge(h, tp, p, b)
  BY <1>2, SameSmall DEF HP!Merge, Merge
<1> QED BY <1>1, <1>3

Header == [sz : Nat, pinuse : BOOLEAN, psz : Nat]

(* What the headers are.                                                   *)
HeapFacts ==
  /\ DOMAIN hdr \subseteq Nat /\ hdr \in [DOMAIN hdr -> Header]
  /\ top \in DOMAIN hdr /\ system_mem \in Nat /\ system_mem <= HeapLimit
  /\ Next_(hdr, top) = system_mem
  /\ Binned \subseteq DOMAIN hdr \ {top}
  /\ \A c \in DOMAIN hdr \ {top} :
       /\ hdr[c].sz >= MINSIZE /\ Next_(hdr, c) \in DOMAIN hdr
       /\ hdr[Next_(hdr, c)].pinuse <=> c \notin Binned
       /\ \A d \in DOMAIN hdr : d <= c \/ Next_(hdr, c) <= d
  /\ \A c \in Binned : Next_(hdr, c) # top /\ Next_(hdr, c) \notin Binned
  /\ \A c \in Binned : hdr[Next_(hdr, c)].psz = hdr[c].sz
  /\ \A c \in DOMAIN hdr \ {0} : \E d \in DOMAIN hdr \ {top} : Next_(hdr, d) = c
  /\ \A c \in DOMAIN hdr : c <= top
  /\ hdr[0].pinuse
  /\ top # 0 => hdr[top].sz >= MINSIZE

(* Lemma: what the heap's invariant says of the arena's headers, unfolded  *)
(* once.                                                                   *)
LEMMA HeapIs == HP!IInv => HeapFacts
<1>1. ASSUME HP!Init PROVE HeapFacts
  <2>1. /\ hdr = [a \in {0} |-> [sz |-> 0, pinuse |-> TRUE, psz |-> 0]]
        /\ top = 0 /\ system_mem = 0 /\ Binned = {}
    BY <1>1, Zenon DEF HP!Init
  <2>2. DOMAIN hdr = {0} /\ hdr[0] = [sz |-> 0, pinuse |-> TRUE, psz |-> 0] BY <2>1
  <2>3. hdr \in [DOMAIN hdr -> Header] BY <2>1 DEF Header
  <2>4. HeapLimit \in Nat BY ArenaAssumption
  <2>5. Next_(hdr, top) = 0 BY <2>1, <2>2 DEF Next_
  <2> QED BY ONLY <2>1, <2>2, <2>3, <2>4, <2>5 DEF HeapFacts
<1>2. ASSUME HP!Whole(hdr, top, Binned, system_mem), system_mem \in HP!Brks PROVE HeapFacts
  <2>1. /\ HP!Good(hdr, top, Binned) /\ HP!Sized(hdr, top)
        /\ hdr[top].sz >= HP!MINSIZE /\ HP!Next_(hdr, top) = system_mem
    BY <1>2, Zenon DEF HP!Whole
  <2>2. HP!Laid(hdr, top) /\ HP!Tagged(hdr, top, Binned) /\ HP!Apart(hdr, top, Binned)
    BY <2>1, Zenon DEF HP!Good
  <2>3. /\ DOMAIN hdr \subseteq Nat /\ hdr \in [DOMAIN hdr -> Header] /\ top \in DOMAIN hdr
        /\ \A c \in DOMAIN hdr \ {top} : Next_(hdr, c) \in DOMAIN hdr
        /\ \A c \in DOMAIN hdr \ {top}, d \in DOMAIN hdr : d <= c \/ Next_(hdr, c) <= d
        /\ \A d \in DOMAIN hdr : d <= top
        /\ \A d \in DOMAIN hdr \ {0} : \E c \in DOMAIN hdr \ {top} : Next_(hdr, c) = d
    BY <2>2, SameSmall, Zenon DEF HP!Laid, HP!Header, Header
  <2>4. /\ Binned \subseteq DOMAIN hdr \ {top} /\ hdr[0].pinuse
        /\ \A c \in DOMAIN hdr \ {top} :
             /\ hdr[Next_(hdr, c)].pinuse <=> c \notin Binned
             /\ c \in Binned => hdr[Next_(hdr, c)].psz = hdr[c].sz
    BY <2>2, SameSmall, Zenon DEF HP!Tagged
  <2>5. \A c \in Binned : Next_(hdr, c) # top /\ Next_(hdr, c) \notin Binned
    BY <2>2, SameSmall, Zenon DEF HP!Apart
  <2>6. \A c \in DOMAIN hdr \ {top} : hdr[c].sz >= MINSIZE
    BY <2>1, SameSmall, Zenon DEF HP!Sized
  <2>7. hdr[top].sz >= MINSIZE /\ Next_(hdr, top) = system_mem BY <2>1, SameSmall, Zenon
  <2>8. system_mem \in 0 .. HeapLimit BY <1>2, Zenon DEF HP!Brks
  <2>9. system_mem \in Nat /\ system_mem <= HeapLimit BY <2>8, ArenaAssumption
  <2> QED BY ONLY <2>3, <2>4, <2>5, <2>6, <2>7, <2>9 DEF HeapFacts
<1> QED BY <1>1, <1>2, Zenon DEF HP!IInv
-----------------------------------------------------------------------------
(* Lists of chunks, in which none is twice.                                *)
Once(s) == s \in Seq(Int) /\ IsInjective(s)
Before(s, a, b) == \E i, j \in DOMAIN s : i < j /\ s[i] = a /\ s[j] = b

(* r has the chunks of s but for those of X, in their order.               *)
Fewer(r, s, X) ==
  /\ Once(r) /\ ToSet(r) = ToSet(s) \ X
  /\ \A a, b : Before(r, a, b) => Before(s, a, b)

(* Lemma: a list by its places.                                            *)
LEMMA ListIs ==
  ASSUME NEW s \in Seq(Int)
  PROVE  /\ Len(s) \in Nat /\ DOMAIN s = 1 .. Len(s) /\ ToSet(s) \subseteq Int
         /\ \A i \in 1 .. Len(s) : s[i] \in Int
         /\ s = <<>> <=> Len(s) = 0
         /\ s = <<>> <=> ToSet(s) = {}
<1>1. Len(s) \in Nat /\ DOMAIN s = 1 .. Len(s) /\ \A i \in 1 .. Len(s) : s[i] \in Int
  OBVIOUS
<1>2. ToSet(s) \subseteq Int BY <1>1 DEF ToSet
<1>3. s = <<>> <=> Len(s) = 0 BY EmptySeq
<1>4. Len(s) = 0 => ToSet(s) = {} BY <1>1 DEF ToSet
<1>5. Len(s) # 0 => ToSet(s) # {}
  <2> SUFFICES ASSUME Len(s) # 0 PROVE ToSet(s) # {} OBVIOUS
  <2>1. 1 \in DOMAIN s BY <1>1
  <2>2. s[1] \in ToSet(s) BY <2>1 DEF ToSet
  <2> QED BY <2>2
<1> QED BY <1>1, <1>2, <1>3, <1>4, <1>5

(* Lemma: a list that lost the element at a place.                         *)
LEMMA FewerAt ==
  ASSUME NEW s, Once(s), NEW k \in DOMAIN s, NEW r \in Seq(Int), Len(r) = Len(s) - 1,
         \A i \in 1 .. Len(r) : r[i] = s[IF i < k THEN i ELSE i + 1]
  PROVE  Fewer(r, s, {s[k]})
<1>1. /\ s \in Seq(Int) /\ Len(s) \in Nat /\ DOMAIN s = 1 .. Len(s)
      /\ Len(r) \in Nat /\ DOMAIN r = 1 .. Len(r)
  BY DEF Once
<1>2. k \in Nat /\ k <= Len(s) BY <1>1
<1>3. ASSUME NEW i \in DOMAIN r
      PROVE  /\ (IF i < k THEN i ELSE i + 1) \in DOMAIN s
             /\ (IF i < k THEN i ELSE i + 1) # k
  BY <1>1, <1>2, SMTT(40)
<1>4. IsInjective(s) BY DEF Once
<1>5. IsInjective(r)
  <2> SUFFICES ASSUME NEW i \in DOMAIN r, NEW j \in DOMAIN r, r[i] = r[j] PROVE i = j
    BY DEF IsInjective
  <2>0. i \in 1 .. Len(r) /\ j \in 1 .. Len(r) BY <1>1
  <2>1. i \in Nat /\ j \in Nat /\ r[i] = s[IF i < k THEN i ELSE i + 1]
        /\ r[j] = s[IF j < k THEN j ELSE j + 1]
    <3>1. i \in Nat /\ j \in Nat BY <1>1, SMTT(40)
    <3>2. r[i] = s[IF i < k THEN i ELSE i + 1] BY <2>0, Zenon
    <3>3. r[j] = s[IF j < k THEN j ELSE j + 1] BY <2>0, Zenon
    <3> QED BY <3>1, <3>2, <3>3, Zenon
  <2>2. (IF i < k THEN i ELSE i + 1) = (IF j < k THEN j ELSE j + 1)
    BY <1>3, <1>4, <2>1, Zenon DEF IsInjective
  <2> QED BY <1>2, <2>1, <2>2
<1>6. \A i \in DOMAIN r : r[i] \in ToSet(s) /\ r[i] # s[k]
  BY <1>1, <1>3, <1>4, SMTT(40) DEF IsInjective, ToSet
<1>7. ASSUME NEW j \in DOMAIN s, j # k PROVE \E i \in DOMAIN r : r[i] = s[j]
  <2>1. CASE j < k
    <3>1. j \in DOMAIN r BY <1>1, <1>2, <2>1
    <3> QED BY <1>1, <2>1, <3>1, Zenon
  <2>2. CASE j > k
    <3>1. j - 1 \in DOMAIN r /\ ~(j - 1 < k) /\ (j - 1) + 1 = j BY <1>1, <1>2, <2>2, SMTT(40)
    <3> QED BY <1>1, <3>1, Zenon
  <2> QED BY <1>1, <1>2, <1>7, <2>1, <2>2
<1>8. ToSet(r) = ToSet(s) \ {s[k]}
  <2>1. \A x \in ToSet(r) : x \in ToSet(s) \ {s[k]} BY <1>6 DEF ToSet
  <2>2. \A x \in ToSet(s) \ {s[k]} : x \in ToSet(r)
    <3> TAKE x \in ToSet(s) \ {s[k]}
    <3>1. PICK j \in DOMAIN s : s[j] = x BY DEF ToSet
    <3>2. j # k BY <3>1
    <3> QED BY <1>7, <3>1, <3>2 DEF ToSet
  <2> QED BY <2>1, <2>2
<1>9. ASSUME NEW a, NEW b, Before(r, a, b) PROVE Before(s, a, b)
  <2>1. PICK i \in DOMAIN r, j \in DOMAIN r : i < j /\ r[i] = a /\ r[j] = b
    BY <1>9 DEF Before
  <2>0. i \in 1 .. Len(r) /\ j \in 1 .. Len(r) BY <1>1
  <2>2. i \in Nat /\ j \in Nat /\ r[i] = s[IF i < k THEN i ELSE i + 1]
        /\ r[j] = s[IF j < k THEN j ELSE j + 1]
    <3>1. i \in Nat /\ j \in Nat BY <1>1, SMTT(40)
    <3>2. r[i] = s[IF i < k THEN i ELSE i + 1] BY <2>0, Zenon
    <3>3. r[j] = s[IF j < k THEN j ELSE j + 1] BY <2>0, Zenon
    <3> QED BY <3>1, <3>2, <3>3
  <2>3. (IF i < k THEN i ELSE i + 1) < (IF j < k THEN j ELSE j + 1) BY <1>2, <2>1, <2>2
  <2> QED BY <1>3, <2>1, <2>2, <2>3, Zenon DEF Before
<1> QED BY <1>5, <1>8, <1>9 DEF Fewer, Once

(* Lemma: the list operations that take a chunk out.                       *)
LEMMA RemoveAtFewer ==
  ASSUME NEW s, Once(s), NEW k \in DOMAIN s
  PROVE  Fewer(RemoveAt(s, k), s, {s[k]})
<1>1. s \in Seq(Int) /\ Len(s) \in Nat /\ k \in 1 .. Len(s) BY DEF Once
<1>2. PICK n : n = Len(s) BY Zenon
<1>3. PICK a : a = SubSeq(s, 1, k - 1) BY Zenon
<1>4. PICK b : b = SubSeq(s, k + 1, n) BY Zenon
<1>5. n \in Nat /\ k \in 1 .. n /\ \A i \in 1 .. n : s[i] \in Int BY <1>1, <1>2
<1>6. a \in Seq(Int) /\ Len(a) = k - 1 /\ \A i \in 1 .. (k - 1) : a[i] = s[i]
  BY <1>3, <1>5, SubSeqProperties
<1>7. b \in Seq(Int) /\ Len(b) = n - k /\ \A i \in 1 .. (n - k) : b[i] = s[k + i]
  BY <1>4, <1>5, SubSeqProperties
<1>8. PICK r : r = a \o b BY Zenon
<1>9. r \in Seq(Int) /\ Len(r) = (k - 1) + (n - k)
      /\ \A i \in 1 .. (k - 1) + (n - k) : r[i] = IF i <= k - 1 THEN a[i] ELSE b[i - (k - 1)]
  BY <1>6, <1>7, <1>8, ConcatProperties
<1>10. Len(r) = n - 1 BY <1>5, <1>9
<1>11. ASSUME NEW i \in 1 .. Len(r) PROVE r[i] = s[IF i < k THEN i ELSE i + 1]
  <2>1. i \in 1 .. (k - 1) + (n - k) BY <1>9
  <2>2. CASE i < k
    <3>1. i <= k - 1 /\ i \in 1 .. (k - 1) BY <1>5, <2>1, <2>2
    <3> QED BY <1>6, <1>9, <2>1, <2>2, <3>1
  <2>3. CASE ~(i < k)
    <3>1. ~(i <= k - 1) /\ i - (k - 1) \in 1 .. (n - k) /\ k + (i - (k - 1)) = i + 1
      BY <1>5, <2>1, <2>3
    <3> QED BY <1>7, <1>9, <2>1, <2>3, <3>1
  <2> QED BY <2>2, <2>3
<1>12. RemoveAt(s, k) = r BY <1>2, <1>3, <1>4, <1>8 DEF RemoveAt
<1> QED BY <1>2, <1>9, <1>10, <1>11, <1>12, FewerAt, Zenon

(* Lemma: taking the head off a list without repeats leaves the rest in    *)
(* order.                                                                  *)
LEMMA TailFewer ==
  ASSUME NEW s, Once(s), s # <<>>
  PROVE  Fewer(Tail(s), s, {Head(s)}) /\ Head(s) \in ToSet(s)
<1>1. s \in Seq(Int) /\ Len(s) \in Nat /\ Len(s) # 0 BY ListIs DEF Once
<1>2. 1 \in DOMAIN s BY <1>1
<1>3. PICK r : r = Tail(s) BY Zenon
<1>4. r \in Seq(Int) /\ Len(r) = Len(s) - 1 /\ \A i \in 1 .. Len(r) : r[i] = s[i + 1]
  BY <1>1, <1>3, HeadTailProperties
<1>5. \A i \in 1 .. Len(r) : r[i] = s[IF i < 1 THEN i ELSE i + 1] BY <1>4
<1>6. Fewer(r, s, {s[1]}) BY <1>2, <1>4, <1>5, FewerAt, Zenon
<1>7. Head(s) = s[1] OBVIOUS
<1> QED BY <1>2, <1>3, <1>6, <1>7 DEF ToSet

(* Lemma: taking the last chunk off a list leaves the rest in order.       *)
LEMMA FrontFewer ==
  ASSUME NEW s, Once(s), s # <<>>
  PROVE  Fewer(Front(s), s, {Last(s)}) /\ Last(s) \in ToSet(s)
<1>1. s \in Seq(Int) /\ Len(s) \in Nat /\ Len(s) # 0 BY ListIs DEF Once
<1>2. PICK n : n = Len(s) BY Zenon
<1>3. n \in DOMAIN s /\ n \in Nat /\ n >= 1 /\ \A i \in 1 .. n - 1 : s[i] \in Int BY <1>1, <1>2
<1>4. PICK r : r = SubSeq(s, 1, n - 1) BY Zenon
<1>5. r \in Seq(Int) /\ Len(r) = n - 1 /\ \A i \in 1 .. n - 1 : r[i] = s[i]
  BY <1>3, <1>4, SubSeqProperties
<1>6. \A i \in 1 .. Len(r) : r[i] = s[IF i < n THEN i ELSE i + 1] BY <1>3, <1>5
<1>7. Fewer(r, s, {s[n]}) BY <1>2, <1>3, <1>5, <1>6, FewerAt, Zenon
<1>8. Front(s) = r /\ Last(s) = s[n] BY <1>2, <1>4 DEF Front, Last
<1> QED BY <1>3, <1>7, <1>8 DEF ToSet

(* Lemma: a list from which nothing of X is taken stays as it is.          *)
LEMMA SameFewer ==
  ASSUME NEW s, Once(s), NEW X, X \cap ToSet(s) = {}
  PROVE  Fewer(s, s, X)
BY DEF Fewer

(* Lemma: two removals from a list make one.                               *)
LEMMA FewerFewer ==
  ASSUME NEW r, NEW s, NEW u, NEW X, NEW Y, Fewer(s, u, X), Fewer(r, s, Y)
  PROVE  Fewer(r, u, X \cup Y)
BY DEF Fewer

(* Lemma: unlink_chunk takes one chunk out of a list and keeps the order.  *)
LEMMA UnlinkFewer ==
  ASSUME NEW s, Once(s), NEW c
  PROVE  Fewer(Unlink(s, c), s, {c})
<1>1. s \in Seq(Int) /\ DOMAIN s = 1 .. Len(s) BY DEF Once
<1>2. CASE \E i \in 1 .. Len(s) : s[i] = c
  <2>1. PICK k : k = SelectInSeq(s, LAMBDA v : v = c) BY Zenon
  <2>2. k \in DOMAIN s /\ s[k] = c
    <3>1. PICK I : I = {i \in 1 .. Len(s) : s[i] = c} BY Zenon
    <3>2. I # {} /\ I \subseteq Nat /\ \A i \in I : i \in 1 .. Len(s) /\ s[i] = c BY <1>2, <3>1
    <3>3. \E m \in I : \A i \in I : m <= i BY <3>2, LeastNumber, Zenon
    <3>4. k \in I
      BY <2>1, <3>1, <3>2, <3>3, Zenon DEF SelectInSeq, Min
    <3> QED BY <1>1, <3>2, <3>4
  <2>3. Unlink(s, c) = RemoveAt(s, k) BY <1>2, <2>1 DEF Unlink, RemoveFirst
  <2> QED BY <2>2, <2>3, RemoveAtFewer
<1>3. CASE ~(\E i \in 1 .. Len(s) : s[i] = c)
  <2>1. Unlink(s, c) = s BY <1>3 DEF Unlink, RemoveFirst
  <2>2. c \notin ToSet(s) BY <1>1, <1>3 DEF ToSet
  <2> QED BY <2>1, <2>2, SameFewer
<1> QED BY <1>2, <1>3

(* Lemma: a merge takes the two neighbours it merged out of a list.        *)
LEMMA MergedFewer ==
  ASSUME NEW s, Once(s), NEW m
  PROVE  Fewer(Merged(s, m), s, {m.prev, m.next})
<1>1. PICK r : r = Unlink(s, m.prev) OBVIOUS
<1>2. Fewer(r, s, {m.prev}) /\ Once(r) BY <1>1, UnlinkFewer DEF Fewer
<1>3. Fewer(Unlink(r, m.next), r, {m.next}) BY <1>2, UnlinkFewer
<1>4. Fewer(Unlink(r, m.next), s, {m.prev} \cup {m.next}) BY <1>2, <1>3, FewerFewer
<1>5. {m.prev} \cup {m.next} = {m.prev, m.next} OBVIOUS
<1>6. Merged(s, m) = Unlink(r, m.next) BY <1>1 DEF Merged
<1> QED BY <1>4, <1>5, <1>6

(* r is s with c put in somewhere.                                         *)
More(r, s, c) ==
  /\ Once(r) /\ ToSet(r) = ToSet(s) \cup {c}
  /\ \A a, b : Before(r, a, b) => Before(s, a, b) \/ a = c \/ b = c

(* Lemma: a push puts the new chunk before all others.                     *)
LEMMA PushMore ==
  ASSUME NEW s, Once(s), NEW c \in Int, c \notin ToSet(s)
  PROVE  More(<<c>> \o s, s, c) /\ \A a, b : Before(<<c>> \o s, a, b) => b # c
<1>1. s \in Seq(Int) /\ Len(s) \in Nat /\ DOMAIN s = 1 .. Len(s) BY DEF Once
<1>2. <<c>> \in Seq(Int) /\ Len(<<c>>) = 1 /\ <<c>>[1] = c OBVIOUS
<1>3. PICK r : r = <<c>> \o s BY Zenon
<1>4. r \in Seq(Int) /\ Len(r) = 1 + Len(s)
      /\ \A i \in 1 .. 1 + Len(s) : r[i] = IF i <= 1 THEN <<c>>[i] ELSE s[i - 1]
  BY <1>1, <1>2, <1>3, ConcatProperties
<1>5. DOMAIN r = 1 .. Len(s) + 1 /\ r[1] = c /\ 1 \in DOMAIN r BY <1>1, <1>2, <1>4
<1>6. \A i \in DOMAIN r : i # 1 => i - 1 \in DOMAIN s /\ r[i] = s[i - 1] BY <1>1, <1>4, <1>5
<1>7. \A j \in DOMAIN s : j + 1 \in DOMAIN r /\ r[j + 1] = s[j]
  <2> TAKE j \in DOMAIN s
  <2>1. j \in Nat /\ j + 1 \in DOMAIN r /\ j + 1 # 1 /\ (j + 1) - 1 = j BY <1>1, <1>5
  <2> QED BY <1>6, <2>1
<1>8. \A i \in DOMAIN r : i # 1 => r[i] \in ToSet(s) BY <1>6 DEF ToSet
<1>9. IsInjective(r)
  <2> SUFFICES ASSUME NEW i \in DOMAIN r, NEW j \in DOMAIN r, r[i] = r[j] PROVE i = j
    BY DEF IsInjective
  <2>1. i \in Nat /\ j \in Nat BY <1>5
  <2>2. CASE i = 1 \/ j = 1 BY <1>5, <1>8, <2>2
  <2>3. CASE i # 1 /\ j # 1
    <3>1. i - 1 = j - 1 BY <1>6, <2>3 DEF Once, IsInjective
    <3> QED BY <2>1, <3>1
  <2> QED BY <2>2, <2>3
<1>10. ToSet(r) = ToSet(s) \cup {c} BY <1>5, <1>6, <1>7 DEF ToSet
<1>11. ASSUME NEW a, NEW b, Before(r, a, b) PROVE b # c /\ (Before(s, a, b) \/ a = c)
  <2>1. PICK i \in DOMAIN r, j \in DOMAIN r : i < j /\ r[i] = a /\ r[j] = b
    BY <1>11 DEF Before
  <2>2. i \in Nat /\ j \in Nat /\ j # 1 BY <1>5, <2>1
  <2>3. b \in ToSet(s) BY <1>8, <2>1, <2>2
  <2>4. CASE i # 1
    <3>1. i - 1 < j - 1 BY <2>1, <2>2
    <3> QED BY <1>6, <2>1, <2>2, <2>3, <2>4, <3>1 DEF Before
  <2> QED BY <1>5, <2>1, <2>3, <2>4
<1> QED BY <1>3, <1>4, <1>9, <1>10, <1>11 DEF More, Once

(* Lemma: a list that got c at place k.                                    *)
LEMMA MoreAt ==
  ASSUME NEW s, Once(s), NEW c \in Int, c \notin ToSet(s), NEW k \in 1 .. Len(s) + 1,
         NEW r \in Seq(Int), Len(r) = Len(s) + 1,
         \A i \in 1 .. Len(s) : i < k => r[i] = s[i],
         r[k] = c,
         \A i \in 1 .. Len(s) : i >= k => r[i + 1] = s[i]
  PROVE  /\ More(r, s, c)
         /\ \A a : Before(r, a, c) => \E j \in DOMAIN s : j < k /\ s[j] = a
         /\ \A b : Before(r, c, b) => \E j \in DOMAIN s : j >= k /\ s[j] = b
<1>1. /\ s \in Seq(Int) /\ Len(s) \in Nat /\ DOMAIN s = 1 .. Len(s)
      /\ DOMAIN r = 1 .. Len(s) + 1 /\ k \in Nat /\ k \in DOMAIN r
  BY DEF Once
<1>2. \A i \in DOMAIN r : i < k => i \in DOMAIN s /\ r[i] = s[i]
  <2> TAKE i \in DOMAIN r
  <2>1. i < k => i \in 1 .. Len(s) BY <1>1
  <2> QED BY <1>1, <2>1
<1>3. \A i \in DOMAIN r : i > k => i - 1 \in DOMAIN s /\ i - 1 >= k /\ r[i] = s[i - 1]
  <2> TAKE i \in DOMAIN r
  <2> HAVE i > k
  <2>1. i - 1 \in 1 .. Len(s) /\ i - 1 >= k /\ (i - 1) + 1 = i BY <1>1, SMTT(40)
  <2>2. r[(i - 1) + 1] = s[i - 1] BY <2>1, Zenon
  <2> QED BY <1>1, <2>1, <2>2
<1>4. \A i \in DOMAIN r : i \in Nat /\ (i < k \/ i = k \/ i > k) BY <1>1
<1>5. \A i \in DOMAIN r : i # k => r[i] \in ToSet(s) /\ r[i] # c
  BY <1>2, <1>3, <1>4 DEF ToSet
<1>6. IsInjective(s) BY DEF Once
<1>7. IsInjective(r)
  <2> SUFFICES ASSUME NEW i \in DOMAIN r, NEW j \in DOMAIN r, r[i] = r[j] PROVE i = j
    BY DEF IsInjective
  <2>1. CASE i = k \/ j = k BY <1>5, <2>1
  <2>2. CASE i < k /\ j < k BY <1>2, <1>6, <2>2 DEF IsInjective
  <2>3. CASE i > k /\ j > k
    <3>1. i - 1 = j - 1 BY <1>3, <1>6, <2>3 DEF IsInjective
    <3> QED BY <1>4, <3>1
  <2>4. CASE i < k /\ j > k
    <3>1. i = j - 1 BY <1>2, <1>3, <1>6, <2>4 DEF IsInjective
    <3> QED BY <1>1, <1>3, <1>4, <2>4, <3>1
  <2>5. CASE i > k /\ j < k
    <3>1. i - 1 = j BY <1>2, <1>3, <1>6, <2>5 DEF IsInjective
    <3> QED BY <1>1, <1>3, <1>4, <2>5, <3>1
  <2> QED BY <1>4, <2>1, <2>2, <2>3, <2>4, <2>5
<1>8. ASSUME NEW j \in DOMAIN s PROVE \E i \in DOMAIN r : r[i] = s[j]
  <2>1. j \in Nat /\ j \in 1 .. Len(s) /\ j \in DOMAIN r /\ j + 1 \in DOMAIN r BY <1>1
  <2>2. CASE j < k BY <2>1, <2>2
  <2>3. CASE j >= k BY <2>1, <2>3
  <2> QED BY <1>1, <2>1, <2>2, <2>3
<1>9. ToSet(r) = ToSet(s) \cup {c}
  <2>1. \A x \in ToSet(r) : x \in ToSet(s) \cup {c} BY <1>5 DEF ToSet
  <2>2. \A x \in ToSet(s) : x \in ToSet(r) BY <1>8 DEF ToSet
  <2>3. c \in ToSet(r) BY <1>1, Zenon DEF ToSet
  <2> QED BY <2>1, <2>2, <2>3, Zenon
<1>10. ASSUME NEW a, NEW b, Before(r, a, b)
       PROVE  /\ a = c => \E j \in DOMAIN s : j >= k /\ s[j] = b
              /\ b = c => \E j \in DOMAIN s : j < k /\ s[j] = a
              /\ a # c /\ b # c => Before(s, a, b)
  <2>1. PICK i \in DOMAIN r, j \in DOMAIN r : i < j /\ r[i] = a /\ r[j] = b
    BY <1>10 DEF Before
  <2>2. i \in Nat /\ j \in Nat BY <1>4
  <2>3. a = c => i = k BY <1>5, <2>1
  <2>4. b = c => j = k BY <1>5, <2>1
  <2>5. a = c => \E m \in DOMAIN s : m >= k /\ s[m] = b BY <1>3, <2>1, <2>2, <2>3
  <2>6. b = c => \E m \in DOMAIN s : m < k /\ s[m] = a BY <1>2, <2>1, <2>2, <2>4
  <2>7. ASSUME a # c, b # c PROVE Before(s, a, b)
    <3>0. i # k /\ j # k BY <1>1, <2>1, <2>7, Zenon
    <3>1. CASE j < k
      <4>1. i < k BY <1>1, <2>1, <2>2, <3>1
      <4> QED BY <1>2, <2>1, <3>1, <4>1 DEF Before
    <3>2. CASE i > k
      <4>1. j > k /\ i - 1 < j - 1 BY <1>1, <2>1, <2>2, <3>2
      <4> QED BY <1>3, <2>1, <3>2, <4>1 DEF Before
    <3>3. CASE i < k /\ j > k
      <4>1. i < j - 1 BY <1>1, <2>2, <3>3
      <4> QED BY <1>2, <1>3, <2>1, <3>3, <4>1 DEF Before
    <3> QED BY <1>4, <3>0, <3>1, <3>2, <3>3
  <2> QED BY <2>5, <2>6, <2>7
<1> QED BY <1>7, <1>9, <1>10 DEF More, Once

(* Lemma: an insertion puts the new chunk after those before its place     *)
(* only.                                                                   *)
LEMMA InsertMore ==
  ASSUME NEW s, Once(s), NEW c \in Int, c \notin ToSet(s), NEW k \in 1 .. Len(s) + 1
  PROVE  /\ More(InsertAt(s, k, c), s, c)
         /\ \A a : Before(InsertAt(s, k, c), a, c) => \E j \in DOMAIN s : j < k /\ s[j] = a
         /\ \A b : Before(InsertAt(s, k, c), c, b) => \E j \in DOMAIN s : j >= k /\ s[j] = b
<1>1. s \in Seq(Int) /\ Len(s) \in Nat BY DEF Once
<1>2. PICK n : n = Len(s) BY Zenon
<1>3. n \in Nat /\ k \in 1 .. n + 1 /\ k \in Nat /\ \A i \in 1 .. n : s[i] \in Int BY <1>1, <1>2
<1>4. PICK x : x = SubSeq(s, 1, k - 1) BY Zenon
<1>5. PICK y : y = SubSeq(s, k, n) BY Zenon
<1>6. x \in Seq(Int) /\ Len(x) = k - 1 /\ \A i \in 1 .. (k - 1) : x[i] = s[i]
  BY <1>3, <1>4, SubSeqProperties
<1>7. y \in Seq(Int) /\ Len(y) = n - k + 1 /\ \A i \in 1 .. (n - k + 1) : y[i] = s[k + i - 1]
  BY <1>3, <1>5, SubSeqProperties
<1>8. <<c>> \in Seq(Int) /\ Len(<<c>>) = 1 /\ <<c>>[1] = c OBVIOUS
<1>9. PICK z : z = x \o <<c>> BY Zenon
<1>10. z \in Seq(Int) /\ Len(z) = (k - 1) + 1
       /\ \A i \in 1 .. (k - 1) + 1 : z[i] = IF i <= k - 1 THEN x[i] ELSE <<c>>[i - (k - 1)]
  BY <1>6, <1>8, <1>9, ConcatProperties
<1>11. Len(z) = k /\ z[k] = c /\ \A i \in 1 .. (k - 1) : z[i] = s[i]
  BY <1>3, <1>6, <1>8, <1>10
<1>12. PICK r : r = z \o y BY Zenon
<1>13. r \in Seq(Int) /\ Len(r) = k + (n - k + 1)
       /\ \A i \in 1 .. k + (n - k + 1) : r[i] = IF i <= k THEN z[i] ELSE y[i - k]
  <2>1. r \in Seq(Int) /\ Len(r) = Len(z) + Len(y)
        /\ \A i \in 1 .. Len(z) + Len(y) : r[i] = IF i <= Len(z) THEN z[i] ELSE y[i - Len(z)]
    BY <1>7, <1>10, <1>12, ConcatProperties, Zenon
  <2> QED BY <1>7, <1>11, <2>1
<1>14. Len(r) = n + 1 BY <1>3, <1>13
<1>15. r[k] = c /\ \A i \in 1 .. n : i < k => r[i] = s[i]
  BY <1>3, <1>11, <1>13
<1>16. ASSUME NEW i \in 1 .. n, i >= k PROVE r[i + 1] = s[i]
  <2>1. i + 1 \in 1 .. k + (n - k + 1) /\ ~(i + 1 <= k) /\ (i + 1) - k \in 1 .. (n - k + 1)
        /\ k + ((i + 1) - k) - 1 = i
    BY <1>3, <1>16
  <2>2. r[i + 1] = y[(i + 1) - k] BY <1>13, <2>1, Zenon
  <2>3. y[(i + 1) - k] = s[k + ((i + 1) - k) - 1] BY <1>7, <2>1, Zenon
  <2> QED BY <2>1, <2>2, <2>3, Zenon
<1>17. InsertAt(s, k, c) = r BY <1>2, <1>4, <1>5, <1>9, <1>12 DEF InsertAt
<1>18. /\ r \in Seq(Int) /\ Len(r) = Len(s) + 1 /\ r[k] = c
       /\ \A i \in 1 .. Len(s) : i < k => r[i] = s[i]
       /\ \A i \in 1 .. Len(s) : i >= k => r[i + 1] = s[i]
  BY <1>2, <1>13, <1>14, <1>15, <1>16
<1>19. /\ More(r, s, c)
       /\ \A a : Before(r, a, c) => \E j \in DOMAIN s : j < k /\ s[j] = a
       /\ \A b : Before(r, c, b) => \E j \in DOMAIN s : j >= k /\ s[j] = b
  BY <1>18, MoreAt
<1> QED BY <1>17, <1>19

(* Lemma: an append puts the new chunk after all others.                   *)
LEMMA AppendMore ==
  ASSUME NEW s, Once(s), NEW c \in Int, c \notin ToSet(s)
  PROVE  /\ More(Append(s, c), s, c)
         /\ \A b : ~Before(Append(s, c), c, b)
<1>1. s \in Seq(Int) /\ Len(s) \in Nat /\ DOMAIN s = 1 .. Len(s) BY DEF Once
<1>2. PICK r : r = Append(s, c) BY Zenon
<1>3. r \in Seq(Int) /\ Len(r) = Len(s) + 1 /\ r[Len(s) + 1] = c
      /\ \A i \in 1 .. Len(s) : r[i] = s[i]
  BY <1>1, <1>2
<1>4. PICK k : k = Len(s) + 1 OBVIOUS
<1>5. k \in 1 .. Len(s) + 1 /\ \A i \in 1 .. Len(s) : i < k /\ ~(i >= k) BY <1>1, <1>4
<1>6. /\ More(r, s, c)
      /\ \A b : Before(r, c, b) => \E j \in DOMAIN s : j >= k /\ s[j] = b
  BY <1>3, <1>4, <1>5, MoreAt
<1> QED BY <1>1, <1>2, <1>5, <1>6

Descends(s, h) == \A a, b : Before(s, a, b) => h[a].sz >= h[b].sz

(* Lemma: the place of a chunk in its bin.                                 *)
LEMMA PlacedMore ==
  ASSUME NEW s, Once(s), NEW c \in Int, c \notin ToSet(s),
         hdr[c].sz \in Nat, \A d \in ToSet(s) : hdr[d].sz \in Nat,
         InSmallbinRange(hdr[c].sz) => \A d \in ToSet(s) : hdr[d].sz = hdr[c].sz,
         Descends(s, hdr)
  PROVE  More(Placed(s, c), s, c) /\ Descends(Placed(s, c), hdr)
<1>1. PICK sz \in Nat : sz = hdr[c].sz OBVIOUS
<1>2. PICK notGt : notGt = {i \in DOMAIN s : hdr[s[i]].sz <= sz} BY Zenon
<1>3. s \in Seq(Int) /\ Len(s) \in Nat /\ DOMAIN s = 1 .. Len(s)
      /\ \A i \in DOMAIN s : s[i] \in ToSet(s)
  BY DEF Once, ToSet
<1>4. CASE InSmallbinRange(sz)
  <2>1. PICK r : r = <<c>> \o s BY Zenon
  <2>2. More(r, s, c) BY <2>1, PushMore
  <2>3. \A d \in ToSet(r) : hdr[d].sz = sz BY <1>1, <1>4, <2>2 DEF More
  <2>4. \A a, b : Before(r, a, b) => a \in ToSet(r) /\ b \in ToSet(r) BY DEF Before, ToSet
  <2>5. Descends(r, hdr) BY <1>1, <2>3, <2>4 DEF Descends
  <2>6. Placed(s, c) = r BY <1>1, <1>4, <2>1 DEF Placed
  <2> QED BY <2>2, <2>5, <2>6
<1>5. CASE ~InSmallbinRange(sz) /\ notGt = {}
  <2>1. PICK r : r = Append(s, c) BY Zenon
  <2>2. More(r, s, c) /\ \A b : ~Before(r, c, b) BY <2>1, AppendMore
  <2>3. Placed(s, c) = r BY <1>1, <1>2, <1>5, <2>1, Zenon DEF Placed
  <2>4. \A d \in ToSet(s) : hdr[d].sz >= sz
    <3> TAKE d \in ToSet(s)
    <3>1. PICK i \in DOMAIN s : s[i] = d BY DEF ToSet
    <3>2. ~(hdr[d].sz <= sz) BY <1>2, <1>5, <3>1
    <3> QED BY <3>2
  <2>5. ASSUME NEW a, NEW b, Before(r, a, b) PROVE hdr[a].sz >= hdr[b].sz
    <3>1. a # c /\ a \in ToSet(r) BY <2>2, <2>5 DEF Before, ToSet
    <3>2. a \in ToSet(s) BY <2>2, <3>1 DEF More
    <3>3. CASE b = c BY <1>1, <2>4, <3>2, <3>3
    <3>4. CASE b # c BY <2>2, <2>5, <3>1, <3>4 DEF More, Descends
    <3> QED BY <3>3, <3>4
  <2> QED BY <2>2, <2>3, <2>5 DEF Descends
<1>6. CASE ~InSmallbinRange(sz) /\ notGt # {}
  <2>1. PICK i : i = CHOOSE n \in notGt : \A j \in notGt : n <= j OBVIOUS
  <2>2. notGt \subseteq Nat BY <1>2, <1>3
  <2>3. i \in notGt /\ \A j \in notGt : i <= j
    <3>1. \E n \in notGt : \A j \in notGt : n <= j BY <1>6, <2>2, LeastNumber, Zenon
    <3> QED BY <2>1, <3>1
  <2>4. i \in 1 .. Len(s) /\ i \in Nat /\ hdr[s[i]].sz \in Nat /\ hdr[s[i]].sz <= sz
    BY <1>2, <1>3, <2>3
  <2>5. PICK k : k = IF hdr[s[i]].sz = sz THEN i + 1 ELSE i OBVIOUS
  <2>6. k \in 1 .. Len(s) + 1 /\ k \in Nat BY <1>3, <2>4, <2>5
  <2>7. PICK r : r = InsertAt(s, k, c) OBVIOUS
  <2>8. /\ More(r, s, c)
        /\ \A a : Before(r, a, c) => \E j \in DOMAIN s : j < k /\ s[j] = a
        /\ \A b : Before(r, c, b) => \E j \in DOMAIN s : j >= k /\ s[j] = b
    BY <2>6, <2>7, InsertMore
  <2>9. Placed(s, c) = r
    <3>1. notGt = {n \in DOMAIN s : hdr[s[n]].sz <= hdr[c].sz} /\ ~InSmallbinRange(hdr[c].sz)
      BY <1>1, <1>2, <1>6
    <3>2. k = IF hdr[s[i]].sz = hdr[c].sz THEN i + 1 ELSE i BY <1>1, <2>5
    <3> DEFINE S == {n \in DOMAIN s : hdr[s[n]].sz <= hdr[c].sz}
               e == CHOOSE n \in S : \A j \in S : n <= j
    <3>3. Placed(s, c) = IF InSmallbinRange(hdr[c].sz) THEN <<c>> \o s
                         ELSE IF S = {} THEN Append(s, c)
                         ELSE InsertAt(s, IF hdr[s[e]].sz = hdr[c].sz THEN e + 1 ELSE e, c)
      BY Zenon DEF Placed
    <3>4. notGt = S /\ S # {} BY <1>6, <3>1
    <3>5. i = e BY <2>1, <3>4, Zenon
    <3> HIDE DEF S, e
    <3>6. Placed(s, c) = InsertAt(s, IF hdr[s[i]].sz = hdr[c].sz THEN i + 1 ELSE i, c)
      BY <3>1, <3>3, <3>4, <3>5
    <3> QED BY <2>7, <3>2, <3>6
  <2>10. ASSUME NEW j \in DOMAIN s, j < k PROVE hdr[s[j]].sz >= sz
    <3>1. j \in Nat /\ hdr[s[j]].sz \in Nat BY <1>3
    <3>2. CASE j = i /\ k = i + 1 BY <2>4, <2>5, <3>2
    <3>3. CASE j < i
      <4>1. j \notin notGt BY <2>3, <2>4, <3>1, <3>3
      <4> QED BY <1>2, <3>1, <4>1
    <3> QED BY <2>4, <2>5, <2>10, <3>1, <3>2, <3>3
  <2>11. ASSUME NEW j \in DOMAIN s, j >= k PROVE hdr[s[j]].sz <= sz
    <3>1. j \in Nat /\ hdr[s[j]].sz \in Nat BY <1>3
    <3>2. CASE j = i BY <2>4, <3>2
    <3>3. CASE j > i
      <4>1. Before(s, s[i], s[j]) BY <1>3, <2>4, <3>3, Zenon DEF Before
      <4>2. hdr[s[i]].sz >= hdr[s[j]].sz BY <4>1 DEF Descends
      <4> QED BY <2>4, <3>1, <4>2
    <3> QED BY <2>4, <2>5, <2>11, <3>1, <3>2, <3>3
  <2>12. ASSUME NEW a, NEW b, Before(r, a, b) PROVE hdr[a].sz >= hdr[b].sz
    <3>1. CASE a = c
      <4>1. PICK j \in DOMAIN s : j >= k /\ s[j] = b BY <2>8, <2>12, <3>1
      <4>2. hdr[b].sz <= sz /\ hdr[b].sz \in Nat BY <1>3, <2>11, <4>1
      <4> QED BY <1>1, <3>1, <4>2
    <3>2. CASE b = c
      <4>1. PICK j \in DOMAIN s : j < k /\ s[j] = a BY <2>8, <2>12, <3>2
      <4> QED BY <1>1, <2>10, <3>2, <4>1
    <3>3. CASE a # c /\ b # c BY <2>8, <2>12, <3>3 DEF More, Descends
    <3> QED BY <3>1, <3>2, <3>3
  <2> QED BY <2>8, <2>9, <2>12 DEF Descends
<1> QED BY <1>4, <1>5, <1>6

(* Lemma: what descends still does when it has lost chunks.                *)
LEMMA FewerDescends ==
  ASSUME NEW r, NEW s, NEW X, Fewer(r, s, X), NEW h, NEW g, Descends(s, h),
         \A c \in ToSet(r) : g[c].sz = h[c].sz
  PROVE  Descends(r, g)
<1>1. \A a, b : Before(r, a, b) => Before(s, a, b) /\ a \in ToSet(r) /\ b \in ToSet(r)
  BY DEF Fewer, Before, ToSet
<1> QED BY <1>1 DEF Descends

-----------------------------------------------------------------------------
(* Places.                                                                 *)
TopPl == Place("top", None, 0)
LivePl == Place("live", None, 0)
UnsortedPl == Place("unsorted", None, 0)
BinPl(i) == Place("bin", None, i)
FastPl(s) == Place("fast", None, s)
CachePl(t, s) == Place("cache", t, s)
PPl(t) == Place("p", t, 0)
VPl(t) == Place("v", t, 0)
ChainPl(t) == Place("chain", t, 0)

(* Lemma: these are the places, and they differ.                           *)
LEMMA PlacesAre ==
  /\ {TopPl, LivePl, UnsortedPl} \subseteq Places
  /\ \A i \in BinIndices : BinPl(i) \in Places
  /\ \A s \in FastSizes : FastPl(s) \in Places
  /\ \A t \in Threads, s \in TcacheSizes : CachePl(t, s) \in Places
  /\ \A t \in Threads : PPl(t) \in Places /\ VPl(t) \in Places /\ ChainPl(t) \in Places
  /\ \A pl \in Places :
       \/ pl \in {TopPl, LivePl, UnsortedPl}
       \/ \E i \in BinIndices : pl = BinPl(i)
       \/ \E s \in FastSizes : pl = FastPl(s)
       \/ \E t \in Threads, s \in TcacheSizes : pl = CachePl(t, s)
       \/ \E t \in Threads : pl = PPl(t) \/ pl = VPl(t) \/ pl = ChainPl(t)
BY DEF Places, TopPl, LivePl, UnsortedPl, BinPl, FastPl, CachePl, PPl, VPl, ChainPl

(* Lemma: the names of the places tell them apart.                         *)
LEMMA PlacesAt ==
  /\ TopPl.at = "top" /\ LivePl.at = "live" /\ UnsortedPl.at = "unsorted"
  /\ \A i : BinPl(i).at = "bin" /\ BinPl(i).n = i
  /\ \A s : FastPl(s).at = "fast" /\ FastPl(s).n = s
  /\ \A t, s : CachePl(t, s).at = "cache" /\ CachePl(t, s).t = t /\ CachePl(t, s).n = s
  /\ \A t : /\ PPl(t).at = "p" /\ PPl(t).t = t
            /\ VPl(t).at = "v" /\ VPl(t).t = t
            /\ ChainPl(t).at = "chain" /\ ChainPl(t).t = t
BY DEF Place, TopPl, LivePl, UnsortedPl, BinPl, FastPl, CachePl, PPl, VPl, ChainPl

(* Lemma: what is at them.                                                 *)
LEMMA ListsAt ==
  /\ ListAt(TopPl) = <<>> /\ ListAt(LivePl) = <<>> /\ ListAt(UnsortedPl) = unsorted
  /\ \A i : ListAt(BinPl(i)) = bins[i]
  /\ \A s : ListAt(FastPl(s)) = fastbins[s]
  /\ \A t, s : ListAt(CachePl(t, s)) = tcache[t][s]
  /\ \A t : ListAt(PPl(t)) = <<>> /\ ListAt(VPl(t)) = <<>> /\ ListAt(ChainPl(t)) = op[t].chain
BY PlacesAt DEF ListAt

(* Lemma: the chunks at each place, read off the state.                    *)
LEMMA ChunksAre ==
  /\ ChunksAt(TopPl) = {top} /\ ChunksAt(LivePl) = DOMAIN live
  /\ ChunksAt(UnsortedPl) = ToSet(unsorted)
  /\ \A i : ChunksAt(BinPl(i)) = ToSet(bins[i])
  /\ \A s : ChunksAt(FastPl(s)) = ToSet(fastbins[s])
  /\ \A t, s : ChunksAt(CachePl(t, s)) = ToSet(tcache[t][s])
  /\ \A t : /\ ChunksAt(PPl(t)) = {op[t].p} \ {None} /\ ChunksAt(VPl(t)) = {op[t].v} \ {None}
            /\ ChunksAt(ChainPl(t)) = ToSet(op[t].chain)
<1>1. ChunksAt(TopPl) = {top} /\ ChunksAt(LivePl) = DOMAIN live
  BY PlacesAt DEF ChunksAt
<1>2. ChunksAt(UnsortedPl) = ToSet(unsorted)
  BY PlacesAt, ListsAt DEF ChunksAt
<1>3. \A i : ChunksAt(BinPl(i)) = ToSet(bins[i])
  BY PlacesAt, ListsAt DEF ChunksAt
<1>4. \A s : ChunksAt(FastPl(s)) = ToSet(fastbins[s])
  BY PlacesAt, ListsAt DEF ChunksAt
<1>5. \A t, s : ChunksAt(CachePl(t, s)) = ToSet(tcache[t][s])
  BY PlacesAt, ListsAt DEF ChunksAt
<1>6. \A t : ChunksAt(PPl(t)) = {op[t].p} \ {None} /\ ChunksAt(VPl(t)) = {op[t].v} \ {None}
  BY PlacesAt DEF ChunksAt
<1>7. \A t : ChunksAt(ChainPl(t)) = ToSet(op[t].chain)
  BY PlacesAt, ListsAt DEF ChunksAt
<1> QED BY <1>1, <1>2, <1>3, <1>4, <1>5, <1>6, <1>7

(* Lemma: the lists of the places after a step.                            *)
LEMMA ListsAtNext ==
  /\ ListAt(TopPl)' = <<>> /\ ListAt(LivePl)' = <<>> /\ ListAt(UnsortedPl)' = unsorted'
  /\ \A i : ListAt(BinPl(i))' = bins'[i]
  /\ \A s : ListAt(FastPl(s))' = fastbins'[s]
  /\ \A t, s : ListAt(CachePl(t, s))' = tcache'[t][s]
  /\ \A t : /\ ListAt(PPl(t))' = <<>> /\ ListAt(VPl(t))' = <<>>
            /\ ListAt(ChainPl(t))' = op'[t].chain
BY PlacesAt DEF ListAt

(* Lemma: the chunks at each place after a step.                           *)
LEMMA ChunksAreNext ==
  /\ ChunksAt(TopPl)' = {top'} /\ ChunksAt(LivePl)' = DOMAIN live'
  /\ ChunksAt(UnsortedPl)' = ToSet(unsorted')
  /\ \A i : ChunksAt(BinPl(i))' = ToSet(bins'[i])
  /\ \A s : ChunksAt(FastPl(s))' = ToSet(fastbins'[s])
  /\ \A t, s : ChunksAt(CachePl(t, s))' = ToSet(tcache'[t][s])
  /\ \A t : /\ ChunksAt(PPl(t))' = {op'[t].p} \ {None}
            /\ ChunksAt(VPl(t))' = {op'[t].v} \ {None}
            /\ ChunksAt(ChainPl(t))' = ToSet(op'[t].chain)
BY PlacesAt, ListsAtNext DEF ChunksAt

(* Every chunk is at one place, and once.                                  *)
Owned ==
  /\ \A pl \in Places : ChunksAt(pl) \subseteq DOMAIN hdr
  /\ \A c \in DOMAIN hdr : \E pl \in Places : c \in ChunksAt(pl)
  /\ \A pl, pr \in Places : pl # pr => ChunksAt(pl) \cap ChunksAt(pr) = {}
ListsOnce == \A pl \in Places : Once(ListAt(pl))

(* A step takes the chunks of G from where they are, and afterwards there  *)
(* are those of N, each at dest.                                           *)
Rehomes(G, N, dest) ==
  /\ DOMAIN hdr' = (DOMAIN hdr \ G) \cup N /\ N \cap (DOMAIN hdr \ G) = {}
  /\ \A c \in DOMAIN hdr \ G : hdr'[c].sz = hdr[c].sz
  /\ \A c \in N : dest[c] \in Places
  /\ \A pl \in Places : ChunksAt(pl)' = (ChunksAt(pl) \ G) \cup {c \in N : dest[c] = pl}

(* Lemma: a step that takes a set of chunks from their places and puts     *)
(* each of its new chunks at one place leaves every chunk with one owner.  *)
LEMMA RehomesOwned ==
  ASSUME Owned, NEW G, NEW N, NEW dest, Rehomes(G, N, dest)
  PROVE  Owned'
<1>1. \A pl \in Places : ChunksAt(pl)' \subseteq DOMAIN hdr'
  BY DEF Owned, Rehomes
<1>2. ASSUME NEW c \in DOMAIN hdr' PROVE \E pl \in Places : c \in ChunksAt(pl)'
  <2>1. CASE c \in N BY <2>1 DEF Rehomes
  <2>2. CASE c \in DOMAIN hdr \ G BY <2>2 DEF Rehomes, Owned
  <2> QED BY <1>2, <2>1, <2>2 DEF Rehomes
<1>3. ASSUME NEW pl \in Places, NEW pr \in Places, pl # pr, NEW c,
             c \in ChunksAt(pl)', c \in ChunksAt(pr)'
      PROVE  FALSE
  <2>1. CASE c \in N
    <3>1. \A p \in Places : c \in ChunksAt(p) \ G => c \in DOMAIN hdr \ G BY DEF Owned
    <3> QED BY <1>3, <2>1, <3>1 DEF Rehomes
  <2>2. CASE c \notin N BY <1>3, <2>2 DEF Rehomes, Owned
  <2> QED BY <2>1, <2>2
<1>4. Places' = Places BY DEF Places, Place, BinIndices, FastSizes, TcacheSizes
<1>5. (\A pl \in Places : ChunksAt(pl) \subseteq DOMAIN hdr)' BY <1>1, <1>4
<1> QED BY <1>1, <1>2, <1>3 DEF Owned

(* Nothing happens at a place outside Q.                                   *)
Only(Q) ==
  /\ top' = top \/ TopPl \in Q
  /\ DOMAIN live' = DOMAIN live \/ LivePl \in Q
  /\ unsorted' = unsorted \/ UnsortedPl \in Q
  /\ \A i \in BinIndices : bins'[i] = bins[i] \/ BinPl(i) \in Q
  /\ \A s \in FastSizes : fastbins'[s] = fastbins[s] \/ FastPl(s) \in Q
  /\ \A t \in Threads, s \in TcacheSizes : tcache'[t][s] = tcache[t][s] \/ CachePl(t, s) \in Q
  /\ \A t \in Threads :
       /\ op'[t].p = op[t].p \/ PPl(t) \in Q
       /\ op'[t].v = op[t].v \/ VPl(t) \in Q
       /\ op'[t].chain = op[t].chain \/ ChainPl(t) \in Q

(* Lemma: places outside Q stay as they are.                               *)
LEMMA Elsewhere ==
  ASSUME NEW Q, Only(Q), NEW pl \in Places, pl \notin Q
  PROVE  ChunksAt(pl)' = ChunksAt(pl) /\ ListAt(pl)' = ListAt(pl)
<1>1. CASE pl \in {TopPl, LivePl, UnsortedPl}
  BY <1>1, ListsAt, ListsAtNext, ChunksAre, ChunksAreNext, Zenon DEF Only
<1>2. ASSUME NEW i \in BinIndices, pl = BinPl(i)
      PROVE  ChunksAt(pl)' = ChunksAt(pl) /\ ListAt(pl)' = ListAt(pl)
  BY <1>2, ListsAt, ListsAtNext, ChunksAre, ChunksAreNext DEF Only
<1>3. ASSUME NEW s \in FastSizes, pl = FastPl(s)
      PROVE  ChunksAt(pl)' = ChunksAt(pl) /\ ListAt(pl)' = ListAt(pl)
  BY <1>3, ListsAt, ListsAtNext, ChunksAre, ChunksAreNext DEF Only
<1>4. ASSUME NEW t \in Threads, NEW s \in TcacheSizes, pl = CachePl(t, s)
      PROVE  ChunksAt(pl)' = ChunksAt(pl) /\ ListAt(pl)' = ListAt(pl)
  BY <1>4, ListsAt, ListsAtNext, ChunksAre, ChunksAreNext DEF Only
<1>5. ASSUME NEW t \in Threads, pl = PPl(t)
      PROVE  ChunksAt(pl)' = ChunksAt(pl) /\ ListAt(pl)' = ListAt(pl)
  <2>1. op'[t].p = op[t].p BY <1>5 DEF Only
  <2>2. ChunksAt(pl)' = {op'[t].p} \ {None} /\ ListAt(pl)' = <<>>
    BY <1>5, ListsAtNext, ChunksAreNext, Zenon
  <2>3. ChunksAt(pl) = {op[t].p} \ {None} /\ ListAt(pl) = <<>>
    BY <1>5, ListsAt, ChunksAre, Zenon
  <2> QED BY <2>1, <2>2, <2>3
<1>6. ASSUME NEW t \in Threads, pl = VPl(t)
      PROVE  ChunksAt(pl)' = ChunksAt(pl) /\ ListAt(pl)' = ListAt(pl)
  <2>1. op'[t].v = op[t].v BY <1>6 DEF Only
  <2>2. ChunksAt(pl)' = {op'[t].v} \ {None} /\ ListAt(pl)' = <<>>
    BY <1>6, ListsAtNext, ChunksAreNext, Zenon
  <2>3. ChunksAt(pl) = {op[t].v} \ {None} /\ ListAt(pl) = <<>>
    BY <1>6, ListsAt, ChunksAre, Zenon
  <2> QED BY <2>1, <2>2, <2>3
<1>7. ASSUME NEW t \in Threads, pl = ChainPl(t)
      PROVE  ChunksAt(pl)' = ChunksAt(pl) /\ ListAt(pl)' = ListAt(pl)
  BY <1>7, ListsAt, ListsAtNext, ChunksAre, ChunksAreNext DEF Only
<1> QED BY <1>1, <1>2, <1>3, <1>4, <1>5, <1>6, <1>7, PlacesAre

(* Lemma: it is enough to look at Q.                                       *)
LEMMA RehomesAt ==
  ASSUME Owned, NEW Q, Only(Q), Q \subseteq Places, NEW G, NEW N, NEW dest,
         \A c \in G : \E pl \in Q : c \in ChunksAt(pl),
         \A c \in N : dest[c] \in Q,
         \A pl \in Q : ChunksAt(pl)' = (ChunksAt(pl) \ G) \cup {c \in N : dest[c] = pl},
         DOMAIN hdr' = (DOMAIN hdr \ G) \cup N, N \cap (DOMAIN hdr \ G) = {},
         \A c \in DOMAIN hdr \ G : hdr'[c].sz = hdr[c].sz
  PROVE  Rehomes(G, N, dest)
<1>1. ASSUME NEW pl \in Places, pl \notin Q
      PROVE  ChunksAt(pl)' = (ChunksAt(pl) \ G) \cup {c \in N : dest[c] = pl}
  <2>1. ChunksAt(pl)' = ChunksAt(pl) BY <1>1, Elsewhere
  <2>2. ChunksAt(pl) \cap G = {} BY <1>1 DEF Owned
  <2>3. {c \in N : dest[c] = pl} = {} BY <1>1
  <2> QED BY <2>1, <2>2, <2>3
<1>2. \A pl \in Places : ChunksAt(pl)' = (ChunksAt(pl) \ G) \cup {c \in N : dest[c] = pl}
  BY <1>1
<1> QED BY <1>2 DEF Rehomes

Within(n, nb) == nb <= n /\ n < nb + MINSIZE

(* What a call has asked _int_malloc for, and the chunk that realloc still *)
(* holds because it did not fit.                                           *)
InSearch(c) ==
  \/ c.pc \in {"int_malloc", "stash_fast", "stash_small", "unsorted", "fit", "got"}
  \/ c.pc = "consolidate" /\ c.after = "unsorted"

(* A chunk too small for what realloc wants, as the program had it.        *)
Outgrown(c, h) == h[c.p].sz < c.want /\ Within(h[c.p].sz, c.old)

Searches(c, h) ==
  /\ c.fn \in {"malloc", "realloc", "retry", "memalign"}
  /\ c.want >= MINSIZE
  /\ c.nb = IF c.fn = "memalign" THEN Padded(c.want, c.al) ELSE c.want
  /\ IF c.fn \in {"realloc", "retry"} THEN c.p # None /\ Outgrown(c, h) ELSE c.p = None
  /\ c.pc \in {"stash_fast", "stash_small"} => c.v # None /\ h[c.v].sz = c.nb
  /\ c.pc = "stash_fast" => c.nb <= MaxFast
  /\ c.pc = "stash_small" => InSmallbinRange(c.nb)
  /\ c.v # None =>
       \/ c.pc \in {"stash_fast", "stash_small"}
       \/ c.pc = "got" /\ Within(h[c.v].sz, c.nb)

(* What a call brings home, or has already got.                            *)
Brings(c, h) ==
  c.v # None => Within(h[c.v].sz, c.want) /\ (c.fn = "memalign" => Aligned(c.v, c.al))

(* A call inside _int_free_maybe_consolidate goes on at k.                 *)
Comes(c, k) ==
  \/ c.pc = k
  \/ c.k = k /\ (c.pc = "systrim" \/ (c.pc = "consolidate" /\ c.after = "systrim"))

CallSound(c, h) ==
  /\ c.al > 0 /\ c.pad >= 0
  /\ c.chain # <<>> => c.pc = "consolidate"
  /\ c.pc = "idle" => c = Idle
  /\ InSearch(c) => Searches(c, h)
  /\ c.pc = "retry" => c.p # None /\ c.v = None /\ c.want >= MINSIZE /\ Outgrown(c, h)
                       /\ c.fn = "realloc"
  /\ c.pc \in {"free_chunk", "push"} => c.p # None /\ Brings(c, h) /\ c.fn # "memalign"
  /\ c.pc = "push" => h[c.p].sz <= MaxFast
  /\ Comes(c, "done") => c.p = None /\ Brings(c, h)
  /\ Comes(c, "aligned") => /\ c.p = None /\ c.v # None /\ c.fn = "memalign"
                            /\ c.want >= MINSIZE /\ h[c.v].sz >= c.want
                            /\ Aligned(c.v, c.al)

(* Sizes that may be at a place.                                           *)
MayBeAt(pl, n) ==
  /\ pl.at = "bin" => BinIndex(n) = pl.n
  /\ pl.at \in {"fast", "cache"} => n = pl.n
SizesInv == \A pl \in Places : \A c \in ChunksAt(pl) : MayBeAt(pl, hdr[c].sz)

CallsInv == \A t \in Threads : CallSound(op[t], hdr)

-----------------------------------------------------------------------------
(* The ownership invariant.                                                *)
Shaped ==
  /\ lock \in Threads \cup {None}
  /\ fastbins \in [FastSizes -> Seq(Int)] /\ have_fastchunks \in BOOLEAN
  /\ unsorted \in Seq(Int) /\ bins \in [BinIndices -> Seq(Int)]
  /\ binmap \subseteq BinIndices /\ last_remainder \in Int \cup {None}
  /\ tcache \in [Threads -> [TcacheSizes -> Seq(Int)]]
  /\ live \in [DOMAIN live -> Int]
  /\ op \in [Threads -> Call_]
Ordered == \A i \in BinIndices : Descends(bins[i], hdr)

OwnInv ==
  /\ Shaped /\ HP!IInv /\ Owned /\ ListsOnce /\ SizesInv /\ CallsInv /\ LiveFits /\ Ordered

HeapStep == HP!Next \/ UNCHANGED <<hdr, top, system_mem, Binned>>

(* A step changes the places of Q: it takes the chunks of G from there and *)
(* puts those of N, each at dest; no list gets a chunk twice.              *)
Placing(Q, G, N, dest) ==
  /\ Q \subseteq Places /\ Only(Q)
  /\ \A c \in G : \E pl \in Q : c \in ChunksAt(pl)
  /\ \A c \in N : dest[c] \in Q
  /\ \A pl \in Q : /\ ChunksAt(pl)' = (ChunksAt(pl) \ G) \cup {c \in N : dest[c] = pl}
                   /\ Once(ListAt(pl)')
  /\ DOMAIN hdr' = (DOMAIN hdr \ G) \cup N /\ N \cap (DOMAIN hdr \ G) = {}
  /\ \A c \in DOMAIN hdr \ G : hdr'[c].sz = hdr[c].sz

(* It is a step of thread t that leaves every size, call and bin sound.    *)
Leaving(t, Q, G, N, dest) ==
  /\ Shaped' /\ HeapStep
  /\ \A u \in Threads \ {t} : op'[u] = op[u] /\ PPl(u) \notin Q /\ VPl(u) \notin Q
  /\ \A c \in N : MayBeAt(dest[c], hdr'[c].sz)
  /\ CallSound(op'[t], hdr')
  /\ \A p \in DOMAIN live' : \/ p \in DOMAIN live \ G /\ live'[p] = live[p]
                             \/ Within(hdr'[p].sz, live'[p])
  /\ \A i \in BinIndices : BinPl(i) \in Q => Descends(bins'[i], hdr')

(* Lemma: what is soundly said of a call depends on its chunks' sizes.     *)
LEMMA CallFrame ==
  ASSUME NEW c, NEW h, NEW g, CallSound(c, h),
         c.p # None => g[c.p].sz = h[c.p].sz, c.v # None => g[c.v].sz = h[c.v].sz
  PROVE  CallSound(c, g)
<1>1. c.p # None => (Outgrown(c, g) <=> Outgrown(c, h)) BY DEF Outgrown
<1>2. Searches(c, h) => Searches(c, g) BY <1>1 DEF Searches
<1>3. Brings(c, h) => Brings(c, g) BY DEF Brings
<1> QED BY <1>1, <1>2, <1>3 DEF CallSound

(* Lemma: where a chunk is.                                                *)
LEMMA HandsAt ==
  ASSUME Owned, NEW t \in Threads
  PROVE  /\ op[t].p # None => op[t].p \in ChunksAt(PPl(t)) /\ op[t].p \in DOMAIN hdr
         /\ op[t].v # None => op[t].v \in ChunksAt(VPl(t)) /\ op[t].v \in DOMAIN hdr
BY ChunksAre, PlacesAre DEF Owned

(* Lemma: a step that changes only the places Q, and these as said, is     *)
(* such a step.                                                            *)
LEMMA PlacingRehomes ==
  ASSUME Owned, NEW Q, NEW G, NEW N, NEW dest, Placing(Q, G, N, dest)
  PROVE  /\ Rehomes(G, N, dest)
         /\ \A pl \in Places : pl \notin Q => ChunksAt(pl) \cap G = {}
<1>1. Rehomes(G, N, dest) BY RehomesAt DEF Placing
<1>2. \A pl \in Places : pl \notin Q => ChunksAt(pl) \cap G = {} BY DEF Placing, Owned
<1> QED BY <1>1, <1>2

BinPlaces == {UnsortedPl} \cup {BinPl(i) : i \in BinIndices}

(* Lemma: the free chunks are those of the bins and the unsorted list.     *)
LEMMA BinnedIs ==
  /\ DOMAIN bins = BinIndices => Binned = UNION {ChunksAt(pl) : pl \in BinPlaces}
  /\ DOMAIN bins' = BinIndices => Binned' = UNION {ChunksAt(pl)' : pl \in BinPlaces}
<1>1. ASSUME DOMAIN bins = BinIndices PROVE Binned = UNION {ChunksAt(pl) : pl \in BinPlaces}
  <2>1. Binned = (UNION {ToSet(bins[i]) : i \in BinIndices}) \cup ToSet(unsorted)
    BY <1>1 DEF Binned, ListsOf
  <2>2. /\ \A i : ChunksAt(BinPl(i)) = ToSet(bins[i])
        /\ ChunksAt(UnsortedPl) = ToSet(unsorted)
    BY ChunksAre
  <2> QED BY <2>1, <2>2 DEF BinPlaces
<1>2. ASSUME DOMAIN bins' = BinIndices
      PROVE Binned' = UNION {ChunksAt(pl)' : pl \in BinPlaces}
  <2>1. Binned' = (UNION {ToSet(bins'[i]) : i \in BinIndices}) \cup ToSet(unsorted')
    BY <1>2 DEF Binned, ListsOf
  <2>2. /\ \A i : ChunksAt(BinPl(i))' = ToSet(bins'[i])
        /\ ChunksAt(UnsortedPl)' = ToSet(unsorted')
    BY ChunksAreNext
  <2> QED BY <2>1, <2>2 DEF BinPlaces
<1> QED BY <1>1, <1>2

(* Lemma: what such a step does to the set of free chunks, the heap's      *)
(* free.                                                                   *)
LEMMA PlacedBinned ==
  ASSUME Owned, Shaped, Shaped', NEW Q, NEW G, NEW N, NEW dest, Placing(Q, G, N, dest)
  PROVE  Binned' = (Binned \ G) \cup {c \in N : dest[c] \in BinPlaces}
<1>1. Rehomes(G, N, dest) BY PlacingRehomes
<1>2. BinPlaces \subseteq Places BY PlacesAre DEF BinPlaces
<1>3. \A pl \in BinPlaces : ChunksAt(pl)' = (ChunksAt(pl) \ G) \cup {c \in N : dest[c] = pl}
  BY <1>1, <1>2 DEF Rehomes
<1>4. Binned = UNION {ChunksAt(pl) : pl \in BinPlaces}
      /\ Binned' = UNION {ChunksAt(pl)' : pl \in BinPlaces}
  <2>1. DOMAIN bins = BinIndices /\ DOMAIN bins' = BinIndices BY DEF Shaped
  <2> QED BY <2>1, BinnedIs
<1>5. ASSUME NEW c, c \in Binned'
      PROVE  c \in (Binned \ G) \cup {d \in N : dest[d] \in BinPlaces}
  <2>1. PICK pl \in BinPlaces : c \in ChunksAt(pl)' BY <1>4, <1>5
  <2> QED BY <1>3, <1>4, <2>1
<1>6. ASSUME NEW c, c \in (Binned \ G) \cup {d \in N : dest[d] \in BinPlaces}
      PROVE  c \in Binned'
  <2>1. CASE c \in N /\ dest[c] \in BinPlaces BY <1>3, <1>4, <2>1
  <2>2. CASE c \in Binned \ G
    <3>1. PICK pl \in BinPlaces : c \in ChunksAt(pl) BY <1>4, <2>2
    <3>2. c \in ChunksAt(pl)' BY <1>3, <2>2, <3>1
    <3> QED BY <1>4, <3>2
  <2> QED BY <1>6, <2>1, <2>2
<1> QED BY <1>5, <1>6

(* Lemma: a step of one thread that moves chunks but resizes none of       *)
(* those that stay keeps the whole invariant.                              *)
LEMMA LeavingKeeps ==
  ASSUME OwnInv, NEW t \in Threads, NEW Q, NEW G, NEW N, NEW dest,
         Placing(Q, G, N, dest), Leaving(t, Q, G, N, dest)
  PROVE  OwnInv'
<1>1. Rehomes(G, N, dest) /\ \A pl \in Places : pl \notin Q => ChunksAt(pl) \cap G = {}
  BY PlacingRehomes DEF OwnInv
<1>2. Places' = Places BY DEF Places, Place, BinIndices, FastSizes, TcacheSizes
<1>3. Owned' BY <1>1, RehomesOwned DEF OwnInv
<1>4. Shaped' BY DEF Leaving
<1>5. HP!IInv'
  <2>1. HP!Next \/ UNCHANGED HP!vars BY Zenon DEF Leaving, HeapStep, HP!vars
  <2>2. HP!IInv BY DEF OwnInv
  <2>3. HeapLimit \in Nat BY ArenaAssumption
  <2>4. HP!IInv /\ [HP!Next]_(HP!vars) => HP!IInv' BY <2>3, NoneAssumption, HP!StepIInv, Zenon
  <2>5. [HP!Next]_(HP!vars) BY <2>1
  <2> QED BY <2>2, <2>4, <2>5, Zenon
<1>6. ListsOnce'
  <2>1. ASSUME NEW pl \in Places PROVE Once(ListAt(pl)')
    <3>1. CASE pl \in Q BY <3>1 DEF Placing
    <3>2. CASE pl \notin Q
      <4>1. ListAt(pl)' = ListAt(pl) BY <3>2, Elsewhere DEF Placing
      <4>2. Once(ListAt(pl)) BY DEF OwnInv, ListsOnce
      <4> QED BY <4>1, <4>2
    <3> QED BY <3>1, <3>2
  <2> QED BY <1>2, <2>1 DEF ListsOnce, Once
<1>7. SizesInv'
  <2>1. ASSUME NEW pl \in Places, NEW c, c \in ChunksAt(pl)' PROVE MayBeAt(pl, hdr'[c].sz)
    <3>1. CASE c \in ChunksAt(pl) \ G
      <4>1. hdr'[c].sz = hdr[c].sz BY <3>1 DEF OwnInv, Owned, Placing
      <4>2. MayBeAt(pl, hdr[c].sz) BY <3>1 DEF OwnInv, SizesInv
      <4> QED BY <4>1, <4>2
    <3>2. CASE c \in N /\ dest[c] = pl BY <3>2 DEF Leaving
    <3>3. c \in (ChunksAt(pl) \ G) \cup {d \in N : dest[d] = pl} BY <1>1, <2>1 DEF Rehomes
    <3> QED BY <3>1, <3>2, <3>3
  <2> QED BY <1>2, <2>1 DEF SizesInv, MayBeAt
<1>8. CallsInv'
  <2>1. ASSUME NEW u \in Threads PROVE CallSound(op'[u], hdr')
    <3>1. CASE u = t BY <3>1 DEF Leaving
    <3>2. CASE u # t
      <4>1. op'[u] = op[u] /\ PPl(u) \notin Q /\ VPl(u) \notin Q BY <3>2 DEF Leaving
      <4>2. ChunksAt(PPl(u)) \cap G = {} /\ ChunksAt(VPl(u)) \cap G = {}
        BY <1>1, <4>1, PlacesAre
      <4>3. /\ op[u].p # None => hdr'[op[u].p].sz = hdr[op[u].p].sz
            /\ op[u].v # None => hdr'[op[u].v].sz = hdr[op[u].v].sz
        BY <4>2, HandsAt DEF OwnInv, Placing
      <4>4. CallSound(op[u], hdr) BY DEF OwnInv, CallsInv
      <4>5. CallSound(op[u], hdr') BY <4>3, <4>4, CallFrame
      <4> QED BY <4>1, <4>5
    <3> QED BY <3>1, <3>2
  <2> QED BY <2>1 DEF CallsInv
<1>9. LiveFits'
  <2>1. ASSUME NEW p \in DOMAIN live' PROVE Within(hdr'[p].sz, live'[p])
    <3>1. CASE p \in DOMAIN live \ G /\ live'[p] = live[p]
      <4>1. p \in DOMAIN hdr BY <3>1, ChunksAre, PlacesAre DEF OwnInv, Owned
      <4>2. hdr'[p].sz = hdr[p].sz BY <3>1, <4>1 DEF Placing
      <4> QED BY <3>1, <4>2 DEF OwnInv, LiveFits, Within
    <3> QED BY <3>1 DEF Leaving
  <2> QED BY <2>1 DEF LiveFits, Within
<1>10. Ordered'
  <2>1. ASSUME NEW i \in BinIndices PROVE Descends(bins'[i], hdr')
    <3>1. CASE BinPl(i) \in Q BY <3>1 DEF Leaving
    <3>2. CASE BinPl(i) \notin Q
      <4>1. bins'[i] = bins[i] BY <3>2 DEF Placing, Only
      <4>2. ToSet(bins[i]) \cap G = {} /\ ToSet(bins[i]) \subseteq DOMAIN hdr
        BY <1>1, <3>2, ChunksAre, PlacesAre DEF OwnInv, Owned
      <4>3. \A a, b : Before(bins[i], a, b) => a \in ToSet(bins[i]) /\ b \in ToSet(bins[i])
        BY DEF Before, ToSet
      <4>4. \A c \in ToSet(bins[i]) : hdr'[c].sz = hdr[c].sz BY <4>2 DEF Placing
      <4>5. Descends(bins[i], hdr) BY DEF OwnInv, Ordered
      <4> QED BY <4>1, <4>3, <4>4, <4>5 DEF Descends
    <3> QED BY <3>1, <3>2
  <2>2. BinIndices' = BinIndices BY DEF BinIndices
  <2> QED BY <2>1 DEF Ordered, Descends, Before
<1> QED BY <1>3, <1>4, <1>5, <1>6, <1>7, <1>8, <1>9, <1>10 DEF OwnInv

-----------------------------------------------------------------------------
(* What a step has to show of its own call.                                *)
Same(c, d) ==
  /\ c.fn = d.fn /\ c.want = d.want /\ c.nb = d.nb /\ c.al = d.al /\ c.pad = d.pad
  /\ c.p = d.p /\ c.old = d.old

(* Lemma: a call goes on within _int_malloc.                               *)
LEMMA GoOn ==
  ASSUME NEW c, NEW d, NEW h, NEW g, CallSound(d, h), InSearch(d), Same(c, d), InSearch(c),
         c.chain # <<>> => c.pc = "consolidate",
         d.p # None => g[d.p].sz = h[d.p].sz,
         c.pc \in {"stash_fast", "stash_small"} => c.v # None /\ g[c.v].sz = c.nb,
         c.pc = "stash_fast" => c.nb <= MaxFast, c.pc = "stash_small" => InSmallbinRange(c.nb),
         c.v # None => \/ c.pc \in {"stash_fast", "stash_small"}
                       \/ c.pc = "got" /\ Within(g[c.v].sz, c.nb)
  PROVE  CallSound(c, g)
<1>1. Searches(d, h) /\ d.al > 0 /\ d.pad >= 0 BY DEF CallSound
<1>2. d.p # None => (Outgrown(c, g) <=> Outgrown(d, h)) BY DEF Outgrown, Same
<1>3. Searches(c, g) BY <1>1, <1>2 DEF Searches, Same
<1>4. /\ c.pc \notin {"idle", "retry", "free_chunk", "push"}
      /\ ~Comes(c, "done") /\ ~Comes(c, "aligned")
  BY DEF InSearch, Comes
<1> QED BY <1>1, <1>3, <1>4 DEF CallSound, Same

(* Lemma: a call about to return what it brings is sound.                  *)
LEMMA DoneSound ==
  ASSUME NEW c, NEW h, c.pc = "done", c.al > 0, c.pad >= 0, c.chain = <<>>, c.p = None,
         Brings(c, h)
  PROVE  CallSound(c, h)
BY DEF CallSound, InSearch, Comes

AtPlace(c, h) ==
  c.v # None /\ c.fn = "memalign" /\ c.want >= MINSIZE /\ h[c.v].sz >= c.want /\ Aligned(c.v, c.al)

(* Lemma: a memalign call about to cut its block is sound.                 *)
LEMMA AlignedSound ==
  ASSUME NEW c, NEW h, c.pc = "aligned", c.al > 0, c.pad >= 0, c.chain = <<>>, c.p = None,
         AtPlace(c, h)
  PROVE  CallSound(c, h)
BY DEF CallSound, InSearch, Comes, AtPlace

(* Lemma: it goes on after _int_free_maybe_consolidate.                    *)
LEMMA ComingSound ==
  ASSUME NEW c, NEW h, NEW k, Comes(c, k), c.pc # k, k \in {"done", "aligned"}, c.k = k,
         c.al > 0, c.pad >= 0,
         c.chain # <<>> => c.pc = "consolidate", c.p = None,
         k = "done" => Brings(c, h), k = "aligned" => AtPlace(c, h)
  PROVE  CallSound(c, h)
<1>1. c.pc = "systrim" \/ (c.pc = "consolidate" /\ c.after = "systrim") BY DEF Comes
<1>2. ~InSearch(c) /\ c.pc \notin {"idle", "retry", "free_chunk", "push", "done", "aligned"}
  BY <1>1 DEF InSearch
<1>3. Comes(c, "done") => k = "done" BY <1>2 DEF Comes
<1>4. Comes(c, "aligned") => k = "aligned" BY <1>2 DEF Comes
<1> QED BY <1>2, <1>3, <1>4 DEF CallSound, AtPlace

(* Lemma: a call's record with one field changed.                          *)
LEMMA CallWith ==
  ASSUME NEW c \in Call_
  PROVE  /\ \A x \in LockedPCs \cup UnlockedPCs : [c EXCEPT !.pc = x] \in Call_
         /\ \A x \in Int : [c EXCEPT !.want = x] \in Call_
         /\ \A x \in Int : [c EXCEPT !.nb = x] \in Call_
         /\ \A x \in Int : [c EXCEPT !.al = x] \in Call_
         /\ \A x \in Int : [c EXCEPT !.pad = x] \in Call_
         /\ \A x \in Int : [c EXCEPT !.old = x] \in Call_
         /\ \A x \in Int : [c EXCEPT !.iters = x] \in Call_
         /\ \A x \in Int : [c EXCEPT !.sorted = x] \in Call_
         /\ \A x \in Int : [c EXCEPT !.fb = x] \in Call_
         /\ \A x \in Int \cup {None} : [c EXCEPT !.p = x] \in Call_
         /\ \A x \in Int \cup {None} : [c EXCEPT !.v = x] \in Call_
         /\ \A x \in {"malloc", "free", "realloc", "retry", "memalign", "trim"} :
              [c EXCEPT !.fn = x] \in Call_
         /\ \A x \in Seq(Int) : [c EXCEPT !.chain = x] \in Call_
         /\ \A x \in {"idle", "unsorted", "systrim"} : [c EXCEPT !.after = x] \in Call_
         /\ \A x \in {"idle", "aligned", "done"} : [c EXCEPT !.k = x] \in Call_
         /\ \A x \in BOOLEAN : [c EXCEPT !.cached = x] \in Call_
<1>1. \A x \in LockedPCs \cup UnlockedPCs : [c EXCEPT !.pc = x] \in Call_ BY Zenon DEF Call_
<1>2. \A x \in Int : [c EXCEPT !.want = x] \in Call_ BY Zenon DEF Call_
<1>3. \A x \in Int : [c EXCEPT !.nb = x] \in Call_ BY Zenon DEF Call_
<1>4. \A x \in Int : [c EXCEPT !.al = x] \in Call_ BY Zenon DEF Call_
<1>5. \A x \in Int : [c EXCEPT !.pad = x] \in Call_ BY Zenon DEF Call_
<1>6. \A x \in Int : [c EXCEPT !.old = x] \in Call_ BY Zenon DEF Call_
<1>7. \A x \in Int : [c EXCEPT !.iters = x] \in Call_ BY Zenon DEF Call_
<1>8. \A x \in Int : [c EXCEPT !.sorted = x] \in Call_ BY Zenon DEF Call_
<1>9. \A x \in Int : [c EXCEPT !.fb = x] \in Call_ BY Zenon DEF Call_
<1>10. \A x \in Int \cup {None} : [c EXCEPT !.p = x] \in Call_ BY Zenon DEF Call_, Chunks
<1>11. \A x \in Int \cup {None} : [c EXCEPT !.v = x] \in Call_ BY Zenon DEF Call_, Chunks
<1>12. \A x \in {"malloc", "free", "realloc", "retry", "memalign", "trim"} :
         [c EXCEPT !.fn = x] \in Call_
  BY Zenon DEF Call_
<1>13. \A x \in Seq(Int) : [c EXCEPT !.chain = x] \in Call_ BY Zenon DEF Call_, Chunks
<1>14. \A x \in {"idle", "unsorted", "systrim"} : [c EXCEPT !.after = x] \in Call_ BY DEF Call_
<1>15. \A x \in {"idle", "aligned", "done"} : [c EXCEPT !.k = x] \in Call_ BY DEF Call_
<1>16. \A x \in BOOLEAN : [c EXCEPT !.cached = x] \in Call_ BY Zenon DEF Call_
<1> QED
  BY <1>1, <1>2, <1>3, <1>4, <1>5, <1>6, <1>7, <1>8, <1>9, <1>10, <1>11, <1>12, <1>13, <1>14,
     <1>15, <1>16

(* Lemma: _int_free_maybe_consolidate's result is sound whichever way it   *)
(* goes on.                                                                *)
LEMMA MaybeSound ==
  ASSUME NEW call, call \in Call_, NEW sz, NEW h, NEW k \in {"done", "aligned"},
         call.al > 0, call.pad >= 0, call.chain = <<>>, call.p = None,
         k = "done" => Brings(call, h), k = "aligned" => AtPlace(call, h)
  PROVE  /\ MaybeConsolidate(call, sz, k) \in Call_
         /\ CallSound(MaybeConsolidate(call, sz, k), h)
         /\ MaybeConsolidate(call, sz, k).v = call.v
         /\ MaybeConsolidate(call, sz, k).p = None
         /\ MaybeConsolidate(call, sz, k).chain = <<>>
<1>1. PICK c : c = MaybeConsolidate(call, sz, k) OBVIOUS
<1>2. /\ c \in Call_ /\ Same(c, call) /\ c.chain = <<>> /\ c.v = call.v
      /\ \/ c.pc = k
         \/ c.pc = "consolidate" /\ c.after = "systrim" /\ c.k = k
         \/ c.pc = "systrim" /\ c.k = k
  <2>1. CASE sz < ConsolidationThreshold
    <3>1. c = [call EXCEPT !.pc = k] BY <1>1, <2>1 DEF MaybeConsolidate
    <3> QED BY ONLY <3>1, call \in Call_, k \in {"done", "aligned"}, call.chain = <<>>
            DEF Call_, Same, LockedPCs, UnlockedPCs
  <2>2. CASE ~(sz < ConsolidationThreshold) /\ have_fastchunks
    <3>1. c = [call EXCEPT !.pc = "consolidate", !.fb = 0, !.chain = <<>>, !.after = "systrim",
                           !.k = k]
      BY <1>1, <2>2 DEF MaybeConsolidate
    <3>2. <<>> \in Seq(Int) OBVIOUS
    <3> DEFINE d == [call EXCEPT !.pc = "consolidate"]
               e == [d EXCEPT !.fb = 0]
               f == [e EXCEPT !.chain = <<>>]
               g == [f EXCEPT !.after = "systrim"]
    <3>5. d \in Call_ BY CallWith, Zenon DEF LockedPCs
    <3> HIDE DEF d
    <3>6. e \in Call_ BY <3>5, 0 \in Int, CallWith, Zenon
    <3> HIDE DEF e
    <3>7. f \in Call_ BY <3>2, <3>6, CallWith, Zenon
    <3> HIDE DEF f
    <3>8. g \in Call_ BY <3>7, CallWith, Zenon
    <3> HIDE DEF g
    <3>9. [g EXCEPT !.k = k] \in Call_ BY <3>8, CallWith, Zenon
    <3>10. c = [g EXCEPT !.k = k] BY <3>1 DEF d, e, f, g
    <3>3. c \in Call_ BY <3>9, <3>10
    <3>4. Same(c, call) /\ c.v = call.v BY ONLY <3>1, call \in Call_ DEF Call_, Same
    <3>11. c.pc = "consolidate" /\ c.after = "systrim" /\ c.k = k /\ c.chain = <<>>
      BY ONLY <3>1, call \in Call_ DEF Call_
    <3> QED BY <3>3, <3>4, <3>11
  <2>3. CASE ~(sz < ConsolidationThreshold) /\ ~have_fastchunks
    <3>1. c = [call EXCEPT !.pc = "systrim", !.k = k] BY <1>1, <2>3 DEF MaybeConsolidate
    <3> QED BY ONLY <3>1, call \in Call_, k \in {"done", "aligned"}, call.chain = <<>>,
      Zenon
            DEF Call_, Same, LockedPCs, UnlockedPCs
  <2> QED BY <2>1, <2>2, <2>3
<1>3. (Brings(c, h) <=> Brings(call, h)) /\ (AtPlace(c, h) <=> AtPlace(call, h))
  BY <1>2 DEF Brings, AtPlace, Same
<1>4. CallSound(c, h)
  <2>1. CASE c.pc = k BY <1>2, <1>3, <2>1, DoneSound, AlignedSound DEF Same
  <2>2. CASE c.pc # k
    <3>1. Comes(c, k) /\ c.k = k BY <1>2, <2>2 DEF Comes
    <3> QED BY <1>2, <1>3, <2>2, <3>1, ComingSound DEF Same
  <2> QED BY <2>1, <2>2
<1> QED BY <1>1, <1>2, <1>4 DEF Same

(* Lemma: the idle call is sound and holds no chunk.                       *)
LEMMA IdleSound ==
  /\ Idle \in Call_ /\ \A h : CallSound(Idle, h)
  /\ Idle.v = None /\ Idle.p = None /\ Idle.chain = <<>> /\ Idle.pc = "idle"
<1>1. Idle \in Call_
  <2>1. <<>> \in Seq(Chunks) OBVIOUS
  <2> QED BY <2>1 DEF Idle, Call_, LockedPCs, UnlockedPCs
<1>2. /\ Idle.v = None /\ Idle.p = None /\ Idle.chain = <<>> /\ Idle.pc = "idle" /\ Idle.k = "idle"
      /\ Idle.al = 1 /\ Idle.pad = 0 /\ Idle.after = "idle"
  BY DEF Idle
<1>3. ASSUME NEW h PROVE CallSound(Idle, h)
  BY <1>2 DEF CallSound, InSearch, Comes
<1> QED BY <1>1, <1>2, <1>3

(* Lemma: the calls after a step of thread t.                              *)
LEMMA CallSet ==
  ASSUME Shaped, NEW t \in Threads, NEW c \in Call_, op' = [op EXCEPT ![t] = c]
  PROVE  /\ op' \in [Threads -> Call_] /\ op'[t] = c
         /\ \A u \in Threads \ {t} : op'[u] = op[u]
BY DEF Shaped

-----------------------------------------------------------------------------
(* A chunk leaves a place, or comes to one.                                *)
Leaves(pl, c) == ChunksAt(pl)' = ChunksAt(pl) \ {c} /\ Once(ListAt(pl)')
Joins(pl, c) == ChunksAt(pl)' = ChunksAt(pl) \cup {c} /\ Once(ListAt(pl)')

(* Lemma: a chunk that moves from one place to another as it is.           *)
LEMMA MovePlacing ==
  ASSUME OwnInv, NEW from \in Places, NEW to \in Places, from # to, NEW c \in ChunksAt(from),
         Leaves(from, c), Joins(to, c), Only({from, to}),
         DOMAIN hdr' = DOMAIN hdr, \A d \in DOMAIN hdr : hdr'[d].sz = hdr[d].sz
  PROVE  Placing({from, to}, {c}, {c}, [x \in {c} |-> to])
<1> DEFINE dest == [x \in {c} |-> to]
<1>1. c \in DOMAIN hdr /\ c \notin ChunksAt(to) BY DEF OwnInv, Owned
<1>2. dest[c] = to OBVIOUS
<1>3. {x \in {c} : dest[x] = from} = {} /\ {x \in {c} : dest[x] = to} = {c} BY <1>2
<1> HIDE DEF dest
<1>4. ASSUME NEW pl \in {from, to}
      PROVE  ChunksAt(pl)' = (ChunksAt(pl) \ {c}) \cup {x \in {c} : dest[x] = pl}
             /\ Once(ListAt(pl)')
  <2>1. CASE pl = from BY <1>3, <2>1 DEF Leaves
  <2>2. CASE pl = to BY <1>1, <1>3, <2>2 DEF Joins
  <2> QED BY <2>1, <2>2
<1>5. Placing({from, to}, {c}, {c}, dest) BY <1>1, <1>2, <1>4, Zenon DEF Placing
<1> QED BY <1>5 DEF dest

(* Lemma: thread t moves a chunk from one place to another.                *)
LEMMA MoveKeeps ==
  ASSUME OwnInv, Shaped', NEW t \in Threads, NEW from \in Places, NEW to \in Places, from # to,
         NEW c \in ChunksAt(from), Leaves(from, c), Joins(to, c), Only({from, to}),
         DOMAIN hdr' = DOMAIN hdr, \A d \in DOMAIN hdr : hdr'[d].sz = hdr[d].sz,
         MayBeAt(to, hdr[c].sz),
         \A u \in Threads \ {t} : op'[u] = op[u] /\ PPl(u) \notin {from, to}
                                                 /\ VPl(u) \notin {from, to},
         CallSound(op'[t], hdr'),
         \A p \in DOMAIN live' : \/ p \in DOMAIN live \ {c} /\ live'[p] = live[p]
                                 \/ Within(hdr[p].sz, live'[p]) /\ p \in DOMAIN hdr,
         \A i \in BinIndices : BinPl(i) \in {from, to} => Descends(bins'[i], hdr'),
         UNCHANGED <<top, system_mem>>,
         \/ hdr' = hdr /\ (from \in BinPlaces <=> to \in BinPlaces)
         \/ hdr' = SetInuse(hdr, c) /\ from \in BinPlaces /\ to \notin BinPlaces
  PROVE  OwnInv' /\ HeapStep
<1> DEFINE dest == [x \in {c} |-> to]
<1>1. Placing({from, to}, {c}, {c}, dest) BY MovePlacing
<1>2. dest[c] = to OBVIOUS
<1> HIDE DEF dest
<1>3. c \in DOMAIN hdr /\ \A pl \in Places : pl # from => c \notin ChunksAt(pl)
  BY DEF OwnInv, Owned
<1>4. BinPlaces \subseteq Places BY PlacesAre DEF BinPlaces
<1>5. c \in Binned <=> from \in BinPlaces
  <2>1. Binned = UNION {ChunksAt(pl) : pl \in BinPlaces} BY BinnedIs DEF OwnInv, Shaped
  <2> QED BY <1>3, <1>4, <2>1
<1>6. Binned' = (Binned \ {c}) \cup {x \in {c} : dest[x] \in BinPlaces}
  BY <1>1, PlacedBinned DEF OwnInv
<1>7. HeapStep
  <2>1. CASE hdr' = hdr /\ (from \in BinPlaces <=> to \in BinPlaces)
    <3>1. Binned' = Binned BY <1>2, <1>5, <1>6, <2>1
    <3> QED BY <2>1, <3>1 DEF HeapStep
  <2>2. CASE hdr' = SetInuse(hdr, c) /\ from \in BinPlaces /\ to \notin BinPlaces
    <3>1. c \in Binned /\ Binned' = Binned \ {c} BY <1>2, <1>5, <1>6, <2>2
    <3>2. HP!SetInuse(hdr, c) = SetInuse(hdr, c) BY SameShape
    <3>3. HP!Take(c) BY <2>2, <3>1, <3>2, Zenon DEF HP!Take
    <3>4. HP!Next BY <3>1, <3>3, Zenon DEF HP!Next, HP!OnFree
    <3> QED BY <3>4 DEF HeapStep
  <2> QED BY <2>1, <2>2
<1>8. Leaving(t, {from, to}, {c}, {c}, dest)
  <2>1. \A x \in {c} : MayBeAt(dest[x], hdr'[x].sz) BY <1>2, <1>3
  <2>2. \A p \in DOMAIN live' : \/ p \in DOMAIN live \ {c} /\ live'[p] = live[p]
                                \/ Within(hdr'[p].sz, live'[p])
    OBVIOUS
  <2> QED BY <1>7, <2>1, <2>2 DEF Leaving
<1> QED BY <1>1, <1>7, <1>8, LeavingKeeps

(* Lemma: thread t moves nothing.                                          *)
LEMMA StayKeeps ==
  ASSUME OwnInv, Shaped', NEW t \in Threads, Only({}), UNCHANGED <<heapVars, bins, unsorted>>,
         \A u \in Threads \ {t} : op'[u] = op[u], CallSound(op'[t], hdr),
         \A p \in DOMAIN live' : \/ p \in DOMAIN live /\ live'[p] = live[p]
                                 \/ Within(hdr[p].sz, live'[p])
  PROVE  OwnInv' /\ HeapStep
<1>1. hdr' = hdr /\ top' = top /\ system_mem' = system_mem BY DEF heapVars
<1>2. Placing({}, {}, {}, <<>>) BY <1>1 DEF Placing
<1>3. Binned' = Binned BY DEF Binned, ListsOf
<1>4. HeapStep BY <1>1, <1>3 DEF HeapStep
<1>5. Leaving(t, {}, {}, {}, <<>>) BY <1>1, <1>4 DEF Leaving
<1> QED BY <1>2, <1>4, <1>5, LeavingKeeps

-----------------------------------------------------------------------------
(* Lemma: what the invariant says of the lists.                            *)
LEMMA ListsAre ==
  ASSUME OwnInv
  PROVE  /\ Once(unsorted) /\ ToSet(unsorted) \subseteq DOMAIN hdr
         /\ \A i \in BinIndices :
              /\ Once(bins[i]) /\ ToSet(bins[i]) \subseteq DOMAIN hdr
              /\ Descends(bins[i], hdr)
              /\ \A c \in ToSet(bins[i]) : BinIndex(hdr[c].sz) = i
         /\ \A s \in FastSizes :
              /\ Once(fastbins[s]) /\ ToSet(fastbins[s]) \subseteq DOMAIN hdr
              /\ \A c \in ToSet(fastbins[s]) : hdr[c].sz = s
         /\ \A t \in Threads, s \in TcacheSizes :
              /\ Once(tcache[t][s]) /\ ToSet(tcache[t][s]) \subseteq DOMAIN hdr
              /\ \A c \in ToSet(tcache[t][s]) : hdr[c].sz = s
         /\ \A t \in Threads : Once(op[t].chain) /\ ToSet(op[t].chain) \subseteq DOMAIN hdr
<1>1. /\ \A pl \in Places : Once(ListAt(pl)) /\ ChunksAt(pl) \subseteq DOMAIN hdr
      /\ \A pl \in Places : \A c \in ChunksAt(pl) : MayBeAt(pl, hdr[c].sz)
      /\ \A i \in BinIndices : Descends(bins[i], hdr)
  BY DEF OwnInv, ListsOnce, Owned, SizesInv, Ordered
<1>2. Once(unsorted) /\ ToSet(unsorted) \subseteq DOMAIN hdr
  BY <1>1, PlacesAre, ListsAt, ChunksAre
<1>3. ASSUME NEW i \in BinIndices
      PROVE  /\ Once(bins[i]) /\ ToSet(bins[i]) \subseteq DOMAIN hdr
             /\ \A c \in ToSet(bins[i]) : BinIndex(hdr[c].sz) = i
  <2>1. BinPl(i) \in Places /\ ListAt(BinPl(i)) = bins[i] /\ ChunksAt(BinPl(i)) = ToSet(bins[i])
    BY PlacesAre, ListsAt, ChunksAre
  <2>2. BinPl(i).at = "bin" /\ BinPl(i).n = i BY PlacesAt
  <2> QED BY <1>1, <2>1, <2>2 DEF MayBeAt
<1>4. ASSUME NEW s \in FastSizes
      PROVE  /\ Once(fastbins[s]) /\ ToSet(fastbins[s]) \subseteq DOMAIN hdr
             /\ \A c \in ToSet(fastbins[s]) : hdr[c].sz = s
  <2>1. /\ FastPl(s) \in Places /\ ListAt(FastPl(s)) = fastbins[s]
        /\ ChunksAt(FastPl(s)) = ToSet(fastbins[s])
    BY PlacesAre, ListsAt, ChunksAre
  <2>2. FastPl(s).at = "fast" /\ FastPl(s).n = s BY PlacesAt
  <2> QED BY <1>1, <2>1, <2>2 DEF MayBeAt
<1>5. ASSUME NEW t \in Threads, NEW s \in TcacheSizes
      PROVE  /\ Once(tcache[t][s]) /\ ToSet(tcache[t][s]) \subseteq DOMAIN hdr
             /\ \A c \in ToSet(tcache[t][s]) : hdr[c].sz = s
  <2>1. /\ CachePl(t, s) \in Places /\ ListAt(CachePl(t, s)) = tcache[t][s]
        /\ ChunksAt(CachePl(t, s)) = ToSet(tcache[t][s])
    BY PlacesAre, ListsAt, ChunksAre
  <2>2. CachePl(t, s).at = "cache" /\ CachePl(t, s).n = s BY PlacesAt
  <2> QED BY <1>1, <2>1, <2>2 DEF MayBeAt
<1>6. ASSUME NEW t \in Threads
      PROVE  Once(op[t].chain) /\ ToSet(op[t].chain) \subseteq DOMAIN hdr
  BY <1>1, PlacesAre, ListsAt, ChunksAre
<1> QED BY <1>1, <1>2, <1>3, <1>4, <1>5, <1>6

(* Lemma: the empty list repeats nothing.                                  *)
LEMMA EmptyOnce == Once(<<>>)
BY DEF Once, IsInjective

(* Lemma: how a place changes.                                             *)
LEMMA LeavesAre ==
  /\ \A c : Fewer(unsorted', unsorted, {c}) => Leaves(UnsortedPl, c)
  /\ \A i, c : Fewer(bins'[i], bins[i], {c}) => Leaves(BinPl(i), c)
  /\ \A s, c : Fewer(fastbins'[s], fastbins[s], {c}) => Leaves(FastPl(s), c)
  /\ \A t, s, c : Fewer(tcache'[t][s], tcache[t][s], {c}) => Leaves(CachePl(t, s), c)
  /\ \A t, c : Fewer(op'[t].chain, op[t].chain, {c}) => Leaves(ChainPl(t), c)
  /\ \A t, c : op[t].p = c /\ op'[t].p = None => Leaves(PPl(t), c)
  /\ \A t, c : op[t].v = c /\ op'[t].v = None => Leaves(VPl(t), c)
  /\ \A c : DOMAIN live' = DOMAIN live \ {c} => Leaves(LivePl, c)
<1>1. \A c : Fewer(unsorted', unsorted, {c}) => Leaves(UnsortedPl, c)
  BY ChunksAre, ChunksAreNext, ListsAtNext DEF Fewer, Leaves
<1>2. \A i, c : Fewer(bins'[i], bins[i], {c}) => Leaves(BinPl(i), c)
  BY ChunksAre, ChunksAreNext, ListsAtNext DEF Fewer, Leaves
<1>3. \A s, c : Fewer(fastbins'[s], fastbins[s], {c}) => Leaves(FastPl(s), c)
  BY ChunksAre, ChunksAreNext, ListsAtNext DEF Fewer, Leaves
<1>4. \A t, s, c : Fewer(tcache'[t][s], tcache[t][s], {c}) => Leaves(CachePl(t, s), c)
  BY ChunksAre, ChunksAreNext, ListsAtNext DEF Fewer, Leaves
<1>5. \A t, c : Fewer(op'[t].chain, op[t].chain, {c}) => Leaves(ChainPl(t), c)
  BY ChunksAre, ChunksAreNext, ListsAtNext DEF Fewer, Leaves
<1>6. \A t, c : op[t].p = c /\ op'[t].p = None => Leaves(PPl(t), c)
  BY ChunksAre, ChunksAreNext, ListsAtNext, EmptyOnce DEF Leaves
<1>7. \A t, c : op[t].v = c /\ op'[t].v = None => Leaves(VPl(t), c)
  BY ChunksAre, ChunksAreNext, ListsAtNext, EmptyOnce DEF Leaves
<1>8. \A c : DOMAIN live' = DOMAIN live \ {c} => Leaves(LivePl, c)
  BY ChunksAre, ChunksAreNext, ListsAtNext, EmptyOnce DEF Leaves
<1> QED BY <1>1, <1>2, <1>3, <1>4, <1>5, <1>6, <1>7, <1>8, Zenon

(* Lemma: the lists and registers a chunk can join, and when it does.      *)
LEMMA JoinsAre ==
  /\ \A c : More(unsorted', unsorted, c) => Joins(UnsortedPl, c)
  /\ \A i, c : More(bins'[i], bins[i], c) => Joins(BinPl(i), c)
  /\ \A s, c : More(fastbins'[s], fastbins[s], c) => Joins(FastPl(s), c)
  /\ \A t, s, c : More(tcache'[t][s], tcache[t][s], c) => Joins(CachePl(t, s), c)
  /\ \A t, c : c # None /\ op[t].p = None /\ op'[t].p = c => Joins(PPl(t), c)
  /\ \A t, c : c # None /\ op[t].v = None /\ op'[t].v = c => Joins(VPl(t), c)
  /\ \A c : DOMAIN live' = DOMAIN live \cup {c} => Joins(LivePl, c)
<1>1. \A c : More(unsorted', unsorted, c) => Joins(UnsortedPl, c)
  BY ChunksAre, ChunksAreNext, ListsAtNext DEF More, Joins
<1>2. \A i, c : More(bins'[i], bins[i], c) => Joins(BinPl(i), c)
  BY ChunksAre, ChunksAreNext, ListsAtNext DEF More, Joins
<1>3. \A s, c : More(fastbins'[s], fastbins[s], c) => Joins(FastPl(s), c)
  BY ChunksAre, ChunksAreNext, ListsAtNext DEF More, Joins
<1>4. \A t, s, c : More(tcache'[t][s], tcache[t][s], c) => Joins(CachePl(t, s), c)
  BY ChunksAre, ChunksAreNext, ListsAtNext DEF More, Joins
<1>5. \A t, c : c # None /\ op[t].p = None /\ op'[t].p = c => Joins(PPl(t), c)
  BY ChunksAre, ChunksAreNext, ListsAtNext, EmptyOnce DEF Joins
<1>6. \A t, c : c # None /\ op[t].v = None /\ op'[t].v = c => Joins(VPl(t), c)
  BY ChunksAre, ChunksAreNext, ListsAtNext, EmptyOnce DEF Joins
<1>7. \A c : DOMAIN live' = DOMAIN live \cup {c} => Joins(LivePl, c)
  BY ChunksAre, ChunksAreNext, ListsAtNext, EmptyOnce DEF Joins
<1> QED BY <1>1, <1>2, <1>3, <1>4, <1>5, <1>6, <1>7

(* Lemma: any size may be anywhere but in a bin or a sized list.           *)
LEMMA MayBe ==
  /\ \A n : MayBeAt(TopPl, n) /\ MayBeAt(LivePl, n) /\ MayBeAt(UnsortedPl, n)
  /\ \A t, n : MayBeAt(PPl(t), n) /\ MayBeAt(VPl(t), n) /\ MayBeAt(ChainPl(t), n)
  /\ \A i, n : MayBeAt(BinPl(i), n) <=> BinIndex(n) = i
  /\ \A s, n : MayBeAt(FastPl(s), n) <=> n = s
  /\ \A t, s, n : MayBeAt(CachePl(t, s), n) <=> n = s
BY PlacesAt DEF MayBeAt

(* Lemma: which places count as free for the heap.                         *)
LEMMA BinPlacesAre ==
  /\ UnsortedPl \in BinPlaces /\ TopPl \notin BinPlaces /\ LivePl \notin BinPlaces
  /\ \A i \in BinIndices : BinPl(i) \in BinPlaces
  /\ \A s : FastPl(s) \notin BinPlaces
  /\ \A t, s : CachePl(t, s) \notin BinPlaces
  /\ \A t : PPl(t) \notin BinPlaces /\ VPl(t) \notin BinPlaces /\ ChainPl(t) \notin BinPlaces
  /\ \A pl \in BinPlaces : pl.at \in {"unsorted", "bin"}
BY PlacesAt DEF BinPlaces

(* Outside op, nothing happens at a place outside Q.                       *)
OnlyLists(Q) ==
  /\ top' = top \/ TopPl \in Q
  /\ DOMAIN live' = DOMAIN live \/ LivePl \in Q
  /\ unsorted' = unsorted \/ UnsortedPl \in Q
  /\ \A i \in BinIndices : bins'[i] = bins[i] \/ BinPl(i) \in Q
  /\ \A s \in FastSizes : fastbins'[s] = fastbins[s] \/ FastPl(s) \in Q
  /\ \A t \in Threads, s \in TcacheSizes : tcache'[t][s] = tcache[t][s] \/ CachePl(t, s) \in Q

(* Lemma: a step that changes the lists of Q alone, and one call, changes  *)
(* the places Q alone.                                                     *)
LEMMA OnlyIs ==
  ASSUME Shaped, NEW Q, OnlyLists(Q), NEW t \in Threads, NEW d \in Call_,
         op' = [op EXCEPT ![t] = d],
         d.p = op[t].p \/ PPl(t) \in Q, d.v = op[t].v \/ VPl(t) \in Q,
         d.chain = op[t].chain \/ ChainPl(t) \in Q
  PROVE  Only(Q)
<1>1. op'[t] = d /\ \A u \in Threads \ {t} : op'[u] = op[u] BY CallSet, Zenon
<1>2. \A u \in Threads : /\ op'[u].p = op[u].p \/ PPl(u) \in Q
                         /\ op'[u].v = op[u].v \/ VPl(u) \in Q
                         /\ op'[u].chain = op[u].chain \/ ChainPl(u) \in Q
  BY <1>1
<1> QED BY <1>2 DEF Only, OnlyLists

(* Lemma: setting a chunk's bit changes no size.                           *)
LEMMA SetInuseSizes ==
  ASSUME OwnInv, NEW c \in DOMAIN hdr, hdr' = SetInuse(hdr, c)
  PROVE  DOMAIN hdr' = DOMAIN hdr /\ \A d \in DOMAIN hdr : hdr'[d].sz = hdr[d].sz
<1>1. hdr \in [DOMAIN hdr -> Header] BY HeapIs DEF OwnInv, HeapFacts
<1>2. PICK n : n = Next_(hdr, c) OBVIOUS
<1>3. hdr' = [hdr EXCEPT ![n].pinuse = TRUE, ![n].psz = 0] BY <1>2 DEF SetInuse
<1> QED BY <1>1, <1>3 DEF Header

(* The headers change, if at all, with a chunk that leaves the bins.       *)
Untied(c, from, to) ==
  \/ hdr' = hdr /\ (from \in BinPlaces <=> to \in BinPlaces)
  \/ hdr' = SetInuse(hdr, c) /\ from \in BinPlaces /\ to \notin BinPlaces

(* Lemma: a call takes a chunk from a list into its hand.                  *)
LEMMA ToHand ==
  ASSUME OwnInv, Shaped', NEW t \in Threads, NEW from \in Places, from.at \notin {"p", "v"},
         NEW c \in ChunksAt(from), Leaves(from, c), OnlyLists({from}),
         NEW d \in Call_, op' = [op EXCEPT ![t] = d], op[t].v = None, d.v = c,
         d.p = op[t].p, d.chain = op[t].chain, CallSound(d, hdr),
         UNCHANGED <<top, system_mem, live>>, Untied(c, from, VPl(t)),
         \A i \in BinIndices : BinPl(i) = from => Descends(bins'[i], hdr)
  PROVE  OwnInv' /\ HeapStep
<1>1. c \in DOMAIN hdr /\ DOMAIN hdr \subseteq Nat BY HeapIs DEF OwnInv, Owned, HeapFacts
<1>2. DOMAIN hdr' = DOMAIN hdr /\ \A x \in DOMAIN hdr : hdr'[x].sz = hdr[x].sz
  BY <1>1, SetInuseSizes DEF Untied
<1>3. op'[t] = d /\ \A u \in Threads \ {t} : op'[u] = op[u] BY CallSet, Zenon DEF OwnInv
<1>4. VPl(t) \in Places /\ VPl(t) # from BY PlacesAre, PlacesAt
<1>5. Joins(VPl(t), c) BY <1>1, <1>3, JoinsAre, NoneAssumption
<1>6. OnlyLists({from, VPl(t)}) BY DEF OnlyLists
<1>7. Only({from, VPl(t)}) BY <1>6, OnlyIs, Zenon DEF OwnInv
<1>8. \A u \in Threads \ {t} : op'[u] = op[u] /\ PPl(u) \notin {from, VPl(t)}
                                              /\ VPl(u) \notin {from, VPl(t)}
  BY <1>3, PlacesAt
<1>9. CallSound(op'[t], hdr')
  <2>1. d.p # None => hdr'[d.p].sz = hdr[d.p].sz BY <1>2, HandsAt DEF OwnInv
  <2> QED BY <1>1, <1>2, <1>3, <2>1, CallFrame
<1>10. \A p \in DOMAIN live' : \/ p \in DOMAIN live \ {c} /\ live'[p] = live[p]
                               \/ Within(hdr[p].sz, live'[p]) /\ p \in DOMAIN hdr
  BY ChunksAre, PlacesAre DEF OwnInv, LiveFits, Within, Owned
<1>11. \A i \in BinIndices : BinPl(i) \in {from, VPl(t)} => Descends(bins'[i], hdr')
  <2> SUFFICES ASSUME NEW i \in BinIndices, BinPl(i) \in {from, VPl(t)}
               PROVE  Descends(bins'[i], hdr')
    OBVIOUS
  <2>1. BinPl(i) = from BY PlacesAt
  <2>2. Descends(bins'[i], hdr) BY <2>1
  <2>3. \A a \in ToSet(bins'[i]) : a \in DOMAIN hdr
    <3>1. ToSet(bins'[i]) \subseteq ChunksAt(from) BY <2>1, ChunksAreNext DEF Leaves
    <3> QED BY <3>1 DEF OwnInv, Owned
  <2>4. \A a, b : Before(bins'[i], a, b) => a \in ToSet(bins'[i]) /\ b \in ToSet(bins'[i])
    BY DEF Before, ToSet
  <2> QED BY <1>2, <2>2, <2>3, <2>4 DEF Descends
<1>12. MayBeAt(VPl(t), hdr[c].sz) BY MayBe
<1>13. \/ hdr' = hdr /\ (from \in BinPlaces <=> VPl(t) \in BinPlaces)
       \/ hdr' = SetInuse(hdr, c) /\ from \in BinPlaces /\ VPl(t) \notin BinPlaces
  BY DEF Untied
<1> QED BY <1>2, <1>4, <1>5, <1>7, <1>8, <1>9, <1>10, <1>11, <1>12, <1>13, MoveKeeps

(* Lemma: a call puts a chunk from a list into the thread's cache.         *)
LEMMA ToCache ==
  ASSUME OwnInv, Shaped', NEW t \in Threads, NEW from \in Places,
         from.at \in {"unsorted", "bin", "fast"},
         NEW c \in ChunksAt(from), Leaves(from, c),
         NEW s \in TcacheSizes, OnlyLists({from, CachePl(t, s)}), hdr[c].sz = s,
         tcache'[t][s] = <<c>> \o tcache[t][s],
         NEW d \in Call_, op' = [op EXCEPT ![t] = d], d.v = op[t].v,
         d.p = op[t].p, d.chain = op[t].chain, CallSound(d, hdr),
         UNCHANGED <<top, system_mem, live>>, Untied(c, from, CachePl(t, s)),
         \A i \in BinIndices : BinPl(i) = from => Descends(bins'[i], hdr)
  PROVE  OwnInv' /\ HeapStep
<1> PICK to : to = CachePl(t, s) OBVIOUS
<1>1. c \in DOMAIN hdr /\ DOMAIN hdr \subseteq Nat BY HeapIs DEF OwnInv, Owned, HeapFacts
<1>2. DOMAIN hdr' = DOMAIN hdr /\ \A x \in DOMAIN hdr : hdr'[x].sz = hdr[x].sz
  BY <1>1, SetInuseSizes DEF Untied
<1>3. op'[t] = d /\ \A u \in Threads \ {t} : op'[u] = op[u] BY CallSet, Zenon DEF OwnInv
<1>4. to \in Places /\ to # from /\ to.at = "cache" BY PlacesAre, PlacesAt
<1>5. Joins(to, c)
  <2>1. c \notin ChunksAt(to) BY <1>4 DEF OwnInv, Owned
  <2>2. c \notin ToSet(tcache[t][s]) /\ Once(tcache[t][s]) BY <2>1, ChunksAre, ListsAre
  <2>3. More(tcache'[t][s], tcache[t][s], c) BY <1>1, <2>2, PushMore
  <2> QED BY <2>3, JoinsAre, Zenon
<1>6. Only({from, to}) BY OnlyIs, Zenon DEF OwnInv
<1>7. \A u \in Threads \ {t} : op'[u] = op[u] /\ PPl(u) \notin {from, to}
                                              /\ VPl(u) \notin {from, to}
  BY <1>3, <1>4, PlacesAt
<1>8. CallSound(op'[t], hdr')
  <2>1. d.p # None => hdr'[d.p].sz = hdr[d.p].sz BY <1>2, HandsAt DEF OwnInv
  <2>2. d.v # None => hdr'[d.v].sz = hdr[d.v].sz BY <1>2, HandsAt DEF OwnInv
  <2> QED BY <1>3, <2>1, <2>2, CallFrame
<1>9. \A p \in DOMAIN live' : \/ p \in DOMAIN live \ {c} /\ live'[p] = live[p]
                              \/ Within(hdr[p].sz, live'[p]) /\ p \in DOMAIN hdr
  BY ChunksAre, PlacesAre DEF OwnInv, LiveFits, Within, Owned
<1>10. \A i \in BinIndices : BinPl(i) \in {from, to} => Descends(bins'[i], hdr')
  <2> SUFFICES ASSUME NEW i \in BinIndices, BinPl(i) \in {from, to}
               PROVE  Descends(bins'[i], hdr')
    OBVIOUS
  <2>1. BinPl(i) = from BY <1>4, PlacesAt
  <2>2. Descends(bins'[i], hdr) BY <2>1
  <2>3. \A a \in ToSet(bins'[i]) : a \in DOMAIN hdr
    <3>1. ToSet(bins'[i]) \subseteq ChunksAt(from) BY <2>1, ChunksAreNext DEF Leaves
    <3> QED BY <3>1 DEF OwnInv, Owned
  <2>4. \A a, b : Before(bins'[i], a, b) => a \in ToSet(bins'[i]) /\ b \in ToSet(bins'[i])
    BY DEF Before, ToSet
  <2> QED BY <1>2, <2>2, <2>3, <2>4 DEF Descends
<1>11. MayBeAt(to, hdr[c].sz) BY MayBe
<1>12. \/ hdr' = hdr /\ (from \in BinPlaces <=> to \in BinPlaces)
       \/ hdr' = SetInuse(hdr, c) /\ from \in BinPlaces /\ to \notin BinPlaces
  BY DEF Untied
<1> QED BY <1>2, <1>4, <1>5, <1>6, <1>7, <1>8, <1>9, <1>10, <1>11, <1>12, MoveKeeps

-----------------------------------------------------------------------------
(* Lemma: what a call within _int_malloc holds.                            *)
LEMMA SearchFacts ==
  ASSUME OwnInv, NEW t \in Threads, InSearch(op[t])
  PROVE  /\ op[t] \in Call_ /\ CallSound(op[t], hdr) /\ Searches(op[t], hdr)
         /\ op[t].pc # "consolidate" => op[t].chain = <<>>
         /\ op[t].nb \in Int /\ op[t].nb >= MINSIZE
         /\ op[t].pc \notin {"stash_fast", "stash_small", "got"} => op[t].v = None
<1>1. op[t] \in Call_ /\ CallSound(op[t], hdr) BY DEF OwnInv, Shaped, CallsInv
<1>2. Searches(op[t], hdr) /\ op[t].al > 0 BY <1>1 DEF CallSound
<1>3. op[t].pc # "consolidate" => op[t].chain = <<>> BY <1>1 DEF CallSound
<1>4. op[t].nb \in Int /\ op[t].al \in Int /\ op[t].want \in Int BY <1>1 DEF Call_
<1>5. op[t].nb >= MINSIZE BY <1>2, <1>4 DEF Searches, Padded, MINSIZE
<1>6. op[t].pc \notin {"stash_fast", "stash_small", "got"} => op[t].v = None
  BY <1>2 DEF Searches
<1> QED BY <1>1, <1>2, <1>3, <1>4, <1>5, <1>6

(* Lemma: a call that only goes on with what it has.                       *)
LEMMA StayCall ==
  ASSUME OwnInv, Shaped', NEW t \in Threads, NEW d \in Call_, op' = [op EXCEPT ![t] = d],
         d.p = op[t].p, d.v = op[t].v, d.chain = op[t].chain, CallSound(d, hdr),
         UNCHANGED <<heapVars, bins, unsorted, fastbins, tcache, live>>
  PROVE  OwnInv' /\ HeapStep
<1>1. op'[t] = d /\ \A u \in Threads \ {t} : op'[u] = op[u] BY CallSet, Zenon DEF OwnInv
<1>2. Only({}) BY OnlyIs, Zenon DEF OwnInv, heapVars, OnlyLists
<1>3. UNCHANGED <<heapVars, bins, unsorted>> OBVIOUS
<1>4. \A p \in DOMAIN live' : \/ p \in DOMAIN live /\ live'[p] = live[p]
                              \/ Within(hdr[p].sz, live'[p])
  OBVIOUS
<1> QED BY <1>1, <1>2, <1>3, <1>4, StayKeeps

(* Lemma: the shape after a step that changes no list and no live chunk.   *)
LEMMA CallShaped ==
  ASSUME Shaped, NEW t \in Threads, NEW d \in Call_, op' = [op EXCEPT ![t] = d],
         lock' \in Threads \cup {None}, have_fastchunks' \in BOOLEAN, binmap' \subseteq BinIndices,
         UNCHANGED <<bins, unsorted, fastbins, tcache, live, last_remainder>>
  PROVE  Shaped'
<1>1. op' \in [Threads -> Call_] BY CallSet, Zenon
<1> QED BY <1>1, Zenon
  DEF Shaped, BinIndices, FastSizes, TcacheSizes, Call_, LockedPCs, UnlockedPCs, Chunks

(* Lemma: _int_malloc's result leaves the rest of the call as it was.      *)
LEMMA GotCall ==
  ASSUME Shaped, NEW t \in Threads, NEW v \in Int \cup {None}, Got(t, v)
  PROVE  \E d \in Call_ : /\ op' = [op EXCEPT ![t] = d] /\ Same(d, op[t]) /\ d.pc = "got"
                          /\ d.v = v /\ d.chain = op[t].chain
<1> DEFINE d == [op[t] EXCEPT !.pc = "got", !.v = v]
<1>1. op[t] \in Call_ /\ DOMAIN op = Threads BY DEF Shaped
<1>2. op' = [op EXCEPT ![t] = d] BY <1>1, Zenon DEF Got
<1>3. d \in Call_
  <2>1. [op[t] EXCEPT !.pc = "got"] \in Call_ BY <1>1, CallWith, Zenon DEF LockedPCs
  <2> QED BY <2>1, CallWith, Zenon
<1>4. Same(d, op[t]) /\ d.pc = "got" /\ d.v = v /\ d.chain = op[t].chain
  BY <1>1 DEF Same, Call_
<1> QED BY <1>2, <1>3, <1>4, Zenon

(* Lemma: a call that got a chunk of the size it asked for is sound.       *)
LEMMA GotSound ==
  ASSUME OwnInv, NEW t \in Threads, InSearch(op[t]), op[t].pc # "consolidate",
         NEW d, Same(d, op[t]), d.pc = "got", d.chain = op[t].chain,
         d.v # None => Within(hdr[d.v].sz, op[t].nb)
  PROVE  CallSound(d, hdr)
<1>1. CallSound(op[t], hdr) /\ op[t].chain = <<>> BY SearchFacts
<1>2. InSearch(d) BY DEF InSearch
<1> QED BY <1>1, <1>2, GoOn DEF Same

(* Lemma: a chunk taken from a fastbin goes to the call.                   *)
LEMMA OwnTakeFast ==
  ASSUME OwnInv, NEW t \in Threads, TakeFast(t)
  PROVE  OwnInv' /\ HeapStep
<1> PICK nb : nb = op[t].nb OBVIOUS
<1> PICK s : s = fastbins[nb] OBVIOUS
<1> PICK c : c = Head(s) OBVIOUS
<1> PICK d : d = [op[t] EXCEPT !.pc = "stash_fast", !.v = c] OBVIOUS
<1>1. InSearch(op[t]) /\ op[t].pc = "int_malloc" /\ lock = t BY DEF TakeFast, Holds, InSearch
<1>2. /\ op[t] \in Call_ /\ CallSound(op[t], hdr) /\ op[t].chain = <<>> /\ op[t].v = None
      /\ nb \in Int /\ nb >= MINSIZE
  BY <1>1, SearchFacts
<1>3. /\ nb <= MaxFast /\ s # <<>>
      /\ fastbins' = [fastbins EXCEPT ![nb] = Tail(s)] /\ op' = [op EXCEPT ![t] = d]
      /\ UNCHANGED <<lock, heapVars, have_fastchunks, binVars, tcache, live>>
  BY <1>2, CallSet, Zenon DEF TakeFast, HasFast, OwnInv, Shaped
<1>4. nb \in FastSizes BY <1>2, <1>3, ArenaAssumption DEF FastSizes, MINSIZE
<1>5. Once(s) /\ ToSet(s) \subseteq DOMAIN hdr /\ (\A x \in ToSet(s) : hdr[x].sz = nb)
  BY <1>4, ListsAre
<1>6. Fewer(Tail(s), s, {c}) /\ c \in ToSet(s) BY <1>3, <1>5, TailFewer, Zenon
<1>7. c \in Int /\ hdr[c].sz = nb
  <2>1. DOMAIN hdr \subseteq Nat BY HeapIs DEF OwnInv, HeapFacts
  <2> QED BY <1>5, <1>6, <2>1
<1>8. d \in Call_
  <2>1. [op[t] EXCEPT !.pc = "stash_fast"] \in Call_ BY <1>2, CallWith, Zenon DEF LockedPCs
  <2> QED BY <1>7, <2>1, CallWith, Zenon
<1>9. Same(d, op[t]) /\ d.pc = "stash_fast" /\ d.v = c /\ d.chain = <<>> /\ d.chain = op[t].chain
  BY <1>2 DEF Same, Call_
<1>10. CallSound(d, hdr)
  <2>1. InSearch(d) /\ d.nb = nb /\ c # None BY <1>7, <1>9, NoneAssumption DEF InSearch, Same
  <2> QED BY <1>1, <1>2, <1>3, <1>7, <1>9, <2>1, GoOn, Zenon
<1>11. fastbins'[nb] = Tail(s) /\ \A x \in FastSizes \ {nb} : fastbins'[x] = fastbins[x]
  BY <1>3, <1>4 DEF OwnInv, Shaped
<1>12. Shaped'
  <2>1. Tail(s) \in Seq(Int) BY <1>6 DEF Fewer, Once
  <2>2. fastbins' \in [FastSizes -> Seq(Int)] BY <1>3, <2>1, Zenon DEF OwnInv, Shaped
  <2>3. op' \in [Threads -> Call_] BY <1>3, <1>8, CallSet, Zenon DEF OwnInv
  <2> QED BY <1>3, <2>2, <2>3, Zenon
    DEF OwnInv, Shaped, binVars, BinIndices, FastSizes, TcacheSizes,
                                  Call_, LockedPCs, UnlockedPCs, Chunks
<1>13. FastPl(nb) \in Places /\ FastPl(nb).at = "fast" /\ c \in ChunksAt(FastPl(nb))
  BY <1>4, <1>6, PlacesAre, PlacesAt, ChunksAre
<1>14. Leaves(FastPl(nb), c) BY <1>6, <1>11, LeavesAre, Zenon
<1>15. OnlyLists({FastPl(nb)}) BY <1>3, <1>11 DEF OnlyLists, heapVars, binVars
<1>16. UNCHANGED <<top, system_mem, live>> /\ Untied(c, FastPl(nb), VPl(t))
  BY <1>3, BinPlacesAre DEF heapVars, Untied
<1>17. \A i \in BinIndices : BinPl(i) = FastPl(nb) => Descends(bins'[i], hdr)
  BY PlacesAt
<1>18. d.p = op[t].p BY <1>9 DEF Same
<1> QED BY <1>2, <1>3, <1>8, <1>9, <1>10, <1>12, <1>13, <1>14, <1>15, <1>16, <1>17, <1>18,
  ToHand, Zenon

(* Lemma: a fastbin chunk stashed goes to the thread's cache.              *)
LEMMA OwnStashFast ==
  ASSUME OwnInv, NEW t \in Threads, StashFast(t)
  PROVE  OwnInv' /\ HeapStep
<1> PICK nb : nb = op[t].nb OBVIOUS
<1> PICK s : s = fastbins[nb] OBVIOUS
<1>1. InSearch(op[t]) /\ op[t].pc = "stash_fast" /\ lock = t /\ lock' = t
  BY DEF StashFast, Holds, InSearch
<1>2. /\ op[t] \in Call_ /\ CallSound(op[t], hdr) /\ Searches(op[t], hdr)
      /\ nb \in Int /\ nb >= MINSIZE
  BY <1>1, SearchFacts
<1>3. op[t].v # None /\ hdr[op[t].v].sz = nb /\ nb <= MaxFast /\ op[t].v \in Int
  BY <1>1, <1>2 DEF Searches, Call_, Chunks
<1>4. nb \in FastSizes BY <1>2, <1>3, ArenaAssumption DEF FastSizes, MINSIZE
<1>5. Once(s) /\ ToSet(s) \subseteq DOMAIN hdr /\ (\A x \in ToSet(s) : hdr[x].sz = nb)
  BY <1>4, ListsAre
<1>6. UNCHANGED <<lock, heapVars, have_fastchunks, binVars, live>> BY DEF StashFast
<1>7. CASE CacheWanted(t, nb) /\ s # <<>>
  <2> PICK c : c = Head(s) OBVIOUS
  <2>1. /\ tcache' = [tcache EXCEPT ![t][nb] = <<c>> \o @]
        /\ fastbins' = [fastbins EXCEPT ![nb] = Tail(s)] /\ op' = op
    BY <1>7 DEF StashFast
  <2>2. nb \in TcacheSizes BY <1>7 DEF CacheWanted
  <2>3. Fewer(Tail(s), s, {c}) /\ c \in ToSet(s) BY <1>5, <1>7, TailFewer, Zenon
  <2>4. c \in Int /\ hdr[c].sz = nb
    <3>1. DOMAIN hdr \subseteq Nat BY HeapIs DEF OwnInv, HeapFacts
    <3> QED BY <1>5, <2>3, <3>1
  <2>5. fastbins'[nb] = Tail(s) /\ \A x \in FastSizes \ {nb} : fastbins'[x] = fastbins[x]
    BY <1>4, <2>1 DEF OwnInv, Shaped
  <2>6. /\ tcache' \in [Threads -> [TcacheSizes -> Seq(Int)]]
        /\ tcache'[t][nb] = <<c>> \o tcache[t][nb]
        /\ \A u \in Threads, x \in TcacheSizes :
             u # t \/ x # nb => tcache'[u][x] = tcache[u][x]
    <3>1. tcache \in [Threads -> [TcacheSizes -> Seq(Int)]] BY DEF OwnInv, Shaped
    <3>2. PICK r : r = <<c>> \o tcache[t][nb] BY Zenon
    <3>3. r \in Seq(Int) BY <2>2, <2>4, <3>1, <3>2
    <3>4. tcache' = [tcache EXCEPT ![t][nb] = r] BY <2>1, <3>2
    <3> QED BY <2>2, <3>1, <3>2, <3>3, <3>4
  <2>7. op' = [op EXCEPT ![t] = op[t]] BY <2>1 DEF OwnInv, Shaped
  <2>8. Shaped'
    <3>1. Tail(s) \in Seq(Int) BY <2>3 DEF Fewer, Once
    <3>2. fastbins' \in [FastSizes -> Seq(Int)] BY <2>1, <3>1, Zenon DEF OwnInv, Shaped
    <3> QED BY <1>6, <2>1, <2>6, <3>2, Zenon
      DEF OwnInv, Shaped, binVars, BinIndices, FastSizes,
            TcacheSizes, Call_, LockedPCs, UnlockedPCs, Chunks
  <2>9. FastPl(nb) \in Places /\ FastPl(nb).at = "fast" /\ c \in ChunksAt(FastPl(nb))
    BY <1>4, <2>3, PlacesAre, PlacesAt, ChunksAre
  <2>10. Leaves(FastPl(nb), c) BY <2>3, <2>5, LeavesAre, Zenon
  <2>11. OnlyLists({FastPl(nb), CachePl(t, nb)})
    BY <1>6, <2>5, <2>6 DEF OnlyLists, heapVars, binVars
  <2>12. UNCHANGED <<top, system_mem, live>> /\ Untied(c, FastPl(nb), CachePl(t, nb))
    BY <1>6, BinPlacesAre DEF heapVars, Untied
  <2>13. \A i \in BinIndices : BinPl(i) = FastPl(nb) => Descends(bins'[i], hdr)
    BY PlacesAt
  <2> QED BY <1>2, <2>2, <2>4, <2>6, <2>7, <2>8, <2>9, <2>10, <2>11, <2>12, <2>13, ToCache,
    Zenon
<1>8. CASE ~(CacheWanted(t, nb) /\ s # <<>>)
  <2>1. Got(t, op[t].v) /\ UNCHANGED <<tcache, fastbins>> BY <1>8 DEF StashFast
  <2>2. PICK d \in Call_ : /\ op' = [op EXCEPT ![t] = d] /\ Same(d, op[t]) /\ d.pc = "got"
                           /\ d.v = op[t].v /\ d.chain = op[t].chain
    BY <1>3, <2>1, GotCall DEF OwnInv
  <2>3. Within(hdr[op[t].v].sz, nb) BY <1>2, <1>3 DEF Within, MINSIZE
  <2>4. CallSound(d, hdr) BY <1>1, <2>2, <2>3, GotSound
  <2>5. Shaped' BY <1>1, <1>6, <2>1, <2>2, CallShaped DEF OwnInv, Shaped, binVars
  <2> QED BY <1>6, <2>1, <2>2, <2>4, <2>5, StayCall, Zenon DEF Same, binVars
<1> QED BY <1>7, <1>8

(* Lemma: one bin, or one list of a cache, changes.                        *)
LEMMA BinSet ==
  ASSUME Shaped, NEW i \in BinIndices, NEW r \in Seq(Int), bins' = [bins EXCEPT ![i] = r]
  PROVE  /\ bins' \in [BinIndices -> Seq(Int)] /\ bins'[i] = r
         /\ \A x \in BinIndices \ {i} : bins'[x] = bins[x]
BY DEF Shaped

(* Lemma: the variables that a step leaves keep their shape.               *)
LEMMA ShapedBy ==
  ASSUME Shaped, NEW t \in Threads, NEW d \in Call_, op' = [op EXCEPT ![t] = d],
         lock' \in Threads \cup {None},
         fastbins' \in [FastSizes -> Seq(Int)], have_fastchunks' \in BOOLEAN,
         unsorted' \in Seq(Int), bins' \in [BinIndices -> Seq(Int)],
         binmap' \subseteq BinIndices, last_remainder' \in Int \cup {None},
         tcache' \in [Threads -> [TcacheSizes -> Seq(Int)]],
         live' \in [DOMAIN live' -> Int]
  PROVE  Shaped'
<1>1. op' \in [Threads -> Call_] BY CallSet, Zenon
<1> QED BY <1>1, Zenon
  DEF Shaped, BinIndices, FastSizes, TcacheSizes, Call_, LockedPCs, UnlockedPCs,
                    Chunks

(* Lemma: addresses and sizes of the heap are naturals.                    *)
LEMMA AddressOf ==
  ASSUME OwnInv, NEW c \in DOMAIN hdr
  PROVE  c \in Nat /\ c \in Int /\ c # None /\ hdr[c].sz \in Nat
BY HeapIs, NoneAssumption DEF OwnInv, HeapFacts, Header

(* Lemma: a chunk of a bin is of a size it may have.                       *)
LEMMA ListedSize ==
  ASSUME OwnInv, NEW c, c \in Binned
  PROVE  c \in DOMAIN hdr \ {top} /\ hdr[c].sz \in Nat /\ hdr[c].sz >= MINSIZE
BY HeapIs DEF OwnInv, HeapFacts, Header

(* Lemma: a chunk of a bin or of the unsorted list is free.                *)
LEMMA InBinned ==
  ASSUME Shaped
  PROVE  /\ ToSet(unsorted) \subseteq Binned
         /\ \A i \in BinIndices : ToSet(bins[i]) \subseteq Binned
BY DEF Shaped, Binned, ListsOf

(* Lemma: the bin index of a size is a bin.                                *)
LEMMA IndexIs ==
  ASSUME NEW sz \in Nat, sz >= MINSIZE
  PROVE  /\ BinIndex(sz) \in BinIndices
         /\ InSmallbinRange(sz) => BinIndex(sz) = sz
         /\ ~InSmallbinRange(sz) => BinIndex(sz) >= MinLarge
<1>1. CASE InSmallbinRange(sz)
  BY <1>1, ArenaAssumption DEF BinIndex, BinIndices, InSmallbinRange, MINSIZE
<1>2. CASE ~InSmallbinRange(sz)
  <2>1. MinLarge \in Nat /\ LargeWidth \in Nat /\ LargeWidth > 0 /\ LargeBins \in Nat
        /\ LargeBins > 0 /\ MinLarge > MINSIZE /\ sz >= MinLarge
    BY <1>2, ArenaAssumption DEF InSmallbinRange
  <2>2. PICK q : q = (sz - MinLarge) \div LargeWidth OBVIOUS
  <2>3. q \in Nat
    <3>1. PICK n : n = sz - MinLarge OBVIOUS
    <3>2. n \in Nat BY <2>1, <3>1
    <3>3. n \div LargeWidth \in Nat BY <2>1, <3>2
    <3> QED BY <2>2, <3>1, <3>3
  <2>4. BinIndex(sz) = MinLarge + (IF q < LargeBins THEN q ELSE LargeBins - 1)
    BY <1>2, <2>2 DEF BinIndex
  <2>5. BinIndex(sz) \in MinLarge .. (MinLarge + LargeBins - 1) BY <2>1, <2>3, <2>4
  <2> QED BY <1>2, <2>1, <2>5 DEF BinIndices, MINSIZE
<1> QED BY <1>1, <1>2

(* Lemma: a small bin holds one size.                                      *)
LEMMA SmallIs ==
  ASSUME NEW sz \in Nat, sz >= MINSIZE, InSmallbinRange(BinIndex(sz))
  PROVE  sz = BinIndex(sz)
<1>1. PICK i : i = BinIndex(sz) OBVIOUS
<1>2. MinLarge \in Nat /\ i \in BinIndices BY <1>1, IndexIs, ArenaAssumption
<1>3. i \in Int /\ i < MinLarge BY <1>1, <1>2, ArenaAssumption DEF BinIndices, InSmallbinRange
<1>4. ~(i >= MinLarge) BY <1>2, <1>3
<1> QED BY <1>1, <1>4, IndexIs

(* Lemma: the last chunk of a bin, and the bin without it.                 *)
LEMMA LastLists ==
  ASSUME OwnInv, NEW i \in BinIndices, bins[i] # <<>>, NEW c, c = Last(bins[i])
  PROVE  /\ Fewer(Front(bins[i]), bins[i], {c}) /\ c \in ToSet(bins[i])
         /\ c \in DOMAIN hdr /\ c \in Int /\ BinIndex(hdr[c].sz) = i
         /\ Front(bins[i]) \in Seq(Int) /\ Descends(Front(bins[i]), hdr)
         /\ c \in ChunksAt(BinPl(i)) /\ BinPl(i) \in Places /\ BinPl(i) \in BinPlaces
         /\ BinPl(i).at = "bin"
<1>1. /\ Once(bins[i]) /\ ToSet(bins[i]) \subseteq DOMAIN hdr
      /\ Descends(bins[i], hdr) /\ \A x \in ToSet(bins[i]) : BinIndex(hdr[x].sz) = i
  BY ListsAre
<1>2. Fewer(Front(bins[i]), bins[i], {c}) /\ c \in ToSet(bins[i]) BY <1>1, FrontFewer
<1>3. c \in DOMAIN hdr /\ c \in Int /\ BinIndex(hdr[c].sz) = i BY <1>1, <1>2, AddressOf
<1>4. Front(bins[i]) \in Seq(Int) BY <1>2 DEF Fewer, Once
<1>5. Descends(Front(bins[i]), hdr) BY <1>1, <1>2, FewerDescends
<1>6. c \in ChunksAt(BinPl(i)) /\ BinPl(i) \in Places /\ BinPl(i) \in BinPlaces
      /\ BinPl(i).at = "bin"
  BY <1>2, ChunksAre, PlacesAre, BinPlacesAre, PlacesAt
<1> QED BY <1>2, <1>3, <1>4, <1>5, <1>6

(* Lemma: a small bin's last chunk goes to the call.                       *)
LEMMA OwnTakeSmall ==
  ASSUME OwnInv, NEW t \in Threads, TakeSmall(t)
  PROVE  OwnInv' /\ HeapStep
<1> PICK nb : nb = op[t].nb OBVIOUS
<1> PICK s : s = bins[nb] OBVIOUS
<1> PICK c : c = Last(s) OBVIOUS
<1> PICK d : d = [op[t] EXCEPT !.pc = "stash_small", !.v = c] OBVIOUS
<1>1. InSearch(op[t]) /\ op[t].pc = "int_malloc" /\ lock = t BY DEF TakeSmall, Holds, InSearch
<1>2. /\ op[t] \in Call_ /\ CallSound(op[t], hdr) /\ op[t].chain = <<>> /\ op[t].v = None
      /\ nb \in Int /\ nb >= MINSIZE
  BY <1>1, SearchFacts
<1>3. /\ InSmallbinRange(nb) /\ s # <<>> /\ hdr' = SetInuse(hdr, c)
      /\ bins' = [bins EXCEPT ![nb] = Front(s)] /\ op' = [op EXCEPT ![t] = d]
      /\ UNCHANGED <<lock, top, system_mem, fastVars, unsorted, binmap, last_remainder, tcache,
                     live>>
  BY <1>2, CallSet, Zenon DEF TakeSmall, HasSmall, OwnInv, Shaped
<1>4. nb \in Nat /\ nb \in BinIndices BY <1>2, <1>3, IndexIs DEF MINSIZE
<1>5. /\ Fewer(Front(s), s, {c}) /\ c \in DOMAIN hdr /\ c \in Int /\ BinIndex(hdr[c].sz) = nb
      /\ Front(s) \in Seq(Int) /\ Descends(Front(s), hdr)
      /\ c \in ChunksAt(BinPl(nb)) /\ BinPl(nb) \in Places /\ BinPl(nb) \in BinPlaces
      /\ BinPl(nb).at = "bin" /\ c \in ToSet(s)
  BY <1>3, <1>4, LastLists, Zenon
<1>6. hdr[c].sz = nb
  <2>1. c \in Binned BY <1>4, <1>5, InBinned DEF OwnInv
  <2>2. hdr[c].sz \in Nat /\ hdr[c].sz >= MINSIZE BY <2>1, ListedSize
  <2> QED BY <1>3, <1>5, <2>2, SmallIs
<1>7. d \in Call_
  <2>1. [op[t] EXCEPT !.pc = "stash_small"] \in Call_ BY <1>2, CallWith, Zenon DEF LockedPCs
  <2> QED BY <1>5, <2>1, CallWith, Zenon
<1>8. Same(d, op[t]) /\ d.pc = "stash_small" /\ d.v = c /\ d.chain = <<>> /\ d.chain = op[t].chain
  BY <1>2 DEF Same, Call_
<1>9. CallSound(d, hdr)
  <2>1. InSearch(d) /\ d.nb = nb /\ c # None BY <1>5, <1>8, AddressOf DEF InSearch, Same
  <2> QED BY <1>1, <1>2, <1>3, <1>6, <1>8, <2>1, GoOn, Zenon
<1>10. /\ bins' \in [BinIndices -> Seq(Int)] /\ bins'[nb] = Front(s)
       /\ \A x \in BinIndices \ {nb} : bins'[x] = bins[x]
  BY <1>3, <1>4, <1>5, BinSet, Zenon DEF OwnInv
<1>11. Shaped'
  BY <1>3, <1>7, <1>10, ShapedBy DEF OwnInv, Shaped, fastVars
<1>12. Leaves(BinPl(nb), c) BY <1>5, <1>10, LeavesAre, Zenon
<1>13. OnlyLists({BinPl(nb)}) BY <1>3, <1>10 DEF OnlyLists, fastVars
<1>14. Untied(c, BinPl(nb), VPl(t)) BY <1>3, <1>5, BinPlacesAre DEF Untied
<1>15. \A i \in BinIndices : BinPl(i) = BinPl(nb) => Descends(bins'[i], hdr)
  BY <1>5, <1>10, PlacesAt
<1>16. UNCHANGED <<top, system_mem, live>> /\ d.p = op[t].p BY <1>3, <1>8 DEF Same
<1> QED BY <1>2, <1>3, <1>5, <1>7, <1>8, <1>9, <1>11, <1>12, <1>13, <1>14, <1>15, <1>16,
  ToHand, Zenon

(* Lemma: a small bin's last chunk goes to the cache.                      *)
LEMMA OwnStashSmall ==
  ASSUME OwnInv, NEW t \in Threads, StashSmall(t)
  PROVE  OwnInv' /\ HeapStep
<1> PICK nb : nb = op[t].nb OBVIOUS
<1> PICK s : s = bins[nb] OBVIOUS
<1>1. InSearch(op[t]) /\ op[t].pc = "stash_small" /\ lock = t /\ lock' = t
  BY DEF StashSmall, Holds, InSearch
<1>2. /\ op[t] \in Call_ /\ CallSound(op[t], hdr) /\ Searches(op[t], hdr)
      /\ nb \in Int /\ nb >= MINSIZE
  BY <1>1, SearchFacts
<1>3. op[t].v # None /\ hdr[op[t].v].sz = nb /\ InSmallbinRange(nb) /\ op[t].v \in Int
  BY <1>1, <1>2 DEF Searches, Call_, Chunks
<1>4. nb \in Nat /\ nb \in BinIndices BY <1>2, <1>3, IndexIs DEF MINSIZE
<1>5. UNCHANGED <<lock, top, system_mem, fastVars, unsorted, binmap, last_remainder, live>>
  BY DEF StashSmall
<1>6. CASE CacheWanted(t, nb) /\ s # <<>>
  <2> PICK c : c = Last(s) OBVIOUS
  <2>1. /\ tcache' = [tcache EXCEPT ![t][nb] = <<c>> \o @] /\ hdr' = SetInuse(hdr, c)
        /\ bins' = [bins EXCEPT ![nb] = Front(s)] /\ op' = op
    BY <1>6 DEF StashSmall
  <2>2. nb \in TcacheSizes BY <1>6 DEF CacheWanted
  <2>3. /\ Fewer(Front(s), s, {c}) /\ c \in DOMAIN hdr /\ c \in Int /\ BinIndex(hdr[c].sz) = nb
        /\ Front(s) \in Seq(Int) /\ Descends(Front(s), hdr)
        /\ c \in ChunksAt(BinPl(nb)) /\ BinPl(nb) \in Places /\ BinPl(nb) \in BinPlaces
        /\ BinPl(nb).at = "bin" /\ c \in ToSet(s)
    BY <1>4, <1>6, LastLists, Zenon
  <2>4. hdr[c].sz = nb
    <3>1. c \in Binned BY <1>4, <2>3, InBinned DEF OwnInv
    <3>2. hdr[c].sz \in Nat /\ hdr[c].sz >= MINSIZE BY <3>1, ListedSize
    <3> QED BY <1>3, <2>3, <3>2, SmallIs
  <2>5. /\ bins' \in [BinIndices -> Seq(Int)] /\ bins'[nb] = Front(s)
        /\ \A x \in BinIndices \ {nb} : bins'[x] = bins[x]
    BY <1>4, <2>1, <2>3, BinSet, Zenon DEF OwnInv
  <2>6. PICK r : r = <<c>> \o tcache[t][nb] BY Zenon
  <2>7. r \in Seq(Int) BY <2>2, <2>3, <2>6 DEF OwnInv, Shaped
  <2>8. /\ tcache' \in [Threads -> [TcacheSizes -> Seq(Int)]] /\ tcache'[t][nb] = r
        /\ \A u \in Threads, x \in TcacheSizes :
             u # t \/ x # nb => tcache'[u][x] = tcache[u][x]
    <3>1. tcache' = [tcache EXCEPT ![t][nb] = r] BY <2>1, <2>6
    <3>2. Shaped BY DEF OwnInv
    <3>3. tcache \in [Threads -> [TcacheSizes -> Seq(Int)]] BY DEF OwnInv, Shaped
    <3> QED BY <2>2, <2>7, <3>1, <3>3
  <2>9. op' = [op EXCEPT ![t] = op[t]] BY <2>1 DEF OwnInv, Shaped
  <2>10. Shaped' BY <1>2, <1>5, <2>5, <2>8, <2>9, ShapedBy DEF OwnInv, Shaped, fastVars
  <2>11. Leaves(BinPl(nb), c) BY <2>3, <2>5, LeavesAre, Zenon
  <2>12. OnlyLists({BinPl(nb), CachePl(t, nb)}) BY <1>5, <2>5, <2>8 DEF OnlyLists, fastVars
  <2>13. UNCHANGED <<top, system_mem, live>> /\ Untied(c, BinPl(nb), CachePl(t, nb))
    BY <1>5, <2>1, <2>3, BinPlacesAre DEF Untied
  <2>14. \A i \in BinIndices : BinPl(i) = BinPl(nb) => Descends(bins'[i], hdr)
    BY <2>3, <2>5, PlacesAt
  <2> QED BY <1>2, <2>2, <2>3, <2>4, <2>6, <2>8, <2>9, <2>10, <2>11, <2>12, <2>13, <2>14,
    ToCache, ZenonT(40)
<1>7. CASE ~(CacheWanted(t, nb) /\ s # <<>>)
  <2>1. Got(t, op[t].v) /\ UNCHANGED <<hdr, tcache, bins>> BY <1>7 DEF StashSmall
  <2>2. PICK d \in Call_ : /\ op' = [op EXCEPT ![t] = d] /\ Same(d, op[t]) /\ d.pc = "got"
                           /\ d.v = op[t].v /\ d.chain = op[t].chain
    BY <1>3, <2>1, GotCall DEF OwnInv
  <2>3. Within(hdr[op[t].v].sz, nb) BY <1>2, <1>3 DEF Within, MINSIZE
  <2>4. CallSound(d, hdr) BY <1>1, <2>2, <2>3, GotSound
  <2>5. Shaped' BY <1>1, <1>5, <2>1, <2>2, CallShaped DEF OwnInv, Shaped, fastVars
  <2> QED BY <1>5, <2>1, <2>2, <2>4, <2>5, StayCall, Zenon DEF Same, fastVars, heapVars
<1> QED BY <1>6, <1>7

(* Lemma: the last chunk of the unsorted list, and the list without it.    *)
LEMMA LastUnsorted ==
  ASSUME OwnInv, unsorted # <<>>, NEW c, c = Last(unsorted)
  PROVE  /\ Fewer(Front(unsorted), unsorted, {c}) /\ c \in ToSet(unsorted) /\ c \in Binned
         /\ c \in DOMAIN hdr /\ c \in Int /\ hdr[c].sz \in Nat /\ hdr[c].sz >= MINSIZE
         /\ c \in ChunksAt(UnsortedPl) /\ UnsortedPl \in Places /\ UnsortedPl \in BinPlaces
         /\ UnsortedPl.at = "unsorted" /\ Front(unsorted) \in Seq(Int)
<1>1. Once(unsorted) /\ ToSet(unsorted) \subseteq DOMAIN hdr BY ListsAre
<1>2. Fewer(Front(unsorted), unsorted, {c}) /\ c \in ToSet(unsorted) BY <1>1, FrontFewer
<1>3. c \in Binned BY <1>2, InBinned DEF OwnInv
<1>4. c \in DOMAIN hdr /\ c \in Int BY <1>1, <1>2, AddressOf
<1>5. hdr[c].sz \in Nat /\ hdr[c].sz >= MINSIZE BY <1>3, ListedSize
<1>6. Front(unsorted) \in Seq(Int) BY <1>2 DEF Fewer, Once
<1> QED BY <1>2, <1>3, <1>4, <1>5, <1>6, ChunksAre, PlacesAre, BinPlacesAre, PlacesAt

(* Lemma: an exact fit goes to the call or to the cache.                   *)
LEMMA OwnExactFit ==
  ASSUME OwnInv, NEW t \in Threads, ExactFit(t)
  PROVE  OwnInv' /\ HeapStep
<1> PICK nb : nb = op[t].nb OBVIOUS
<1> PICK c : c = Last(unsorted) OBVIOUS
<1>1. InSearch(op[t]) /\ op[t].pc = "unsorted" /\ lock = t
  BY DEF ExactFit, Unsorted, Holds, InSearch
<1>2. /\ op[t] \in Call_ /\ CallSound(op[t], hdr) /\ op[t].chain = <<>> /\ op[t].v = None
      /\ nb \in Int /\ nb >= MINSIZE
  BY <1>1, SearchFacts
<1>3. /\ unsorted # <<>> /\ hdr[c].sz = nb /\ hdr' = SetInuse(hdr, c)
      /\ unsorted' = Front(unsorted)
      /\ UNCHANGED <<lock, top, system_mem, fastVars, bins, binmap, last_remainder, live>>
  BY DEF ExactFit, Unsorted
<1>4. /\ Fewer(Front(unsorted), unsorted, {c}) /\ c \in DOMAIN hdr /\ c \in Int
      /\ c \in ChunksAt(UnsortedPl) /\ UnsortedPl \in Places /\ UnsortedPl \in BinPlaces
      /\ UnsortedPl.at = "unsorted" /\ Front(unsorted) \in Seq(Int)
  BY <1>3, LastUnsorted
<1>5. Leaves(UnsortedPl, c) BY <1>3, <1>4, LeavesAre
<1>6. \A i \in BinIndices : BinPl(i) = UnsortedPl => Descends(bins'[i], hdr) BY PlacesAt
<1>7. CASE CacheWanted(t, nb)
  <2> PICK d : d = [op[t] EXCEPT !.cached = TRUE] BY Zenon
  <2>1. /\ tcache' = [tcache EXCEPT ![t][nb] = <<c>> \o @] /\ op' = [op EXCEPT ![t] = d]
        /\ nb \in TcacheSizes
    BY <1>7, CallSet DEF ExactFit, CacheWanted, OwnInv, Shaped
  <2>2. d \in Call_ BY <1>2, CallWith, Zenon
  <2>3. Same(d, op[t]) /\ d.pc = "unsorted" /\ d.v = op[t].v /\ d.chain = op[t].chain
    BY <1>1, <1>2 DEF Same, Call_
  <2>4. CallSound(d, hdr)
    <3>1. InSearch(d) BY <2>3 DEF InSearch
    <3> QED BY <1>1, <1>2, <2>3, <3>1, GoOn, Zenon
  <2>5. PICK r : r = <<c>> \o tcache[t][nb] BY Zenon
  <2>6. r \in Seq(Int) BY <1>4, <2>1, <2>5 DEF OwnInv, Shaped
  <2>7. /\ tcache' \in [Threads -> [TcacheSizes -> Seq(Int)]] /\ tcache'[t][nb] = r
        /\ \A u \in Threads, x \in TcacheSizes :
             u # t \/ x # nb => tcache'[u][x] = tcache[u][x]
    <3>1. tcache' = [tcache EXCEPT ![t][nb] = r] BY <2>1, <2>5
    <3>2. tcache \in [Threads -> [TcacheSizes -> Seq(Int)]] BY DEF OwnInv, Shaped
    <3> QED BY <2>1, <2>6, <3>1, <3>2, SMTT(40)
  <2>8. Shaped' BY <1>3, <1>4, <2>1, <2>2, <2>7, ShapedBy, Zenon
    DEF OwnInv, Shaped, fastVars
  <2>9. OnlyLists({UnsortedPl, CachePl(t, nb)}) BY <1>3, <2>7 DEF OnlyLists, fastVars
  <2>10. UNCHANGED <<top, system_mem, live>> /\ Untied(c, UnsortedPl, CachePl(t, nb))
    BY <1>3, BinPlacesAre DEF Untied
  <2>11. d.p = op[t].p BY <2>3 DEF Same
  <2> QED BY <1>3, <1>4, <1>5, <1>6, <2>1, <2>2, <2>3, <2>4, <2>5, <2>7, <2>8, <2>9, <2>10,
    <2>11,
          ToCache, Zenon
<1>8. CASE ~CacheWanted(t, nb)
  <2>1. Got(t, c) /\ tcache' = tcache BY <1>8 DEF ExactFit
  <2>2. PICK d \in Call_ : /\ op' = [op EXCEPT ![t] = d] /\ Same(d, op[t]) /\ d.pc = "got"
                           /\ d.v = c /\ d.chain = op[t].chain
    BY <1>4, <2>1, GotCall DEF OwnInv
  <2>3. Within(hdr[c].sz, nb) BY <1>2, <1>3 DEF Within, MINSIZE
  <2>4. CallSound(d, hdr) BY <1>1, <2>2, <2>3, GotSound
  <2>5. Shaped' BY <1>3, <1>4, <2>1, <2>2, ShapedBy DEF OwnInv, Shaped, fastVars
  <2>6. OnlyLists({UnsortedPl}) BY <1>3, <2>1 DEF OnlyLists, fastVars
  <2>7. UNCHANGED <<top, system_mem, live>> /\ Untied(c, UnsortedPl, VPl(t))
    BY <1>3, BinPlacesAre DEF Untied
  <2>8. d.p = op[t].p BY <2>2 DEF Same
  <2> QED BY <1>2, <1>4, <1>5, <1>6, <2>2, <2>4, <2>5, <2>6, <2>7, <2>8, ToHand, Zenon
<1> QED BY <1>7, <1>8

(* Lemma: a chunk stashed earlier is taken back from the cache.            *)
LEMMA OwnReturnCached ==
  ASSUME OwnInv, CacheInv, NEW t \in Threads, ReturnCached(t)
  PROVE  OwnInv' /\ HeapStep
<1> PICK nb : nb = op[t].nb OBVIOUS
<1> PICK s : s = tcache[t][nb] OBVIOUS
<1> PICK c : c = Head(s) OBVIOUS
<1>1. InSearch(op[t]) /\ op[t].pc = "fit" /\ lock = t /\ op[t].cached
  BY DEF ReturnCached, Holds, InSearch
<1>2. nb \in TcacheSizes /\ s # <<>> BY <1>1 DEF CacheInv, Owing, Searching
<1>3. op[t].v = None /\ nb \in Int /\ nb >= MINSIZE BY <1>1, SearchFacts
<1>4. /\ Got(t, c) /\ tcache' = [tcache EXCEPT ![t][nb] = Tail(s)]
      /\ UNCHANGED <<lock, heapVars, fastVars, binVars, live>>
  BY DEF ReturnCached
<1>5. Once(s) /\ ToSet(s) \subseteq DOMAIN hdr /\ \A x \in ToSet(s) : hdr[x].sz = nb
  BY <1>2, ListsAre
<1>6. Fewer(Tail(s), s, {c}) /\ c \in ToSet(s) BY <1>2, <1>5, TailFewer, Zenon
<1>7. c \in Int /\ c \in DOMAIN hdr /\ hdr[c].sz = nb BY <1>5, <1>6, AddressOf
<1>8. PICK d \in Call_ : /\ op' = [op EXCEPT ![t] = d] /\ Same(d, op[t]) /\ d.pc = "got"
                         /\ d.v = c /\ d.chain = op[t].chain
  BY <1>4, <1>7, GotCall DEF OwnInv
<1>9. CallSound(d, hdr)
  <2>1. Within(hdr[c].sz, nb) BY <1>3, <1>7 DEF Within, MINSIZE
  <2> QED BY <1>1, <1>8, <2>1, GotSound
<1>10. /\ tcache' \in [Threads -> [TcacheSizes -> Seq(Int)]] /\ tcache'[t][nb] = Tail(s)
       /\ \A u \in Threads, x \in TcacheSizes :
            u # t \/ x # nb => tcache'[u][x] = tcache[u][x]
  <2>1. Tail(s) \in Seq(Int) BY <1>6 DEF Fewer, Once
  <2>2. tcache \in [Threads -> [TcacheSizes -> Seq(Int)]] BY DEF OwnInv, Shaped
  <2> QED BY <1>2, <1>4, <2>1, <2>2
<1>11. Shaped' BY <1>4, <1>8, <1>10, ShapedBy DEF OwnInv, Shaped, fastVars, binVars
<1>12. /\ CachePl(t, nb) \in Places /\ CachePl(t, nb).at = "cache"
       /\ c \in ChunksAt(CachePl(t, nb)) /\ CachePl(t, nb) \notin BinPlaces
  BY <1>2, <1>6, PlacesAre, PlacesAt, ChunksAre, BinPlacesAre
<1>13. Leaves(CachePl(t, nb), c)
  <2>1. Fewer(tcache'[t][nb], tcache[t][nb], {c}) BY <1>6, <1>10
  <2> QED BY <2>1, LeavesAre, Zenon
<1>14. OnlyLists({CachePl(t, nb)}) BY <1>4, <1>10 DEF OnlyLists, fastVars, heapVars, binVars
<1>15. UNCHANGED <<top, system_mem, live>> /\ Untied(c, CachePl(t, nb), VPl(t))
  BY <1>4, <1>12, BinPlacesAre DEF Untied, heapVars
<1>16. \A i \in BinIndices : BinPl(i) = CachePl(t, nb) => Descends(bins'[i], hdr) BY PlacesAt
<1>17. d.p = op[t].p BY <1>8 DEF Same
<1> QED BY <1>3, <1>8, <1>9, <1>11, <1>12, <1>13, <1>14, <1>15, <1>16, <1>17, ToHand, Zenon

(* Lemma: StartSearch, UnsortedDone, SearchAgain.                          *)
LEMMA OwnSearchGoesOn ==
  ASSUME OwnInv, NEW t \in Threads, StartSearch(t) \/ UnsortedDone(t) \/ SearchAgain(t)
  PROVE  OwnInv' /\ HeapStep
<1>1. /\ op[t].pc \in {"int_malloc", "unsorted", "fit"} /\ lock = t /\ lock' = lock
      /\ UNCHANGED <<heapVars, fastVars, bins, unsorted, last_remainder, tcache, live>>
      /\ binmap' \subseteq binmap
  <2>1. CASE StartSearch(t) BY <2>1 DEF StartSearch, Holds, binVars
  <2>2. CASE UnsortedDone(t) BY <2>2 DEF UnsortedDone, Holds, binVars
  <2>3. CASE SearchAgain(t)
    BY <2>3 DEF SearchAgain, NoBinFits, Holds, binVars, Scanned
  <2> QED BY <2>1, <2>2, <2>3
<1>2. InSearch(op[t]) BY <1>1 DEF InSearch
<1>3. /\ op[t] \in Call_ /\ CallSound(op[t], hdr) /\ op[t].chain = <<>> /\ op[t].v = None
  BY <1>1, <1>2, SearchFacts
<1>4. \E d \in Call_ : /\ op' = [op EXCEPT ![t] = d] /\ Same(d, op[t]) /\ d.v = None
                       /\ d.chain = <<>>
                       /\ \/ d.pc \in {"unsorted", "fit"}
                          \/ d.pc = "consolidate" /\ d.after = "unsorted"
  <2>1. CASE StartSearch(t)
    <3> DEFINE e == [op[t] EXCEPT !.pc = "unsorted"]
               f == [e EXCEPT !.iters = 0]
               g == [f EXCEPT !.sorted = 0]
               s == [g EXCEPT !.cached = FALSE]
               x == [s EXCEPT !.pc = "consolidate"]
               y == [x EXCEPT !.after = "unsorted"]
    <3>1. e \in Call_ /\ Same(e, op[t]) /\ e.pc = "unsorted" /\ e.v = None /\ e.chain = <<>>
      <4>1. e \in Call_ BY <1>3, CallWith, Zenon DEF LockedPCs
      <4> QED BY <1>3, <4>1 DEF Same, Call_
    <3>2. Search(op[t]) = s BY DEF Search
    <3> HIDE DEF e
    <3>3. f \in Call_ /\ Same(f, op[t]) /\ f.pc = "unsorted" /\ f.v = None /\ f.chain = <<>>
      <4>1. f \in Call_ BY <3>1, 0 \in Int, CallWith, Zenon
      <4> QED BY <3>1, <4>1, Zenon DEF Same, Call_
    <3> HIDE DEF f
    <3>4. g \in Call_ /\ Same(g, op[t]) /\ g.pc = "unsorted" /\ g.v = None /\ g.chain = <<>>
      <4>1. g \in Call_ BY <3>3, 0 \in Int, CallWith, Zenon
      <4> QED BY <3>3, <4>1, Zenon DEF Same, Call_
    <3> HIDE DEF g
    <3>5. s \in Call_ /\ Same(s, op[t]) /\ s.pc = "unsorted" /\ s.v = None /\ s.chain = <<>>
      <4>1. s \in Call_ BY <3>4, CallWith, Zenon
      <4> QED BY <3>4, <4>1, Zenon DEF Same, Call_
    <3>6. [Search(op[t]) EXCEPT !.pc = "consolidate", !.after = "unsorted"] = y BY <3>2
    <3> HIDE DEF s
    <3>7. x \in Call_ /\ Same(x, op[t]) /\ x.pc = "consolidate" /\ x.v = None /\ x.chain = <<>>
      <4>1. x \in Call_ BY <3>5, CallWith, Zenon DEF LockedPCs
      <4> QED BY <3>5, <4>1, Zenon DEF Same, Call_
    <3> HIDE DEF x
    <3>8. y \in Call_ /\ Same(y, op[t]) /\ y.pc = "consolidate" /\ y.v = None /\ y.chain = <<>>
          /\ y.after = "unsorted"
      <4>1. y \in Call_ BY <3>7, CallWith, Zenon
      <4> QED BY <3>7, <4>1, Zenon DEF Same, Call_
    <3>9. op' = [op EXCEPT ![t] = y] \/ op' = [op EXCEPT ![t] = s]
      BY <2>1, <3>2, <3>6, Zenon DEF StartSearch
    <3> QED BY <3>5, <3>8, <3>9, Zenon
  <2>2. CASE UnsortedDone(t)
    <3> DEFINE d == [op[t] EXCEPT !.pc = "fit"]
    <3>1. op' = [op EXCEPT ![t] = d] BY <2>2 DEF UnsortedDone, OwnInv, Shaped
    <3>2. d \in Call_ BY <1>3, CallWith, Zenon DEF LockedPCs
    <3>3. Same(d, op[t]) /\ d.v = None /\ d.chain = <<>> /\ d.pc = "fit"
      BY <1>3 DEF Same, Call_
    <3> QED BY <3>1, <3>2, <3>3, Zenon
  <2>3. CASE SearchAgain(t)
    <3> DEFINE e == [op[t] EXCEPT !.pc = "consolidate"]
               f == [e EXCEPT !.after = "unsorted"]
               d == [f EXCEPT !.iters = 0]
    <3>1. op' = [op EXCEPT ![t] = d] BY <2>3, Zenon DEF SearchAgain, OwnInv, Shaped
    <3>2. e \in Call_ /\ Same(e, op[t]) /\ e.pc = "consolidate" /\ e.v = None /\ e.chain = <<>>
      <4>1. e \in Call_ BY <1>3, CallWith, Zenon DEF LockedPCs
      <4> QED BY <1>3, <4>1 DEF Same, Call_
    <3> HIDE DEF e
    <3>3. f \in Call_ /\ Same(f, op[t]) /\ f.pc = "consolidate" /\ f.v = None /\ f.chain = <<>>
          /\ f.after = "unsorted"
      <4>1. f \in Call_ BY <3>2, CallWith, Zenon
      <4> QED BY <3>2, <4>1, Zenon DEF Same, Call_
    <3> HIDE DEF f
    <3>4. d \in Call_ /\ Same(d, op[t]) /\ d.pc = "consolidate" /\ d.v = None /\ d.chain = <<>>
          /\ d.after = "unsorted"
      <4>1. d \in Call_ BY <3>3, 0 \in Int, CallWith, Zenon
      <4> QED BY <3>3, <4>1, Zenon DEF Same, Call_
    <3> QED BY <3>1, <3>4, Zenon
  <2> QED BY <2>1, <2>2, <2>3
<1>5. PICK d \in Call_ : /\ op' = [op EXCEPT ![t] = d] /\ Same(d, op[t]) /\ d.v = None
                         /\ d.chain = <<>>
                         /\ \/ d.pc \in {"unsorted", "fit"}
                            \/ d.pc = "consolidate" /\ d.after = "unsorted"
  BY <1>4, Zenon
<1>6. CallSound(d, hdr)
  <2>1. InSearch(d) BY <1>5 DEF InSearch
  <2> QED BY <1>2, <1>3, <1>5, <2>1, GoOn
<1>7. Shaped'
  BY <1>1, <1>5, CallShaped DEF OwnInv, Shaped, fastVars
<1> QED BY <1>1, <1>3, <1>5, <1>6, <1>7, StayCall, Zenon DEF Same, fastVars

(* Lemma: two chunks move at once, between four places.                    *)
LEMMA TwoPlacing ==
  ASSUME OwnInv, NEW from \in Places, NEW to \in Places, NEW away \in Places, NEW home \in Places,
         from \notin {to, away, home}, to \notin {away, home}, away # home,
         NEW c \in ChunksAt(from), NEW x \in ChunksAt(away),
         Leaves(from, c), Joins(to, c), Leaves(away, x), Joins(home, x),
         Only({from, to, away, home}), hdr' = hdr,
         NEW dest, dest = [y \in {c, x} |-> IF y = c THEN to ELSE home]
  PROVE  Placing({from, to, away, home}, {c, x}, {c, x}, dest) /\ c # x
<1>1. /\ c \in DOMAIN hdr /\ x \in DOMAIN hdr /\ c # x
      /\ c \notin ChunksAt(to) /\ c \notin ChunksAt(away) /\ c \notin ChunksAt(home)
      /\ x \notin ChunksAt(from) /\ x \notin ChunksAt(to) /\ x \notin ChunksAt(home)
  BY DEF OwnInv, Owned
<1>2. dest[c] = to /\ dest[x] = home BY <1>1
<1>3. /\ {y \in {c, x} : dest[y] = from} = {} /\ {y \in {c, x} : dest[y] = away} = {}
      /\ {y \in {c, x} : dest[y] = to} = {c} /\ {y \in {c, x} : dest[y] = home} = {x}
  BY <1>2
<1>4. ASSUME NEW pl \in {from, to, away, home}
      PROVE  ChunksAt(pl)' = (ChunksAt(pl) \ {c, x}) \cup {y \in {c, x} : dest[y] = pl}
             /\ Once(ListAt(pl)')
  <2>1. CASE pl = from BY <1>1, <1>3, <2>1 DEF Leaves
  <2>2. CASE pl = to BY <1>1, <1>3, <2>2 DEF Joins
  <2>3. CASE pl = away BY <1>1, <1>3, <2>3 DEF Leaves
  <2>4. CASE pl = home BY <1>1, <1>3, <2>4 DEF Joins
  <2> QED BY <2>1, <2>2, <2>3, <2>4
<1>5. (DOMAIN hdr \ {c, x}) \cup {c, x} = DOMAIN hdr BY <1>1
<1>6. \A y \in {c, x} : \E pl \in {from, to, away, home} : y \in ChunksAt(pl) OBVIOUS
<1>7. \A y \in {c, x} : dest[y] \in {from, to, away, home} BY <1>2
<1> QED BY <1>1, <1>4, <1>5, <1>6, <1>7 DEF Placing

(* Lemma: thread t moves two chunks, of which the bins keep what they had. *)
LEMMA TwoKeep ==
  ASSUME OwnInv, Shaped', NEW t \in Threads,
         NEW from \in Places, NEW to \in Places, NEW away \in Places, NEW home \in Places,
         from \notin {to, away, home}, to \notin {away, home}, away # home,
         NEW c \in ChunksAt(from), NEW x \in ChunksAt(away),
         Leaves(from, c), Joins(to, c), Leaves(away, x), Joins(home, x),
         Only({from, to, away, home}),
         UNCHANGED heapVars,
         from \in BinPlaces <=> to \in BinPlaces, away \notin BinPlaces, home \notin BinPlaces,
         MayBeAt(to, hdr[c].sz), MayBeAt(home, hdr[x].sz),
         \A u \in Threads \ {t} : op'[u] = op[u] /\ PPl(u) \notin {from, to, away, home}
                                                 /\ VPl(u) \notin {from, to, away, home},
         CallSound(op'[t], hdr),
         \A p \in DOMAIN live' : \/ p \in DOMAIN live \ {c, x} /\ live'[p] = live[p]
                                 \/ Within(hdr[p].sz, live'[p]),
         \A i \in BinIndices : BinPl(i) \in {from, to} => Descends(bins'[i], hdr)
  PROVE  OwnInv' /\ HeapStep
<1>1. PICK dest : dest = [y \in {c, x} |-> IF y = c THEN to ELSE home] BY Zenon
<1>2. hdr' = hdr /\ top' = top /\ system_mem' = system_mem BY DEF heapVars
<1>3. Placing({from, to, away, home}, {c, x}, {c, x}, dest) /\ c # x BY <1>1, <1>2,
  TwoPlacing, Zenon
<1>4. dest[c] = to /\ dest[x] = home BY <1>1, <1>3
<1>5. /\ c \in DOMAIN hdr /\ \A pl \in Places : pl # from => c \notin ChunksAt(pl)
      /\ x \in DOMAIN hdr /\ \A pl \in Places : pl # away => x \notin ChunksAt(pl)
  BY DEF OwnInv, Owned
<1>6. BinPlaces \subseteq Places BY PlacesAre DEF BinPlaces
<1>7. (c \in Binned <=> from \in BinPlaces) /\ x \notin Binned
  <2>1. Binned = UNION {ChunksAt(pl) : pl \in BinPlaces} BY BinnedIs DEF OwnInv, Shaped
  <2> QED BY <1>5, <1>6, <2>1
<1>8. Binned' = (Binned \ {c, x}) \cup {y \in {c, x} : dest[y] \in BinPlaces}
  BY <1>3, PlacedBinned DEF OwnInv
<1>9. Binned' = Binned BY <1>4, <1>7, <1>8
<1>10. HeapStep BY <1>2, <1>9 DEF HeapStep
<1>11. Leaving(t, {from, to, away, home}, {c, x}, {c, x}, dest)
  <2>1. \A y \in {c, x} : MayBeAt(dest[y], hdr'[y].sz) BY <1>2, <1>4
  <2>2. \A i \in BinIndices : BinPl(i) \in {from, to, away, home} => Descends(bins'[i], hdr')
    BY <1>2, BinPlacesAre
  <2>3. \A p \in DOMAIN live' : \/ p \in DOMAIN live \ {c, x} /\ live'[p] = live[p]
                                \/ Within(hdr'[p].sz, live'[p])
    BY <1>2
  <2>4. CallSound(op'[t], hdr') BY <1>2
  <2> QED BY <1>10, <2>1, <2>2, <2>3, <2>4 DEF Leaving
<1> QED BY <1>3, <1>10, <1>11, LeavingKeeps

(* Lemma: the unsorted list's last chunk goes to its bin, in order.        *)
LEMMA OwnSortVictim ==
  ASSUME OwnInv, CacheInv, NEW t \in Threads, SortVictim(t)
  PROVE  OwnInv' /\ HeapStep
<1> PICK nb : nb = op[t].nb OBVIOUS
<1> PICK c : c = Last(unsorted) OBVIOUS
<1> PICK i : i = BinIndex(hdr[c].sz) OBVIOUS
<1> PICK call : call = [op[t] EXCEPT !.iters = @ + 1, !.sorted = @ + 1] OBVIOUS
<1> PICK limited \in BOOLEAN :
       limited = (call.cached /\ UnsortedLimit > 0 /\ call.sorted > UnsortedLimit)
  BY Zenon
<1>1. InSearch(op[t]) /\ op[t].pc = "unsorted" /\ lock = t
  BY DEF SortVictim, Unsorted, Holds, InSearch
<1>2. /\ op[t] \in Call_ /\ CallSound(op[t], hdr) /\ op[t].chain = <<>> /\ op[t].v = None
      /\ nb \in Int /\ nb >= MINSIZE
  BY <1>1, SearchFacts
<1>3. /\ unsorted # <<>> /\ unsorted' = Front(unsorted)
      /\ bins' = [bins EXCEPT ![i] = Placed(@, c)] /\ binmap' = binmap \cup {i}
      /\ UNCHANGED <<lock, heapVars, fastVars, last_remainder, live>>
  BY DEF SortVictim, Unsorted
<1>4. /\ Fewer(Front(unsorted), unsorted, {c}) /\ c \in DOMAIN hdr /\ c \in Int
      /\ hdr[c].sz \in Nat /\ hdr[c].sz >= MINSIZE /\ c \in Binned
      /\ c \in ChunksAt(UnsortedPl) /\ UnsortedPl \in Places /\ UnsortedPl \in BinPlaces
      /\ UnsortedPl.at = "unsorted" /\ Front(unsorted) \in Seq(Int)
  BY <1>3, LastUnsorted, Zenon
<1>5. i \in BinIndices BY <1>4, IndexIs
<1>6. BinPl(i) \in Places /\ BinPl(i) \in BinPlaces /\ BinPl(i).at = "bin"
  BY <1>5, PlacesAre, PlacesAt, BinPlacesAre
<1>7. More(Placed(bins[i], c), bins[i], c) /\ Descends(Placed(bins[i], c), hdr)
  <2>1. /\ Once(bins[i]) /\ Descends(bins[i], hdr) /\ ToSet(bins[i]) \subseteq DOMAIN hdr
        /\ \A d \in ToSet(bins[i]) : BinIndex(hdr[d].sz) = i
    BY <1>5, ListsAre
  <2>2. c \notin ToSet(bins[i])
    <3>1. c \notin ChunksAt(BinPl(i)) BY <1>4, <1>6 DEF OwnInv, Owned
    <3> QED BY <3>1, ChunksAre
  <2>3. ToSet(bins[i]) \subseteq Binned BY <1>5, InBinned DEF OwnInv
  <2>4. \A d \in ToSet(bins[i]) : hdr[d].sz \in Nat /\ hdr[d].sz >= MINSIZE
    BY <2>3, ListedSize
  <2>5. ASSUME InSmallbinRange(hdr[c].sz), NEW d \in ToSet(bins[i]) PROVE hdr[d].sz = hdr[c].sz
    <3>1. i = hdr[c].sz BY <1>4, <2>5, IndexIs
    <3>2. BinIndex(hdr[d].sz) = i BY <2>1
    <3> QED BY <2>4, <2>5, <3>1, <3>2, SmallIs
  <2> QED BY <1>4, <2>1, <2>2, <2>4, <2>5, PlacedMore
<1>8. PICK r : r = Placed(bins[i], c) OBVIOUS
<1>9. /\ bins' \in [BinIndices -> Seq(Int)] /\ bins'[i] = r
      /\ \A x \in BinIndices \ {i} : bins'[x] = bins[x]
  <2>1. r \in Seq(Int) BY <1>7, <1>8 DEF More, Once
  <2>2. bins' = [bins EXCEPT ![i] = r] BY <1>3, <1>8
  <2>3. bins \in [BinIndices -> Seq(Int)] BY DEF OwnInv, Shaped
  <2> QED BY <1>5, <2>1, <2>2, <2>3
<1>10. Leaves(UnsortedPl, c) /\ Joins(BinPl(i), c)
  BY <1>3, <1>4, <1>7, <1>8, <1>9, LeavesAre, JoinsAre, SMTT(40)
<1>11. call \in Call_ /\ Same(call, op[t]) /\ call.pc = "unsorted" /\ call.v = None
       /\ call.chain = <<>> /\ call.cached = op[t].cached
  <2> DEFINE e == [op[t] EXCEPT !.iters = op[t].iters + 1]
  <2>1. op[t].iters + 1 \in Int /\ op[t].sorted + 1 \in Int BY <1>2 DEF Call_
  <2>2. call = [e EXCEPT !.sorted = op[t].sorted + 1] BY <1>2 DEF Call_
  <2>3. e \in Call_ BY <1>2, <2>1, CallWith, Zenon
  <2>4. e.pc = "unsorted" /\ e.v = None /\ e.chain = <<>> /\ Same(e, op[t])
        /\ e.cached = op[t].cached
    BY <1>1, <1>2 DEF Same, Call_
  <2> HIDE DEF e
  <2>5. [e EXCEPT !.sorted = op[t].sorted + 1] \in Call_
    BY <2>1, <2>3, CallWith, Zenon
  <2>6. call \in Call_ BY <2>2, <2>5, Zenon
  <2> QED BY <2>2, <2>3, <2>4, <2>6, ZenonT(40) DEF Same, Call_
<1>12. binmap' \subseteq BinIndices BY <1>3, <1>5 DEF OwnInv, Shaped
<1>13. CASE ~limited
  <2> PICK d : d = [call EXCEPT !.pc = IF call.iters >= MaxIters THEN "fit" ELSE @] OBVIOUS
  <2>1. op' = [op EXCEPT ![t] = d] /\ tcache' = tcache BY <1>13, Zenon DEF SortVictim
  <2>2. d \in Call_ /\ Same(d, op[t]) /\ d.pc \in {"unsorted", "fit"} /\ d.v = None
        /\ d.chain = <<>>
    <3>1. PICK pc : pc = IF call.iters >= MaxIters THEN "fit" ELSE call.pc OBVIOUS
    <3>2. pc \in {"unsorted", "fit"} BY <1>11, <3>1
    <3>3. d = [call EXCEPT !.pc = pc] BY <1>11, <3>1, Zenon DEF Call_
    <3>4. d \in Call_
      <4>1. pc \in LockedPCs \cup UnlockedPCs BY <3>2 DEF LockedPCs
      <4>2. [call EXCEPT !.pc = pc] \in Call_ BY <1>11, <4>1, CallWith, Zenon
      <4> QED BY <3>3, <4>2
    <3> QED BY <1>11, <3>2, <3>3, <3>4, SMTT(40) DEF Same, Call_
  <2>3. CallSound(d, hdr)
    <3>1. InSearch(d) BY <2>2 DEF InSearch
    <3> QED BY <1>1, <1>2, <2>2, <3>1, GoOn, Zenon
  <2>4. Shaped' BY <1>3, <1>4, <1>9, <1>12, <2>1, <2>2, ShapedBy DEF OwnInv, Shaped, fastVars
  <2>5. op'[t] = d /\ \A u \in Threads \ {t} : op'[u] = op[u] BY <2>1, <2>2, CallSet,
    Zenon DEF OwnInv
  <2>6. Only({UnsortedPl, BinPl(i)})
    <3>1. OnlyLists({UnsortedPl, BinPl(i)})
      BY <1>3, <1>9, <2>1 DEF OnlyLists, fastVars, heapVars
    <3> QED BY <1>2, <2>1, <2>2, <3>1, OnlyIs, Zenon DEF OwnInv, Same
  <2>7. \A u \in Threads \ {t} : op'[u] = op[u] /\ PPl(u) \notin {UnsortedPl, BinPl(i)}
                                                /\ VPl(u) \notin {UnsortedPl, BinPl(i)}
    BY <2>5, PlacesAt
  <2>8. hdr' = hdr /\ UNCHANGED <<top, system_mem>> BY <1>3 DEF heapVars
  <2>9. \A p \in DOMAIN live' : \/ p \in DOMAIN live \ {c} /\ live'[p] = live[p]
                                \/ Within(hdr[p].sz, live'[p]) /\ p \in DOMAIN hdr
    BY <1>3, ChunksAre, PlacesAre DEF OwnInv, LiveFits, Within, Owned
  <2>10. \A x \in BinIndices : BinPl(x) \in {UnsortedPl, BinPl(i)} => Descends(bins'[x], hdr')
    BY <1>7, <1>8, <1>9, <2>8, PlacesAt
  <2>11. MayBeAt(BinPl(i), hdr[c].sz) BY MayBe
  <2>12. UnsortedPl # BinPl(i) BY PlacesAt
  <2>13. CallSound(op'[t], hdr') BY <2>3, <2>5, <2>8, SMTT(40)
  <2> QED BY <1>4, <1>6, <1>10, <2>4, <2>6, <2>7, <2>8, <2>9, <2>10, <2>11, <2>12, <2>13, MoveKeeps
<1>14. CASE limited
  <2> PICK s : s = tcache[t][nb] OBVIOUS
  <2> PICK x : x = Head(s) OBVIOUS
  <2>1. Got(t, x) /\ tcache' = [tcache EXCEPT ![t][nb] = Tail(s)] BY <1>14, Zenon
    DEF SortVictim
  <2>2. nb \in TcacheSizes /\ s # <<>> BY <1>1, <1>11, <1>14, Zenon DEF CacheInv, Owing, Searching
  <2>3. Once(s) /\ ToSet(s) \subseteq DOMAIN hdr /\ \A y \in ToSet(s) : hdr[y].sz = nb
    BY <2>2, ListsAre
  <2>4. Fewer(Tail(s), s, {x}) /\ x \in ToSet(s) BY <2>2, <2>3, TailFewer, Zenon
  <2>5. x \in Int /\ x \in DOMAIN hdr /\ x # None /\ hdr[x].sz = nb BY <2>3, <2>4, AddressOf
  <2>6. PICK d \in Call_ : /\ op' = [op EXCEPT ![t] = d] /\ Same(d, op[t]) /\ d.pc = "got"
                           /\ d.v = x /\ d.chain = op[t].chain
    BY <2>1, <2>5, GotCall DEF OwnInv
  <2>7. CallSound(d, hdr)
    <3>1. Within(hdr[x].sz, nb) BY <1>2, <2>5 DEF Within, MINSIZE
    <3> QED BY <1>1, <2>6, <3>1, GotSound
  <2>8. /\ tcache' \in [Threads -> [TcacheSizes -> Seq(Int)]] /\ tcache'[t][nb] = Tail(s)
        /\ \A u \in Threads, y \in TcacheSizes :
             u # t \/ y # nb => tcache'[u][y] = tcache[u][y]
    <3>1. Tail(s) \in Seq(Int) BY <2>4 DEF Fewer, Once
    <3>2. tcache \in [Threads -> [TcacheSizes -> Seq(Int)]] BY DEF OwnInv, Shaped
    <3> QED BY <2>1, <2>2, <3>1, <3>2
  <2>9. Shaped' BY <1>3, <1>4, <1>9, <1>12, <2>6, <2>8, ShapedBy, Zenon
    DEF OwnInv, Shaped, fastVars
  <2> PICK away : away = CachePl(t, nb) OBVIOUS
  <2> PICK home : home = VPl(t) OBVIOUS
  <2>10. /\ away \in Places /\ home \in Places /\ away.at = "cache" /\ home.at = "v"
         /\ x \in ChunksAt(away) /\ away \notin BinPlaces /\ home \notin BinPlaces
    BY <2>2, <2>4, PlacesAre, PlacesAt, ChunksAre, BinPlacesAre
  <2>11. op'[t] = d /\ \A u \in Threads \ {t} : op'[u] = op[u] BY <2>6, CallSet, Zenon
    DEF OwnInv
  <2>12. Leaves(away, x)
    <3>1. Fewer(tcache'[t][nb], tcache[t][nb], {x}) BY <2>4, <2>8
    <3> QED BY <3>1, LeavesAre, Zenon
  <2>13. Joins(home, x) BY <1>2, <2>5, <2>6, <2>11, JoinsAre
  <2> PICK Q : Q = {UnsortedPl, BinPl(i), away, home} BY Zenon
  <2>14. Only(Q)
    <3>1. OnlyLists(Q) BY <1>3, <1>9, <2>8 DEF OnlyLists, fastVars, heapVars
    <3> QED BY <1>2, <2>6, <3>1, OnlyIs, Zenon DEF OwnInv, Same
  <2>15. \A u \in Threads \ {t} : op'[u] = op[u] /\ PPl(u) \notin Q /\ VPl(u) \notin Q
    BY <1>4, <1>6, <2>10, <2>11, PlacesAt
  <2>16. UNCHANGED heapVars BY <1>3
  <2>17. \A p \in DOMAIN live' : \/ p \in DOMAIN live \ {c, x} /\ live'[p] = live[p]
                                 \/ Within(hdr[p].sz, live'[p])
    BY <1>3 DEF OwnInv, LiveFits, Within
  <2>18. \A y \in BinIndices : BinPl(y) \in {UnsortedPl, BinPl(i)} => Descends(bins'[y], hdr)
    BY <1>7, <1>8, <1>9, PlacesAt
  <2>19. MayBeAt(BinPl(i), hdr[c].sz) /\ MayBeAt(home, hdr[x].sz) BY MayBe
  <2>20. UnsortedPl \notin {BinPl(i), away, home} /\ BinPl(i) \notin {away, home} /\ away # home
    BY <1>4, <1>6, <2>10
  <2>21. CallSound(op'[t], hdr) BY <2>7, <2>11
  <2> QED BY <1>4, <1>6, <1>10, <2>9, <2>10, <2>12, <2>13, <2>14, <2>15, <2>16, <2>17, <2>18,
             <2>19, <2>20, <2>21, TwoKeep
<1> QED BY <1>13, <1>14

(* Lemma: what is soundly said of a call does not depend on its counters.  *)
LEMMA SameSound ==
  ASSUME NEW c, NEW d, NEW h, CallSound(d, h), Same(c, d), c.pc = d.pc, c.v = d.v,
         c.after = d.after, c.k = d.k, c.chain # <<>> => c.pc = "consolidate", c.pc # "idle"
  PROVE  CallSound(c, h)
<1>1. d.p # None => (Outgrown(c, h) <=> Outgrown(d, h)) BY DEF Outgrown, Same
<1>2. InSearch(c) <=> InSearch(d) BY DEF InSearch
<1>3. Searches(d, h) => Searches(c, h) BY <1>1 DEF Searches, Same
<1>4. Brings(d, h) <=> Brings(c, h) BY DEF Brings, Same
<1>5. (Comes(d, "done") <=> Comes(c, "done")) /\ (Comes(d, "aligned") <=> Comes(c, "aligned"))
  BY DEF Comes
<1> QED BY <1>1, <1>2, <1>3, <1>4, <1>5 DEF CallSound, Same

(* Lemma: malloc_consolidate takes a whole fastbin as its chain.           *)
LEMMA OwnConsolidateBegin ==
  ASSUME OwnInv, NEW t \in Threads, ConsolidateBegin(t)
  PROVE  OwnInv' /\ HeapStep
<1> PICK d : d = [op[t] EXCEPT !.fb = MINSIZE] BY Zenon
<1>1. op[t] \in Call_ /\ CallSound(op[t], hdr) BY DEF OwnInv, Shaped, CallsInv
<1>2. /\ op' = [op EXCEPT ![t] = d] /\ op[t].pc = "consolidate" /\ lock = t /\ have_fastchunks' = FALSE
      /\ UNCHANGED <<lock, heapVars, fastbins, binVars, tcache, live>>
  BY DEF ConsolidateBegin, Holds, OwnInv, Shaped
<1>3. d \in Call_
  <2>1. MINSIZE \in Int BY DEF MINSIZE
  <2> QED BY <1>1, <2>1, CallWith, Zenon
<1>4. /\ Same(d, op[t]) /\ d.pc = op[t].pc /\ d.v = op[t].v /\ d.after = op[t].after
      /\ d.k = op[t].k /\ d.chain = op[t].chain
  BY <1>1 DEF Same, Call_
<1>5. CallSound(d, hdr) BY <1>1, <1>2, <1>4, SameSound, Zenon
<1>6. Shaped' BY <1>2, <1>3, CallShaped, Zenon DEF OwnInv, Shaped, binVars
<1> QED BY <1>2, <1>3, <1>4, <1>5, <1>6, StayCall, Zenon DEF Same, binVars

(* Lemma: what a call holds while chunks are consolidated for it, or top   *)
(* is trimmed.                                                             *)
LEMMA ComingFacts ==
  ASSUME OwnInv, LockInv, NEW t \in Threads, NEW k, k = op[t].k,
         op[t].pc = "systrim" \/ (op[t].pc = "consolidate" /\ op[t].after = "systrim")
  PROVE  /\ k \in {"done", "aligned"} /\ op[t].p = None
         /\ op[t].al > 0 /\ op[t].pad >= 0
         /\ k = "done" => Brings(op[t], hdr)
         /\ k = "aligned" => AtPlace(op[t], hdr)
<1>1. CallSound(op[t], hdr) /\ CallOK(op[t]) BY DEF OwnInv, CallsInv, LockInv
<1>2. k \in {"done", "aligned"} BY <1>1 DEF CallOK
<1>3. Comes(op[t], k) BY DEF Comes
<1>4. op[t].al > 0 /\ op[t].pad >= 0 BY <1>1 DEF CallSound
<1>5. CASE k = "done" BY <1>1, <1>3, <1>4, <1>5 DEF CallSound
<1>6. CASE k = "aligned" BY <1>1, <1>3, <1>4, <1>6 DEF CallSound, AtPlace
<1> QED BY <1>2, <1>5, <1>6

(* Lemma: malloc_consolidate ends with no chunk in hand.                   *)
LEMMA OwnConsolidateEnd ==
  ASSUME OwnInv, LockInv, NEW t \in Threads, ConsolidateEnd(t)
  PROVE  OwnInv' /\ HeapStep
<1> DEFINE e == [op[t] EXCEPT !.pc = op[t].after]
           f == [e EXCEPT !.fb = 0]
           d == [f EXCEPT !.after = "idle"]
<1>1. op[t] \in Call_ /\ CallSound(op[t], hdr) /\ CallOK(op[t])
  BY DEF OwnInv, Shaped, CallsInv, LockInv
<1>2. /\ op' = [op EXCEPT ![t] = d] /\ op[t].pc = "consolidate" /\ op[t].chain = <<>>
      /\ UNCHANGED <<lock, heapVars, fastVars, binVars, tcache, live>>
  BY Zenon DEF ConsolidateEnd, Holds, OwnInv, Shaped
<1>3. op[t].after \in {"unsorted", "systrim"} BY <1>1, <1>2 DEF CallOK
<1>4. /\ e \in Call_ /\ Same(e, op[t]) /\ e.pc = op[t].after /\ e.v = op[t].v
      /\ e.k = op[t].k /\ e.chain = <<>>
  <2>1. e \in Call_ BY <1>1, <1>3, CallWith, Zenon DEF LockedPCs
  <2> QED BY <1>1, <1>2, <2>1 DEF Same, Call_
<1> HIDE DEF e
<1>5. /\ f \in Call_ /\ Same(f, op[t]) /\ f.pc = op[t].after /\ f.v = op[t].v
      /\ f.k = op[t].k /\ f.chain = <<>>
  <2>1. f \in Call_ BY <1>4, 0 \in Int, CallWith, Zenon
  <2> QED BY <1>4, <2>1, Zenon DEF Same, Call_
<1> HIDE DEF f
<1>6. /\ d \in Call_ /\ Same(d, op[t]) /\ d.pc = op[t].after /\ d.v = op[t].v
      /\ d.k = op[t].k /\ d.chain = <<>>
  <2>1. d \in Call_ BY <1>5, CallWith, Zenon
  <2> QED BY <1>5, <2>1, Zenon DEF Same, Call_
<1> HIDE DEF d
<1>7. CASE op[t].after = "unsorted"
  <2>1. InSearch(op[t]) /\ InSearch(d) BY <1>2, <1>6, <1>7 DEF InSearch
  <2>2. op[t].v = None BY <1>2, <2>1, SearchFacts
  <2> QED BY <1>1, <1>2, <1>6, <1>7, <2>1, <2>2, GoOn, StayCall, CallShaped, Zenon
          DEF OwnInv, Shaped, Same, fastVars, binVars
<1>8. CASE op[t].after = "systrim"
  <2> PICK k : k = op[t].k OBVIOUS
  <2>1. /\ k \in {"done", "aligned"} /\ op[t].p = None /\ op[t].al > 0 /\ op[t].pad >= 0
        /\ k = "done" => Brings(op[t], hdr)
        /\ k = "aligned" => AtPlace(op[t], hdr)
    BY <1>2, <1>8, ComingFacts
  <2>2. (Brings(op[t], hdr) <=> Brings(d, hdr)) /\ (AtPlace(op[t], hdr) <=> AtPlace(d, hdr))
    BY <1>6 DEF Brings, AtPlace, Same
  <2>3. Comes(d, k) BY <1>6, <1>8 DEF Comes
  <2>4. CallSound(d, hdr) BY <1>6, <1>8, <2>1, <2>2, <2>3, ComingSound DEF Same
  <2>5. Shaped' BY <1>2, <1>6, CallShaped DEF OwnInv, Shaped, fastVars, binVars
  <2> QED BY <1>2, <1>6, <2>4, <2>5, StayCall, Zenon DEF Same, fastVars, binVars
<1> QED BY <1>3, <1>7, <1>8

(* Lemma: malloc hands its chunk to the program.                           *)
LEMMA OwnMallocGot ==
  ASSUME OwnInv, NEW t \in Threads, MallocGot(t)
  PROVE  OwnInv' /\ HeapStep
<1> PICK d : d = [op[t] EXCEPT !.pc = "done"] BY Zenon
<1>1. /\ op' = [op EXCEPT ![t] = d] /\ op[t].pc = "got" /\ op[t].fn = "malloc"
      /\ UNCHANGED <<lock, heapVars, fastVars, binVars, tcache, live>>
  BY DEF MallocGot, Holds, OwnInv, Shaped
<1>2. /\ op[t] \in Call_ /\ CallSound(op[t], hdr) /\ Searches(op[t], hdr) /\ op[t].chain = <<>>
  BY <1>1, SearchFacts DEF InSearch
<1>3. d \in Call_ BY <1>2, CallWith, Zenon DEF LockedPCs
<1>4. Same(d, op[t]) /\ d.pc = "done" /\ d.v = op[t].v /\ d.chain = op[t].chain
  BY <1>2 DEF Same, Call_
<1>5. CallSound(d, hdr)
  <2>1. Brings(d, hdr) /\ d.p = None BY <1>1, <1>2, <1>4 DEF Brings, Same, Searches
  <2>2. d.al > 0 /\ d.pad >= 0 BY <1>2, <1>4 DEF CallSound, Same
  <2> QED BY <1>2, <1>4, <2>1, <2>2, DoneSound, Zenon
<1>6. Shaped' BY <1>1, <1>3, CallShaped DEF OwnInv, Shaped, fastVars, binVars
<1> QED BY <1>1, <1>3, <1>4, <1>5, <1>6, StayCall, Zenon DEF Same, fastVars, binVars

(* Lemma: free's fastbin flag, with the chunk in hand.                     *)
LEMMA OwnFreeFlag ==
  ASSUME OwnInv, NEW t \in Threads, FreeFlag(t)
  PROVE  OwnInv' /\ HeapStep
<1> PICK d : d = [op[t] EXCEPT !.pc = "push"] BY Zenon
<1>1. /\ op' = [op EXCEPT ![t] = d] /\ op[t].pc = "free_chunk" /\ hdr[op[t].p].sz <= MaxFast
      /\ have_fastchunks' = TRUE
      /\ UNCHANGED <<lock, heapVars, fastbins, binVars, tcache, live>>
  BY DEF FreeFlag, OwnInv, Shaped
<1>2. op[t] \in Call_ /\ CallSound(op[t], hdr) BY DEF OwnInv, Shaped, CallsInv
<1>3. d \in Call_ BY <1>2, CallWith, Zenon DEF UnlockedPCs
<1>4. Same(d, op[t]) /\ d.pc = "push" /\ d.v = op[t].v /\ d.chain = op[t].chain
  BY <1>2 DEF Same, Call_
<1>5. CallSound(d, hdr)
  <2>1. /\ op[t].p # None /\ Brings(op[t], hdr) /\ op[t].fn # "memalign" /\ op[t].chain = <<>>
        /\ op[t].al > 0 /\ op[t].pad >= 0
    BY <1>1, <1>2 DEF CallSound
  <2>2. Brings(d, hdr) BY <1>4, <2>1 DEF Brings, Same
  <2>3. ~InSearch(d) /\ ~Comes(d, "done") /\ ~Comes(d, "aligned") BY <1>4 DEF InSearch, Comes
  <2> QED BY <1>1, <1>4, <2>1, <2>2, <2>3 DEF CallSound, Same
<1>6. Shaped' BY <1>1, <1>3, CallShaped DEF OwnInv, Shaped, binVars
<1> QED BY <1>1, <1>3, <1>4, <1>5, <1>6, StayCall, Zenon DEF Same, binVars

(* Lemma: malloc_trim starts with no chunk.                                *)
LEMMA OwnMallocTrim ==
  ASSUME OwnInv, NEW t \in Threads, NEW pad \in TrimPads, MallocTrim(t, pad)
  PROVE  OwnInv' /\ HeapStep
<1> DEFINE d == [Idle EXCEPT !.fn = "trim", !.pc = "consolidate", !.pad = pad,
                             !.after = "systrim", !.k = "done"]
<1>1. /\ op' = [op EXCEPT ![t] = d] /\ op[t].pc = "idle" /\ lock' = t
      /\ UNCHANGED <<heapVars, fastVars, binVars, tcache, live>>
  BY DEF MallocTrim
<1>2. op[t] = Idle
  <2>1. CallSound(op[t], hdr) BY DEF OwnInv, CallsInv
  <2> QED BY <1>1, <2>1 DEF CallSound
<1>3. pad \in Nat /\ pad \in Int BY ArenaAssumption
<1> DEFINE e == [Idle EXCEPT !.fn = "trim"]
           f == [e EXCEPT !.pc = "consolidate"]
           g == [f EXCEPT !.pad = pad]
           m == [g EXCEPT !.after = "systrim"]
           n == [m EXCEPT !.k = "done"]
<1>4. d = n OBVIOUS
<1> HIDE DEF d
<1>10. e \in Call_ /\ e.p = None /\ e.v = None /\ e.chain = <<>> /\ e.al = 1
  <2>1. e \in Call_ BY IdleSound, CallWith, Zenon
  <2> QED BY <2>1 DEF Idle
<1> HIDE DEF e
<1>11. f \in Call_ /\ f.p = None /\ f.v = None /\ f.chain = <<>> /\ f.al = 1
       /\ f.pc = "consolidate"
  <2>1. f \in Call_ BY <1>10, CallWith, Zenon DEF LockedPCs
  <2> QED BY <1>10, <2>1 DEF Call_
<1> HIDE DEF f
<1>12. g \in Call_ /\ g.p = None /\ g.v = None /\ g.chain = <<>> /\ g.al = 1
       /\ g.pc = "consolidate" /\ g.pad = pad
  <2>1. g \in Call_ BY <1>3, <1>11, CallWith, Zenon
  <2> QED BY <1>11, <2>1 DEF Call_
<1> HIDE DEF g
<1>13. m \in Call_ /\ m.p = None /\ m.v = None /\ m.chain = <<>> /\ m.al = 1
       /\ m.pc = "consolidate" /\ m.pad = pad /\ m.after = "systrim"
  <2>1. m \in Call_ BY <1>12, CallWith, Zenon
  <2> QED BY <1>12, <2>1 DEF Call_
<1> HIDE DEF m
<1>6. d \in Call_ BY <1>4, <1>13, CallWith, Zenon
<1>5. /\ d.pc = "consolidate" /\ d.after = "systrim" /\ d.k = "done" /\ d.p = None /\ d.v = None
      /\ d.chain = <<>> /\ d.al = 1 /\ d.pad = pad
  BY <1>4, <1>6, <1>13 DEF Call_
<1>7. CallSound(d, hdr)
  <2>1. Comes(d, "done") /\ Brings(d, hdr) BY <1>5 DEF Comes, Brings
  <2> QED BY <1>3, <1>5, <2>1, ComingSound
<1>8. d.p = op[t].p /\ d.v = op[t].v /\ d.chain = op[t].chain BY <1>2, <1>5, IdleSound
<1>9. Shaped' BY <1>1, <1>6, CallShaped DEF OwnInv, Shaped, fastVars, binVars
<1> QED BY <1>1, <1>6, <1>7, <1>8, <1>9, StayCall, Zenon DEF fastVars, binVars

(* Lemma: thread t moves a chunk between its hands, the caches, the        *)
(* fastbins and the program.                                               *)
LEMMA HandOver ==
  ASSUME OwnInv, Shaped', NEW t \in Threads, NEW from \in Places, NEW to \in Places, from # to,
         from \notin BinPlaces, to \notin BinPlaces,
         from.at \in {"p", "v"} => from.t = t, to.at \in {"p", "v"} => to.t = t,
         NEW c \in ChunksAt(from), Leaves(from, c), Joins(to, c), OnlyLists({from, to}),
         NEW d \in Call_, op' = [op EXCEPT ![t] = d],
         d.p = op[t].p \/ PPl(t) \in {from, to}, d.v = op[t].v \/ VPl(t) \in {from, to},
         d.chain = op[t].chain \/ ChainPl(t) \in {from, to},
         CallSound(d, hdr), UNCHANGED <<heapVars, bins>>, MayBeAt(to, hdr[c].sz),
         \A p \in DOMAIN live' : \/ p # c /\ p \in DOMAIN live /\ live'[p] = live[p]
                                 \/ p = c /\ Within(hdr[c].sz, live'[p])
  PROVE  OwnInv' /\ HeapStep
<1>1. hdr' = hdr /\ UNCHANGED <<top, system_mem>> BY DEF heapVars
<1>2. op'[t] = d /\ \A u \in Threads \ {t} : op'[u] = op[u] BY CallSet, Zenon DEF OwnInv
<1>3. Only({from, to}) BY OnlyIs, Zenon DEF OwnInv
<1>4. \A u \in Threads \ {t} : op'[u] = op[u] /\ PPl(u) \notin {from, to}
                                              /\ VPl(u) \notin {from, to}
  BY <1>2, PlacesAt
<1>5. c \in DOMAIN hdr BY DEF OwnInv, Owned
<1>6. \A p \in DOMAIN live' : \/ p \in DOMAIN live \ {c} /\ live'[p] = live[p]
                              \/ Within(hdr[p].sz, live'[p]) /\ p \in DOMAIN hdr
  BY <1>5
<1>7. \A i \in BinIndices : BinPl(i) \notin {from, to} BY BinPlacesAre
<1>8. CallSound(op'[t], hdr') BY <1>1, <1>2
<1>9. DOMAIN hdr' = DOMAIN hdr /\ \A x \in DOMAIN hdr : hdr'[x].sz = hdr[x].sz BY <1>1
<1>10. \A i \in BinIndices : BinPl(i) \in {from, to} => Descends(bins'[i], hdr') BY <1>7
<1>11. hdr' = hdr /\ (from \in BinPlaces <=> to \in BinPlaces) BY <1>1
<1> QED BY <1>1, <1>3, <1>4, <1>6, <1>8, <1>9, <1>10, <1>11, MoveKeeps

(* Lemma: the program gets a chunk, or gives one up.                       *)
LEMMA LiveGives ==
  ASSUME Shaped, NEW v, NEW nb \in Int, Gives(v, nb)
  PROVE  /\ DOMAIN live' = DOMAIN live \cup {v} /\ live' \in [DOMAIN live' -> Int]
         /\ live'[v] = nb /\ \A p \in DOMAIN live' : p # v => p \in DOMAIN live /\ live'[p] = live[p]
BY DEF Shaped, Gives

(* Lemma: the program's set of chunks after one is given back.             *)
LEMMA LiveTakes ==
  ASSUME Shaped, NEW p, TakesBack(p)
  PROVE  /\ DOMAIN live' = DOMAIN live \ {p} /\ live' \in [DOMAIN live' -> Int]
         /\ \A q \in DOMAIN live' : q # p /\ q \in DOMAIN live /\ live'[q] = live[q]
BY DEF Shaped, TakesBack

(* Lemma: one list of a cache, or one fastbin, changes.                    *)
LEMMA CacheOne ==
  ASSUME Shaped, NEW t \in Threads, NEW n \in TcacheSizes, NEW r, Once(r),
         tcache' = [tcache EXCEPT ![t][n] = r]
  PROVE  /\ tcache' \in [Threads -> [TcacheSizes -> Seq(Int)]] /\ tcache'[t][n] = r
         /\ \A u \in Threads, x \in TcacheSizes :
              u # t \/ x # n => tcache'[u][x] = tcache[u][x]
<1>1. r \in Seq(Int) BY DEF Once
<1>2. tcache \in [Threads -> [TcacheSizes -> Seq(Int)]] BY DEF Shaped
<1> QED BY ONLY <1>1, <1>2, t \in Threads, n \in TcacheSizes,
                tcache' = [tcache EXCEPT ![t][n] = r]

(* Lemma: the fastbins after one of them changes.                          *)
LEMMA FastOne ==
  ASSUME Shaped, NEW n \in FastSizes, NEW r, Once(r), fastbins' = [fastbins EXCEPT ![n] = r]
  PROVE  /\ fastbins' \in [FastSizes -> Seq(Int)] /\ fastbins'[n] = r
         /\ \A x \in FastSizes : x # n => fastbins'[x] = fastbins[x]
<1>1. r \in Seq(Int) BY DEF Once
<1> QED BY <1>1 DEF Shaped

(* Lemma: a call that enters _int_malloc.                                  *)
LEMMA EnterSound ==
  ASSUME NEW t \in Threads, NEW c \in Call_, NEW h, NEW nb, Enter(t, c, nb),
         c.fn \in {"malloc", "realloc", "retry", "memalign"},
         c.want >= MINSIZE, c.fn = "memalign" => nb = Padded(c.want, c.al),
         c.fn # "memalign" => nb = c.want,
         c.fn \in {"realloc", "retry"} => c.p # None /\ Outgrown(c, h),
         c.fn \notin {"realloc", "retry"} => c.p = None,
         c.v = None, c.chain = <<>>, c.al > 0, c.pad >= 0
  PROVE  \E d \in Call_ : /\ op' = [op EXCEPT ![t] = d] /\ lock' = t /\ CallSound(d, h)
                         /\ d.p = c.p /\ d.v = None /\ d.chain = <<>>
<1> PICK d : d = [c EXCEPT !.pc = "int_malloc", !.nb = nb] OBVIOUS
<1>9. op' = [op EXCEPT ![t] = d] /\ lock' = t BY DEF Enter
<1> DEFINE e == [c EXCEPT !.pc = "int_malloc"]
<1>1. nb \in Int
  <2>1. c.want \in Int /\ c.al \in Int BY DEF Call_
  <2> QED BY <2>1 DEF Padded, MINSIZE
<1>2. e \in Call_ BY CallWith, Zenon DEF LockedPCs
<1>3. d = [e EXCEPT !.nb = nb] OBVIOUS
<1>4. /\ e.pc = "int_malloc" /\ e.fn = c.fn /\ e.want = c.want /\ e.al = c.al /\ e.pad = c.pad
      /\ e.p = c.p /\ e.old = c.old /\ e.v = None /\ e.chain = <<>>
  BY DEF Call_
<1> HIDE DEF e
<1>5. d \in Call_
  <2>1. [e EXCEPT !.nb = nb] \in Call_ BY <1>1, <1>2, CallWith, Zenon
  <2> QED BY <1>3, <2>1, Zenon
<1>6. /\ d.pc = "int_malloc" /\ d.fn = c.fn /\ d.want = c.want /\ d.al = c.al /\ d.pad = c.pad
      /\ d.p = c.p /\ d.old = c.old /\ d.v = None /\ d.chain = <<>> /\ d.nb = nb
  BY <1>2, <1>3, <1>4 DEF Call_
<1>7. Searches(d, h)
  <2>1. Outgrown(c, h) <=> Outgrown(d, h) BY <1>6 DEF Outgrown
  <2> QED BY <1>6, <2>1 DEF Searches
<1>8. CallSound(d, h) BY <1>6, <1>7 DEF CallSound, InSearch, Comes
<1> QED BY <1>5, <1>6, <1>8, <1>9, Zenon

(* Lemma: the first chunk of a cached list.                                *)
LEMMA CachedFirst ==
  ASSUME OwnInv, NEW t \in Threads, NEW nb, CacheHit(t, nb), NEW c, c = Head(tcache[t][nb]),
         tcache' = [tcache EXCEPT ![t][nb] = Tail(@)]
  PROVE  /\ nb \in TcacheSizes /\ c \in DOMAIN hdr /\ c \in Int /\ c # None /\ hdr[c].sz = nb
         /\ CachePl(t, nb) \in Places /\ CachePl(t, nb).at = "cache"
         /\ CachePl(t, nb) \notin BinPlaces
         /\ c \in ChunksAt(CachePl(t, nb)) /\ Leaves(CachePl(t, nb), c)
         /\ tcache' \in [Threads -> [TcacheSizes -> Seq(Int)]]
         /\ \A u \in Threads, x \in TcacheSizes :
              tcache'[u][x] = tcache[u][x] \/ CachePl(u, x) = CachePl(t, nb)
<1> PICK s : s = tcache[t][nb] OBVIOUS
<1>1. nb \in TcacheSizes /\ s # <<>> BY DEF CacheHit
<1>2. Once(s) /\ ToSet(s) \subseteq DOMAIN hdr /\ \A x \in ToSet(s) : hdr[x].sz = nb
  BY <1>1, ListsAre
<1>3. Fewer(Tail(s), s, {c}) /\ c \in ToSet(s) BY <1>1, <1>2, TailFewer
<1>4. c \in DOMAIN hdr /\ c \in Int /\ c # None /\ hdr[c].sz = nb BY <1>2, <1>3, AddressOf
<1>5. tcache' = [tcache EXCEPT ![t][nb] = Tail(s)] OBVIOUS
<1>6. Once(Tail(s)) BY <1>3 DEF Fewer
<1>7. /\ tcache' \in [Threads -> [TcacheSizes -> Seq(Int)]] /\ tcache'[t][nb] = Tail(s)
      /\ \A u \in Threads, x \in TcacheSizes : u # t \/ x # nb => tcache'[u][x] = tcache[u][x]
  BY <1>1, <1>5, <1>6, CacheOne, ZenonT(40) DEF OwnInv
<1>8. Fewer(tcache'[t][nb], tcache[t][nb], {c}) BY <1>3, <1>7
<1>9. Leaves(CachePl(t, nb), c) BY <1>8, LeavesAre, Zenon
<1> QED BY <1>1, <1>3, <1>4, <1>7, <1>9, PlacesAre, PlacesAt, ChunksAre, BinPlacesAre

(* Lemma: an idle call holds nothing at all.                               *)
LEMMA IdleCall ==
  ASSUME OwnInv, NEW t \in Threads, op[t].pc = "idle"
  PROVE  op[t] = Idle
BY DEF OwnInv, CallsInv, CallSound

(* Lemma: malloc begins, with a cached chunk or without.                   *)
LEMMA OwnMalloc ==
  ASSUME OwnInv, NEW t \in Threads, NEW nb \in MallocSizes, Malloc(t, nb)
  PROVE  OwnInv' /\ HeapStep
<1>1. op[t] = Idle /\ op[t] \in Call_ /\ UNCHANGED <<heapVars, fastVars, binVars>>
  BY IdleCall, IdleSound DEF Malloc
<1>2. nb \in Int /\ nb >= MINSIZE BY ArenaAssumption
<1>3. CASE CacheHit(t, nb)
  <2> PICK c : c = Head(tcache[t][nb]) OBVIOUS
  <2>1. tcache' = [tcache EXCEPT ![t][nb] = Tail(@)] /\ Gives(c, nb) /\ lock' = lock /\ op' = op
    BY <1>3 DEF Malloc
  <2>2. /\ nb \in TcacheSizes /\ c \in DOMAIN hdr /\ c \in Int /\ c # None /\ hdr[c].sz = nb
        /\ CachePl(t, nb) \in Places /\ CachePl(t, nb).at = "cache"
        /\ CachePl(t, nb) \notin BinPlaces
        /\ c \in ChunksAt(CachePl(t, nb)) /\ Leaves(CachePl(t, nb), c)
        /\ tcache' \in [Threads -> [TcacheSizes -> Seq(Int)]]
        /\ \A u \in Threads, x \in TcacheSizes :
             tcache'[u][x] = tcache[u][x] \/ CachePl(u, x) = CachePl(t, nb)
    BY <1>3, <2>1, CachedFirst, Zenon
  <2>3. /\ DOMAIN live' = DOMAIN live \cup {c} /\ live' \in [DOMAIN live' -> Int]
        /\ live'[c] = nb
        /\ \A p \in DOMAIN live' : p # c => p \in DOMAIN live /\ live'[p] = live[p]
    BY <1>2, <2>1, LiveGives, Zenon DEF OwnInv
  <2> PICK d : d = op[t] OBVIOUS
  <2>4. op' = [op EXCEPT ![t] = d] BY <2>1 DEF OwnInv, Shaped
  <2>5. Shaped' BY <1>1, <2>1, <2>2, <2>3, <2>4, ShapedBy DEF OwnInv, Shaped, fastVars, binVars
  <2>6. /\ LivePl \in Places /\ LivePl # CachePl(t, nb) /\ LivePl \notin BinPlaces
        /\ LivePl.at = "live"
    BY <2>2, PlacesAre, PlacesAt, BinPlacesAre
  <2>7. Joins(LivePl, c) BY <2>3, JoinsAre
  <2>8. OnlyLists({CachePl(t, nb), LivePl})
    BY <1>1, <2>2 DEF OnlyLists, heapVars, fastVars, binVars
  <2>9. Within(hdr[c].sz, live'[c]) BY <1>2, <2>2, <2>3 DEF Within, MINSIZE
  <2>10. \A p \in DOMAIN live' : \/ p # c /\ p \in DOMAIN live /\ live'[p] = live[p]
                                 \/ p = c /\ Within(hdr[c].sz, live'[p])
    BY <2>3, <2>9
  <2>11. CallSound(d, hdr) BY <1>1, IdleSound
  <2>12. MayBeAt(LivePl, hdr[c].sz) BY MayBe
  <2>13. UNCHANGED <<heapVars, bins>> BY <1>1 DEF binVars
  <2>14. /\ CachePl(t, nb).at \in {"p", "v"} => CachePl(t, nb).t = t
         /\ LivePl.at \in {"p", "v"} => LivePl.t = t
    BY <2>2, <2>6
  <2>15. d \in Call_ /\ d.p = op[t].p /\ d.v = op[t].v /\ d.chain = op[t].chain BY <1>1
  <2> QED BY <2>2, <2>4, <2>5, <2>6, <2>7, <2>8, <2>10, <2>11, <2>12, <2>13, <2>14, <2>15,
    HandOver, Zenon
<1>4. CASE ~CacheHit(t, nb)
  <2> DEFINE e == [Idle EXCEPT !.fn = "malloc"]
             call == [e EXCEPT !.want = nb]
  <2>1. Enter(t, call, nb) /\ UNCHANGED <<tcache, live>>
    BY <1>4 DEF Malloc
  <2>2. e \in Call_ /\ e.fn = "malloc" /\ e.p = None /\ e.v = None /\ e.chain = <<>> /\ e.al = 1
        /\ e.pad = 0
    <3>1. e \in Call_ BY IdleSound, CallWith, Zenon
    <3> QED BY <3>1 DEF Idle
  <2> HIDE DEF e
  <2>3. call \in Call_ /\ call.fn = "malloc" /\ call.p = None /\ call.v = None /\ call.chain = <<>>
        /\ call.al = 1 /\ call.pad = 0 /\ call.want = nb
    <3>1. call \in Call_ BY <1>2, <2>2, CallWith, Zenon
    <3> QED BY <2>2, <3>1 DEF Call_
  <2> HIDE DEF call
  <2>4. PICK d \in Call_ : /\ op' = [op EXCEPT ![t] = d] /\ lock' = t /\ CallSound(d, hdr)
                          /\ d.p = call.p /\ d.v = None /\ d.chain = <<>>
    <3>1. (call.fn = "memalign" => nb = Padded(call.want, call.al))
          /\ (call.fn # "memalign" => nb = call.want)
      BY <2>3
    <3>2. (call.fn \in {"realloc", "retry"} => call.p # None /\ Outgrown(call, hdr))
          /\ (call.fn \notin {"realloc", "retry"} => call.p = None)
      BY <2>3
    <3>3. call.want >= MINSIZE /\ call.al > 0 /\ call.pad >= 0
      <4>1. call.want >= MINSIZE BY <1>2, <2>3
      <4>2. call.al > 0 BY <2>3
      <4>3. call.pad >= 0 BY <2>3
      <4> QED BY <4>1, <4>2, <4>3
    <3>4. call \in Call_ /\ call.fn \in {"malloc", "realloc", "retry", "memalign"}
          /\ call.v = None /\ call.chain = <<>> /\ call.p = None
      BY <2>3
    <3> QED BY <2>1, <3>1, <3>2, <3>3, <3>4, EnterSound, Zenon
  <2>5. Shaped' BY <1>1, <2>1, <2>4, CallShaped DEF OwnInv, Shaped, fastVars, binVars
  <2> QED BY <1>1, <2>1, <2>3, <2>4, <2>5, IdleSound, StayCall, Zenon DEF fastVars, binVars
<1> QED BY <1>3, <1>4

(* Lemma: a chunk anywhere but at top has the least size.                  *)
LEMMA HeldSize ==
  ASSUME OwnInv, NEW pl \in Places, pl # TopPl, NEW c \in ChunksAt(pl)
  PROVE  /\ c \in DOMAIN hdr \ {top} /\ c \in Int /\ c # None
         /\ hdr[c].sz \in Nat /\ hdr[c].sz >= MINSIZE
<1>1. c \in DOMAIN hdr /\ c # top BY PlacesAre, ChunksAre DEF OwnInv, Owned
<1>2. hdr[c].sz >= MINSIZE BY <1>1, HeapIs DEF OwnInv, HeapFacts
<1> QED BY <1>1, <1>2, AddressOf

(* Lemma: free takes a chunk from the program.                             *)
LEMMA OwnFree ==
  ASSUME OwnInv, NEW t \in Threads, NEW p \in DOMAIN live, Free(t, p)
  PROVE  OwnInv' /\ HeapStep
<1> PICK sz : sz = hdr[p].sz OBVIOUS
<1>1. op[t] = Idle /\ op[t] \in Call_ /\ UNCHANGED <<lock, heapVars, fastVars, binVars>>
  BY IdleCall, IdleSound DEF Free
<1>2. /\ LivePl \in Places /\ LivePl.at = "live" /\ LivePl \notin BinPlaces /\ LivePl # TopPl
      /\ p \in ChunksAt(LivePl)
  BY PlacesAre, PlacesAt, BinPlacesAre, ChunksAre
<1>3. p \in DOMAIN hdr /\ p \in Int /\ p # None /\ sz \in Nat /\ sz >= MINSIZE
  BY <1>2, HeldSize
<1>4. /\ DOMAIN live' = DOMAIN live \ {p} /\ live' \in [DOMAIN live' -> Int]
      /\ \A q \in DOMAIN live' : q # p /\ q \in DOMAIN live /\ live'[q] = live[q]
  BY LiveTakes, Zenon DEF Free, OwnInv
<1>5. Leaves(LivePl, p) BY <1>4, LeavesAre
<1>6. \A q \in DOMAIN live' : \/ q # p /\ q \in DOMAIN live /\ live'[q] = live[q]
                              \/ q = p /\ Within(hdr[p].sz, live'[q])
  BY <1>4
<1>7. CASE sz \in TcacheSizes /\ Slots(t, sz) > 0
  <2> PICK s : s = tcache[t][sz] OBVIOUS
  <2> PICK to : to = CachePl(t, sz) OBVIOUS
  <2> PICK d : d = op[t] OBVIOUS
  <2>1. tcache' = [tcache EXCEPT ![t][sz] = <<p>> \o s] /\ op' = op BY <1>7 DEF Free
  <2>2. op' = [op EXCEPT ![t] = d] BY <2>1 DEF OwnInv, Shaped
  <2>3. to \in Places /\ to.at = "cache" /\ to \notin BinPlaces BY <1>7, PlacesAre, PlacesAt, BinPlacesAre
  <2>4. p \notin ToSet(s) /\ Once(s)
    <3>1. p \notin ChunksAt(to) BY <1>2, <2>3 DEF OwnInv, Owned
    <3> QED BY <1>7, <3>1, ChunksAre, ListsAre
  <2>5. More(<<p>> \o s, s, p) BY <1>3, <2>4, PushMore
  <2>6. /\ tcache' \in [Threads -> [TcacheSizes -> Seq(Int)]] /\ tcache'[t][sz] = <<p>> \o s
        /\ \A u \in Threads, x \in TcacheSizes :
             u # t \/ x # sz => tcache'[u][x] = tcache[u][x]
    <3> PICK r : r = <<p>> \o s BY Zenon
    <3>1. Once(r) BY <2>5 DEF More
    <3>2. tcache' = [tcache EXCEPT ![t][sz] = r] BY <2>1
    <3>3. r \in Seq(Int) BY <3>1 DEF Once
    <3>4. tcache \in [Threads -> [TcacheSizes -> Seq(Int)]] BY DEF OwnInv, Shaped
    <3> QED BY <1>7, <3>2, <3>3, <3>4
  <2>7. Joins(to, p)
    <3>1. More(tcache'[t][sz], tcache[t][sz], p) BY <2>5, <2>6
    <3> QED BY <3>1, JoinsAre
  <2>8. Shaped' BY <1>1, <1>4, <2>2, <2>6, ShapedBy, Zenon
    DEF OwnInv, Shaped, fastVars, binVars
  <2>9. OnlyLists({LivePl, to}) BY <1>1, <2>6 DEF OnlyLists, heapVars, fastVars, binVars
  <2>10. d \in Call_ /\ d.p = op[t].p /\ d.v = op[t].v /\ d.chain = op[t].chain BY <1>1
  <2>11. CallSound(d, hdr) BY <1>1, IdleSound
  <2>12. MayBeAt(to, hdr[p].sz) BY MayBe
  <2>13. UNCHANGED <<heapVars, bins>> BY <1>1 DEF binVars
  <2>14. LivePl # to /\ (LivePl.at \in {"p", "v"} => LivePl.t = t)
         /\ (to.at \in {"p", "v"} => to.t = t)
    BY <1>2, <2>3
  <2> QED BY <1>2, <1>5, <1>6, <2>2, <2>3, <2>7, <2>8, <2>9, <2>10, <2>11, <2>12, <2>13,
    <2>14,
             HandOver, Zenon
<1>8. CASE ~(sz \in TcacheSizes /\ Slots(t, sz) > 0)
  <2> DEFINE e == [Idle EXCEPT !.fn = "free"]
             f == [e EXCEPT !.pc = "free_chunk"]
             d == [f EXCEPT !.p = p]
  <2> PICK to : to = PPl(t) OBVIOUS
  <2>1. op' = [op EXCEPT ![t] = d] /\ tcache' = tcache BY <1>8 DEF Free
  <2>2. e \in Call_ /\ e.fn = "free" /\ e.p = None /\ e.v = None /\ e.chain = <<>> /\ e.al = 1
        /\ e.pad = 0
    <3>1. e \in Call_ BY IdleSound, CallWith, Zenon
    <3> QED BY <3>1 DEF Idle
  <2> HIDE DEF e
  <2>3. f \in Call_ /\ f.fn = "free" /\ f.v = None /\ f.chain = <<>>
        /\ f.al = 1 /\ f.pad = 0 /\ f.pc = "free_chunk"
    <3>1. f \in Call_ BY <2>2, CallWith, Zenon DEF UnlockedPCs
    <3> QED BY <2>2, <3>1 DEF Call_
  <2> HIDE DEF f
  <2>4. d \in Call_ /\ d.fn = "free" /\ d.v = None /\ d.chain = <<>>
        /\ d.al = 1 /\ d.pad = 0 /\ d.pc = "free_chunk" /\ d.p = p
    <3>1. d \in Call_ BY <1>3, <2>3, CallWith, Zenon
    <3> QED BY <2>3, <3>1 DEF Call_
  <2> HIDE DEF d
  <2>5. CallSound(d, hdr) BY <1>3, <2>4 DEF CallSound, InSearch, Comes, Brings
  <2>6. Shaped' BY <1>1, <1>4, <2>1, <2>4, ShapedBy DEF OwnInv, Shaped, fastVars, binVars
  <2>7. to \in Places /\ to.at = "p" /\ to.t = t /\ to \notin BinPlaces
    BY PlacesAre, PlacesAt, BinPlacesAre
  <2>8. op'[t] = d /\ op[t].p = None BY <1>1, <2>1, <2>4, CallSet, IdleSound, Zenon
    DEF OwnInv
  <2>9. Joins(to, p) BY <1>3, <2>4, <2>8, JoinsAre
  <2>10. OnlyLists({LivePl, to}) BY <1>1, <2>1 DEF OnlyLists, heapVars, fastVars, binVars
  <2>11. /\ d.p = op[t].p \/ PPl(t) \in {LivePl, to} 
         /\ d.v = op[t].v \/ VPl(t) \in {LivePl, to}
         /\ d.chain = op[t].chain \/ ChainPl(t) \in {LivePl, to}
    BY <1>1, <2>4, IdleSound
  <2>12. MayBeAt(to, hdr[p].sz) BY MayBe
  <2>13. UNCHANGED <<heapVars, bins>> BY <1>1 DEF binVars
  <2>14. LivePl # to /\ (LivePl.at \in {"p", "v"} => LivePl.t = t)
         /\ (to.at \in {"p", "v"} => to.t = t)
    BY <1>2, <2>7
  <2> QED BY <1>2, <1>5, <1>6, <2>1, <2>4, <2>5, <2>6, <2>7, <2>9, <2>10, <2>11, <2>12,
    <2>13,
             <2>14, HandOver, ZenonT(40)
<1> QED BY <1>7, <1>8

(* Lemma: a call ends and hands its result to the program.                 *)
LEMMA OwnDone ==
  ASSUME OwnInv, NEW t \in Threads, Done(t)
  PROVE  OwnInv' /\ HeapStep
<1> PICK v : v = op[t].v OBVIOUS
<1>1. /\ op[t].pc = "done" /\ op' = [op EXCEPT ![t] = Idle] /\ lock' = None
      /\ UNCHANGED <<heapVars, fastVars, binVars, tcache>>
  BY DEF Done, Holds, Finish
<1>2. op[t] \in Call_ /\ CallSound(op[t], hdr) BY DEF OwnInv, Shaped, CallsInv
<1>3. op[t].p = None /\ Brings(op[t], hdr) /\ op[t].chain = <<>>
  BY <1>1, <1>2 DEF CallSound, Comes
<1>4. CASE v = None
  <2>1. live' = live BY <1>4 DEF Done, Finish
  <2>2. Shaped' BY <1>1, <2>1, IdleSound, CallShaped DEF OwnInv, Shaped, fastVars, binVars
  <2> QED BY <1>1, <1>3, <1>4, <2>1, <2>2, IdleSound, StayCall, Zenon DEF fastVars, binVars
<1>5. CASE v # None
  <2> PICK from : from = VPl(t) OBVIOUS
  <2>1. Gives(v, op[t].want) /\ op[t].want \in Int BY <1>2, <1>5 DEF Done, Finish, Call_
  <2>2. /\ DOMAIN live' = DOMAIN live \cup {v} /\ live' \in [DOMAIN live' -> Int]
        /\ live'[v] = op[t].want
        /\ \A q \in DOMAIN live' : q # v => q \in DOMAIN live /\ live'[q] = live[q]
    BY <2>1, LiveGives, ZenonT(40) DEF OwnInv
  <2>3. Within(hdr[v].sz, op[t].want) BY <1>3, <1>5 DEF Brings
  <2>4. \A q \in DOMAIN live' : \/ q # v /\ q \in DOMAIN live /\ live'[q] = live[q]
                                \/ q = v /\ Within(hdr[v].sz, live'[q])
    BY <2>2, <2>3
  <2>5. Shaped' BY <1>1, <2>2, IdleSound, ShapedBy DEF OwnInv, Shaped, fastVars, binVars
  <2>6. /\ from \in Places /\ from.at = "v" /\ from.t = t /\ from \notin BinPlaces
        /\ LivePl \in Places /\ LivePl.at = "live" /\ LivePl \notin BinPlaces
        /\ v \in ChunksAt(from)
    BY <1>5, PlacesAre, PlacesAt, BinPlacesAre, ChunksAre
  <2>7. op'[t] = Idle BY <1>1, IdleSound, CallSet, Zenon DEF OwnInv
  <2>8. Leaves(from, v) /\ Joins(LivePl, v) BY <2>2, <2>7, IdleSound, LeavesAre, JoinsAre
  <2>9. OnlyLists({from, LivePl}) BY <1>1 DEF OnlyLists, heapVars, fastVars, binVars
  <2>10. /\ Idle.p = op[t].p \/ PPl(t) \in {from, LivePl}
         /\ Idle.v = op[t].v \/ VPl(t) \in {from, LivePl}
         /\ Idle.chain = op[t].chain \/ ChainPl(t) \in {from, LivePl}
    BY <1>3, IdleSound
  <2>11. MayBeAt(LivePl, hdr[v].sz) BY MayBe
  <2>12. UNCHANGED <<heapVars, bins>> BY <1>1 DEF binVars
  <2>13. LivePl # from /\ (LivePl.at \in {"p", "v"} => LivePl.t = t)
         /\ (from.at \in {"p", "v"} => from.t = t)
    BY <2>6
  <2>14. Idle \in Call_ /\ CallSound(Idle, hdr) BY IdleSound
  <2> QED BY <1>1, <2>4, <2>5, <2>6, <2>8, <2>9, <2>10, <2>11, <2>12, <2>13, <2>14,
    HandOver, ZenonT(40)
<1> QED BY <1>4, <1>5

(* Lemma: free pushes its chunk on a fastbin.                              *)
LEMMA OwnFreePush ==
  ASSUME OwnInv, NEW t \in Threads, FreePush(t)
  PROVE  OwnInv' /\ HeapStep
<1> PICK p : p = op[t].p OBVIOUS
<1> PICK v : v = op[t].v OBVIOUS
<1> PICK sz : sz = hdr[p].sz OBVIOUS
<1> PICK s : s = fastbins[sz] OBVIOUS
<1> PICK from : from = PPl(t) OBVIOUS
<1> PICK to : to = FastPl(sz) OBVIOUS
<1>1. /\ op[t].pc = "push" /\ op' = [op EXCEPT ![t] = Idle]
      /\ fastbins' = [fastbins EXCEPT ![sz] = <<p>> \o s]
      /\ UNCHANGED <<lock, heapVars, have_fastchunks, binVars, tcache>>
  BY DEF FreePush, Finish
<1>2. op[t] \in Call_ /\ CallSound(op[t], hdr) BY DEF OwnInv, Shaped, CallsInv
<1>3. p # None /\ Brings(op[t], hdr) /\ sz <= MaxFast /\ op[t].chain = <<>>
  BY <1>1, <1>2 DEF CallSound
<1>4. /\ from \in Places /\ from.at = "p" /\ from.t = t /\ from \notin BinPlaces /\ from # TopPl
      /\ p \in ChunksAt(from)
  BY <1>3, PlacesAre, PlacesAt, BinPlacesAre, ChunksAre
<1>5. p \in DOMAIN hdr /\ p \in Int /\ sz \in Nat /\ sz >= MINSIZE BY <1>4, HeldSize
<1>6. sz \in FastSizes BY <1>3, <1>5, ArenaAssumption, SMTT(40) DEF FastSizes, MINSIZE
<1>7. to \in Places /\ to.at = "fast" /\ to \notin BinPlaces
  BY <1>6, PlacesAre, PlacesAt, BinPlacesAre
<1>8. p \notin ToSet(s) /\ Once(s)
  <2>1. p \notin ChunksAt(to) BY <1>4, <1>7 DEF OwnInv, Owned
  <2> QED BY <1>6, <2>1, ChunksAre, ListsAre
<1>9. More(<<p>> \o s, s, p) BY <1>5, <1>8, PushMore
<1>10. /\ fastbins' \in [FastSizes -> Seq(Int)] /\ fastbins'[sz] = <<p>> \o s
       /\ \A x \in FastSizes : x # sz => fastbins'[x] = fastbins[x]
  <2> PICK r : r = <<p>> \o s BY Zenon
  <2>1. Once(r) BY <1>9, ZenonT(40) DEF More
  <2>2. fastbins' = [fastbins EXCEPT ![sz] = r] BY <1>1
  <2> QED BY <1>6, <2>1, <2>2, FastOne, Zenon DEF OwnInv
<1>11. Joins(to, p)
  <2>1. More(fastbins'[sz], fastbins[sz], p) BY <1>9, <1>10, Zenon
  <2> QED BY <2>1, JoinsAre
<1>12. op'[t] = Idle /\ \A u \in Threads \ {t} : op'[u] = op[u]
  BY <1>1, IdleSound, CallSet, Zenon DEF OwnInv
<1>13. Leaves(from, p) BY <1>12, IdleSound, LeavesAre
<1>14. MayBeAt(to, hdr[p].sz) BY MayBe
<1>15. Idle \in Call_ /\ CallSound(Idle, hdr) BY IdleSound
<1>16. CASE v = None
  <2>1. live' = live BY <1>16 DEF FreePush, Finish
  <2>2. Shaped' BY <1>1, <1>10, <1>15, <2>1, ShapedBy, Zenon DEF OwnInv, Shaped, binVars
  <2>3. OnlyLists({from, to}) BY <1>1, <1>10, <2>1, Zenon DEF OnlyLists, heapVars, binVars
  <2>4. /\ Idle.p = op[t].p \/ PPl(t) \in {from, to}
        /\ Idle.v = op[t].v \/ VPl(t) \in {from, to}
        /\ Idle.chain = op[t].chain \/ ChainPl(t) \in {from, to}
    BY <1>3, <1>16, IdleSound
  <2>5. p \notin DOMAIN live
    <3>1. LivePl \in Places /\ LivePl # from BY <1>4, PlacesAre, PlacesAt
    <3> QED BY <1>4, <3>1, ChunksAre DEF OwnInv, Owned
  <2>6. \A q \in DOMAIN live' : \/ q # p /\ q \in DOMAIN live /\ live'[q] = live[q]
                                \/ q = p /\ Within(hdr[p].sz, live'[q])
    BY <2>1, <2>5
  <2>7. UNCHANGED <<heapVars, bins>> BY <1>1 DEF binVars
  <2>8. from # to /\ (from.at \in {"p", "v"} => from.t = t) /\ (to.at \in {"p", "v"} => to.t = t)
    BY <1>4, <1>7
  <2> PICK d : d = Idle OBVIOUS
  <2>9. d \in Call_ /\ op' = [op EXCEPT ![t] = d] /\ CallSound(d, hdr) BY <1>1, <1>15
  <2>10. /\ d.p = op[t].p \/ PPl(t) \in {from, to}
         /\ d.v = op[t].v \/ VPl(t) \in {from, to}
         /\ d.chain = op[t].chain \/ ChainPl(t) \in {from, to}
    BY <2>4
  <2>11. /\ from \in Places /\ to \in Places /\ from \notin BinPlaces /\ to \notin BinPlaces
         /\ p \in ChunksAt(from)
    BY <1>4, <1>7
  <2> QED BY ONLY OwnInv, t \in Threads, <1>11, <1>13, <1>14, <2>2, <2>3, <2>6, <2>7, <2>8,
    <2>9,
                  <2>10, <2>11, HandOver, Zenon
<1>17. CASE v # None
  <2> PICK away : away = VPl(t) OBVIOUS
  <2>1. Gives(v, op[t].want) /\ op[t].want \in Int BY <1>2, <1>17 DEF FreePush, Finish, Call_
  <2>2. /\ DOMAIN live' = DOMAIN live \cup {v} /\ live' \in [DOMAIN live' -> Int]
        /\ live'[v] = op[t].want
        /\ \A q \in DOMAIN live' : q # v => q \in DOMAIN live /\ live'[q] = live[q]
    BY <2>1, LiveGives, ZenonT(40) DEF OwnInv
  <2>3. Within(hdr[v].sz, op[t].want) BY <1>3, <1>17 DEF Brings
  <2>4. Shaped' BY <1>1, <1>10, <1>15, <2>2, ShapedBy, Zenon DEF OwnInv, Shaped, binVars
  <2>5. /\ away \in Places /\ away.at = "v" /\ away.t = t /\ away \notin BinPlaces
        /\ LivePl \in Places /\ LivePl.at = "live" /\ LivePl \notin BinPlaces
        /\ v \in ChunksAt(away)
    BY <1>17, PlacesAre, PlacesAt, BinPlacesAre, ChunksAre
  <2>6. Leaves(away, v) /\ Joins(LivePl, v) BY <1>12, <2>2, IdleSound, LeavesAre, JoinsAre
  <2> PICK Q : Q = {from, to, away, LivePl} BY Zenon
  <2>7. OnlyLists(Q) BY <1>1, <1>10, Zenon DEF OnlyLists, heapVars, binVars
  <2>8. Only(Q) BY <1>1, <1>3, <1>15, <2>7, IdleSound, OnlyIs, Zenon DEF OwnInv
  <2>9. \A u \in Threads \ {t} : op'[u] = op[u] /\ PPl(u) \notin Q /\ VPl(u) \notin Q
    BY <1>4, <1>7, <1>12, <2>5, PlacesAt
  <2>10. p \notin DOMAIN live
    <3>1. LivePl \in Places /\ LivePl # from BY <1>4, PlacesAre, PlacesAt
    <3> QED BY <1>4, <3>1, ChunksAre DEF OwnInv, Owned
  <2>11. \A q \in DOMAIN live' : \/ q \in DOMAIN live \ {p, v} /\ live'[q] = live[q]
                                 \/ Within(hdr[q].sz, live'[q])
    BY <2>2, <2>3, <2>10
  <2>12. UNCHANGED heapVars /\ CallSound(op'[t], hdr) BY <1>1, <1>12, <1>15
  <2>13. from \notin {to, away, LivePl} /\ to \notin {away, LivePl} /\ away # LivePl
    BY <1>4, <1>7, <2>5
  <2>14. \A i \in BinIndices : BinPl(i) \in {from, to} => Descends(bins'[i], hdr)
    BY <1>4, <1>7, BinPlacesAre
  <2>15. MayBeAt(LivePl, hdr[v].sz) BY MayBe
  <2> QED BY <1>4, <1>7, <1>11, <1>13, <1>14, <2>4, <2>5, <2>6, <2>8, <2>9, <2>11, <2>12, <2>13,
             <2>14, <2>15, TwoKeep
<1> QED BY <1>16, <1>17

(* Lemma: a second _int_malloc's result goes on to the copy or the end.    *)
LEMMA OwnRetryGot ==
  ASSUME OwnInv, NEW t \in Threads, RetryGot(t)
  PROVE  OwnInv' /\ HeapStep
<1> PICK c : c = op[t] OBVIOUS
<1>1. /\ c.pc = "got" /\ c.fn = "retry" /\ lock' \in Threads \cup {None}
      /\ UNCHANGED <<heapVars, fastVars, binVars, tcache, live>>
  BY DEF RetryGot, Holds, OwnInv, Shaped
<1>2. c \in Call_ /\ CallSound(c, hdr) /\ Searches(c, hdr) /\ c.chain = <<>>
  BY <1>1, SearchFacts DEF InSearch
<1>3. /\ c.p # None /\ Outgrown(c, hdr) /\ c.nb = c.want
      /\ c.v # None => Within(hdr[c.v].sz, c.want)
  BY <1>1, <1>2 DEF Searches
<1>4. CASE c.v # None
  <2> PICK d : d = [c EXCEPT !.pc = "free_chunk"] BY Zenon
  <2>1. op' = [op EXCEPT ![t] = d] BY <1>4 DEF RetryGot
  <2>2. d \in Call_ BY <1>2, CallWith, Zenon DEF UnlockedPCs
  <2>3. Same(d, c) /\ d.pc = "free_chunk" /\ d.v = c.v /\ d.chain = <<>> BY <1>2 DEF Same, Call_
  <2>4. CallSound(d, hdr)
    <3>1. Brings(d, hdr) BY <1>1, <1>3, <2>3 DEF Brings, Same
    <3>2. ~InSearch(d) /\ ~Comes(d, "done") /\ ~Comes(d, "aligned")
      BY <2>3 DEF InSearch, Comes
    <3>3. d.al > 0 /\ d.pad >= 0 /\ d.p # None /\ d.fn # "memalign"
      BY <1>1, <1>2, <1>3, <2>3 DEF CallSound, Same
    <3> QED BY <2>3, <3>1, <3>2, <3>3 DEF CallSound
  <2>5. Shaped' BY <1>1, <2>1, <2>2, CallShaped DEF OwnInv, Shaped, fastVars, binVars
  <2> QED BY <1>1, <1>2, <2>1, <2>2, <2>3, <2>4, <2>5, StayCall, Zenon
    DEF Same, fastVars, binVars
<1>5. CASE c.v = None
  <2> PICK p : p = c.p OBVIOUS
  <2> DEFINE e == [c EXCEPT !.pc = "done"]
             f == [e EXCEPT !.v = p]
             g == [f EXCEPT !.want = c.old]
             d == [g EXCEPT !.p = None]
  <2>1. op' = [op EXCEPT ![t] = d] BY <1>5, Zenon DEF RetryGot, OwnInv, Shaped
  <2>2. p \in Int /\ c.old \in Int BY <1>2, <1>3 DEF Call_, Chunks
  <2>3. /\ e \in Call_ /\ e.pc = "done" /\ e.fn = c.fn /\ e.al = c.al /\ e.pad = c.pad
        /\ e.chain = <<>>
    <3>1. e \in Call_ BY <1>2, CallWith, Zenon DEF LockedPCs
    <3> QED BY <1>2, <3>1 DEF Call_
  <2> HIDE DEF e
  <2>4. /\ f \in Call_ /\ f.pc = "done" /\ f.fn = c.fn /\ f.al = c.al /\ f.pad = c.pad
        /\ f.chain = <<>> /\ f.v = p
    <3>1. f \in Call_ BY <2>2, <2>3, CallWith, Zenon
    <3> QED BY <2>3, <3>1, Zenon DEF Call_
  <2> HIDE DEF f
  <2>5. /\ g \in Call_ /\ g.pc = "done" /\ g.fn = c.fn /\ g.al = c.al /\ g.pad = c.pad
        /\ g.chain = <<>> /\ g.v = p /\ g.want = c.old
    <3>1. g \in Call_ BY <2>2, <2>4, CallWith, Zenon
    <3> QED BY <2>4, <3>1, Zenon DEF Call_
  <2> HIDE DEF g
  <2>6. /\ d \in Call_ /\ d.pc = "done" /\ d.fn = c.fn /\ d.al = c.al /\ d.pad = c.pad
        /\ d.chain = <<>> /\ d.v = p /\ d.want = c.old /\ d.p = None
    <3>1. d \in Call_ BY <2>5, CallWith, Zenon
    <3> QED BY <2>5, <3>1, Zenon DEF Call_
  <2> HIDE DEF d
  <2>7. CallSound(d, hdr)
    <3>1. Brings(d, hdr) BY <1>1, <1>3, <2>6 DEF Brings, Outgrown
    <3>2. d.al > 0 /\ d.pad >= 0 BY <1>2, <2>6 DEF CallSound
    <3> QED BY <2>6, <3>1, <3>2, DoneSound
  <2> PICK from : from = PPl(t) OBVIOUS
  <2> PICK to : to = VPl(t) OBVIOUS
  <2>8. /\ from \in Places /\ from.at = "p" /\ from.t = t /\ from \notin BinPlaces
        /\ to \in Places /\ to.at = "v" /\ to.t = t /\ to \notin BinPlaces
        /\ p \in ChunksAt(from)
    BY <1>3, PlacesAre, PlacesAt, BinPlacesAre, ChunksAre
  <2>9. op'[t] = d BY <2>1, <2>6, CallSet, Zenon DEF OwnInv
  <2>10. Leaves(from, p) /\ Joins(to, p)
    BY <1>3, <1>5, <2>6, <2>9, LeavesAre, JoinsAre
  <2>11. Shaped' BY <1>1, <2>1, <2>6, CallShaped DEF OwnInv, Shaped, fastVars, binVars
  <2>12. OnlyLists({from, to}) BY <1>1 DEF OnlyLists, heapVars, fastVars, binVars
  <2>13. /\ d.p = op[t].p \/ PPl(t) \in {from, to}
         /\ d.v = op[t].v \/ VPl(t) \in {from, to}
         /\ d.chain = op[t].chain \/ ChainPl(t) \in {from, to}
    BY <1>2, <2>6
  <2>14. p \notin DOMAIN live
    <3>1. LivePl \in Places /\ LivePl # from BY <2>8, PlacesAre, PlacesAt
    <3> QED BY <2>8, <3>1, ChunksAre DEF OwnInv, Owned
  <2>15. \A q \in DOMAIN live' : \/ q # p /\ q \in DOMAIN live /\ live'[q] = live[q]
                                 \/ q = p /\ Within(hdr[p].sz, live'[q])
    BY <1>1, <2>14
  <2>16. UNCHANGED <<heapVars, bins>> BY <1>1 DEF binVars
  <2>17. from # to /\ (from.at \in {"p", "v"} => from.t = t) /\ (to.at \in {"p", "v"} => to.t = t)
    BY <2>8
  <2>18. MayBeAt(to, hdr[p].sz) BY MayBe
  <2> QED BY <2>1, <2>6, <2>7, <2>8, <2>10, <2>11, <2>12, <2>13, <2>15, <2>16, <2>17, <2>18,
             HandOver, Zenon
<1> QED BY <1>4, <1>5

(* Lemma: a realloc that got no chunk leaves the old one with the          *)
(* program.                                                                *)
LEMMA OwnReallocNothing ==
  ASSUME OwnInv, NEW t \in Threads, ReallocGot(t), op[t].v = None
  PROVE  OwnInv' /\ HeapStep
<1> PICK c : c = op[t] OBVIOUS
<1> PICK d : d = [c EXCEPT !.pc = "retry"] BY Zenon
<1>1. /\ c.pc = "got" /\ c.fn = "realloc" /\ op' = [op EXCEPT ![t] = d] /\ lock' = None
      /\ UNCHANGED <<heapVars, fastVars, binVars, tcache, live>>
  BY DEF ReallocGot, Holds
<1>2. c \in Call_ /\ CallSound(c, hdr) /\ Searches(c, hdr) /\ c.chain = <<>>
  BY <1>1, SearchFacts DEF InSearch
<1>3. d \in Call_ BY <1>2, CallWith, Zenon DEF UnlockedPCs
<1>4. Same(d, c) /\ d.pc = "retry" /\ d.v = c.v /\ d.chain = <<>> BY <1>2 DEF Same, Call_
<1>5. CallSound(d, hdr)
  <2>1. c.p # None /\ Outgrown(c, hdr) /\ c.want >= MINSIZE BY <1>1, <1>2 DEF Searches
  <2>2. Outgrown(d, hdr) BY <1>4, <2>1 DEF Outgrown, Same
  <2>3. ~InSearch(d) /\ ~Comes(d, "done") /\ ~Comes(d, "aligned") BY <1>4 DEF InSearch, Comes
  <2>4. d.al > 0 /\ d.pad >= 0 BY <1>2, <1>4 DEF CallSound, Same
  <2> QED BY <1>1, <1>4, <2>1, <2>2, <2>3, <2>4 DEF CallSound, Same
<1>6. Shaped' BY <1>1, <1>3, CallShaped DEF OwnInv, Shaped, fastVars, binVars
<1> QED BY <1>1, <1>2, <1>3, <1>4, <1>5, <1>6, StayCall, Zenon DEF Same, fastVars, binVars

(* Lemma: realloc asks _int_malloc again.                                  *)
LEMMA OwnReallocRetry ==
  ASSUME OwnInv, NEW t \in Threads, ReallocRetry(t)
  PROVE  OwnInv' /\ HeapStep
<1> PICK c : c = op[t] OBVIOUS
<1> PICK nb : nb = c.want OBVIOUS
<1>1. c.pc = "retry" /\ UNCHANGED <<heapVars, fastVars, binVars, live>> BY DEF ReallocRetry
<1>2. c \in Call_ /\ CallSound(c, hdr) BY DEF OwnInv, Shaped, CallsInv
<1>3. /\ c.p # None /\ c.v = None /\ nb >= MINSIZE /\ Outgrown(c, hdr) /\ c.fn = "realloc"
      /\ c.chain = <<>> /\ c.al > 0 /\ c.pad >= 0 /\ nb \in Int
  BY <1>1, <1>2 DEF CallSound, Call_
<1>4. CASE CacheHit(t, nb)
  <2> PICK v : v = Head(tcache[t][nb]) OBVIOUS
  <2> PICK from : from = CachePl(t, nb) OBVIOUS
  <2> DEFINE e == [c EXCEPT !.pc = "free_chunk"]
             d == [e EXCEPT !.v = v]
  <2>1. tcache' = [tcache EXCEPT ![t][nb] = Tail(@)] /\ lock' = lock BY <1>4 DEF ReallocRetry
  <2>2. op' = [op EXCEPT ![t] = d] BY <1>4, Zenon DEF ReallocRetry, OwnInv, Shaped
  <2>3. /\ nb \in TcacheSizes /\ v \in DOMAIN hdr /\ v \in Int /\ v # None /\ hdr[v].sz = nb
        /\ from \in Places /\ from.at = "cache" /\ from \notin BinPlaces
        /\ v \in ChunksAt(from) /\ Leaves(from, v)
        /\ tcache' \in [Threads -> [TcacheSizes -> Seq(Int)]]
        /\ \A u \in Threads, x \in TcacheSizes :
             tcache'[u][x] = tcache[u][x] \/ CachePl(u, x) = from
    <3>1. /\ nb \in TcacheSizes /\ v \in DOMAIN hdr /\ v \in Int /\ v # None /\ hdr[v].sz = nb
          /\ CachePl(t, nb) \in Places /\ CachePl(t, nb).at = "cache"
          /\ CachePl(t, nb) \notin BinPlaces
          /\ v \in ChunksAt(CachePl(t, nb)) /\ Leaves(CachePl(t, nb), v)
          /\ tcache' \in [Threads -> [TcacheSizes -> Seq(Int)]]
          /\ \A u \in Threads, x \in TcacheSizes :
               tcache'[u][x] = tcache[u][x] \/ CachePl(u, x) = CachePl(t, nb)
      <4>1. v = Head(tcache[t][nb]) OBVIOUS
      <4> QED BY ONLY <1>4, <2>1, <4>1, OwnInv, t \in Threads, CachedFirst, Zenon
    <3> QED BY <3>1
  <2>4. /\ e \in Call_ /\ e.pc = "free_chunk" /\ Same(e, c) /\ e.chain = <<>>
    <3>1. e \in Call_ BY <1>2, CallWith, Zenon DEF UnlockedPCs
    <3> QED BY <1>2, <1>3, <3>1 DEF Call_, Same
  <2> HIDE DEF e
  <2>5. /\ d \in Call_ /\ d.pc = "free_chunk" /\ Same(d, c) /\ d.chain = <<>> /\ d.v = v
    <3>1. d \in Call_ BY <2>3, <2>4, CallWith, Zenon
    <3> QED BY <2>4, <3>1, Zenon DEF Call_, Same
  <2> HIDE DEF d
  <2>6. CallSound(d, hdr)
    <3>1. Brings(d, hdr) BY <1>3, <2>3, <2>5 DEF Brings, Same, Within, MINSIZE
    <3>2. ~InSearch(d) /\ ~Comes(d, "done") /\ ~Comes(d, "aligned")
      BY <2>5 DEF InSearch, Comes
    <3>3. d.al > 0 /\ d.pad >= 0 /\ d.p # None /\ d.fn # "memalign" BY <1>3, <2>5 DEF Same
    <3> QED BY <2>5, <3>1, <3>2, <3>3 DEF CallSound
  <2>7. Shaped' BY <1>1, <2>1, <2>2, <2>3, <2>5, ShapedBy DEF OwnInv, Shaped, fastVars, binVars
  <2>8. OnlyLists({from}) BY <1>1, <2>3 DEF OnlyLists, heapVars, fastVars, binVars
  <2>9. from.at \notin {"p", "v"} /\ op[t].v = None /\ d.p = op[t].p /\ d.chain = op[t].chain
    BY <1>3, <2>3, <2>5 DEF Same
  <2>10. UNCHANGED <<top, system_mem, live>> /\ Untied(v, from, VPl(t))
    BY <1>1, <2>3, BinPlacesAre DEF heapVars, Untied
  <2>11. \A i \in BinIndices : BinPl(i) = from => Descends(bins'[i], hdr) BY <2>3, PlacesAt
  <2> QED BY <2>2, <2>3, <2>5, <2>6, <2>7, <2>8, <2>9, <2>10, <2>11, ToHand, Zenon
<1>5. CASE ~CacheHit(t, nb)
  <2> DEFINE r == [c EXCEPT !.fn = "retry"]
  <2>1. Enter(t, r, nb) /\ tcache' = tcache BY <1>5 DEF ReallocRetry
  <2>2. /\ r \in Call_ /\ r.fn = "retry" /\ r.v = None /\ r.chain = <<>> /\ r.al = c.al
        /\ r.pad = c.pad /\ r.want = nb /\ r.p = c.p /\ r.old = c.old
    <3>1. r \in Call_ BY <1>2, CallWith, Zenon
    <3> QED BY <1>2, <1>3, <3>1 DEF Call_
  <2> HIDE DEF r
  <2>3. PICK d \in Call_ : /\ op' = [op EXCEPT ![t] = d] /\ lock' = t /\ CallSound(d, hdr)
                          /\ d.p = r.p /\ d.v = None /\ d.chain = <<>>
    <3>1. (r.fn = "memalign" => nb = Padded(r.want, r.al))
          /\ (r.fn # "memalign" => nb = r.want)
      BY <2>2
    <3>2. Outgrown(r, hdr) BY <1>3, <2>2 DEF Outgrown
    <3>3. (r.fn \in {"realloc", "retry"} => r.p # None /\ Outgrown(r, hdr))
          /\ (r.fn \notin {"realloc", "retry"} => r.p = None)
      BY <1>3, <2>2, <3>2
    <3>4. r.want >= MINSIZE /\ r.al > 0 /\ r.pad >= 0
      <4>1. r.want >= MINSIZE BY <1>3, <2>2
      <4>2. r.al > 0 /\ r.pad >= 0 BY <1>3, <2>2
      <4> QED BY <4>1, <4>2
    <3>5. r \in Call_ /\ r.fn \in {"malloc", "realloc", "retry", "memalign"}
          /\ r.v = None /\ r.chain = <<>>
      BY <2>2
    <3> QED BY <2>1, <3>1, <3>3, <3>4, <3>5, EnterSound, Zenon
  <2>4. Shaped' BY <1>1, <2>1, <2>3, CallShaped DEF OwnInv, Shaped, fastVars, binVars
  <2> QED BY <1>1, <1>3, <2>1, <2>2, <2>3, <2>4, StayCall, Zenon DEF fastVars, binVars
<1> QED BY <1>4, <1>5

(* Lemma: memalign begins with a padded request.                           *)
LEMMA OwnMemalign ==
  ASSUME OwnInv, NEW t \in Threads, NEW al \in Nat \ {0}, NEW nb \in Nat, nb >= MINSIZE,
         Memalign(t, al, nb)
  PROVE  OwnInv' /\ HeapStep
<1> PICK hits : hits = IF nb \in TcacheSizes THEN AlignedIn(t, nb, al) ELSE {} BY Zenon
<1>1. op[t] = Idle /\ op[t] \in Call_ /\ UNCHANGED <<heapVars, fastVars, binVars>>
  BY IdleCall, IdleSound DEF Memalign
<1>2. CASE hits # {}
  <2> PICK s : s = tcache[t][nb] OBVIOUS
  <2> PICK i : i = CHOOSE n \in hits : \A m \in hits : n <= m OBVIOUS
  <2> PICK c : c = s[i] BY Zenon
  <2> PICK from : from = CachePl(t, nb) OBVIOUS
  <2>1. /\ tcache' = [tcache EXCEPT ![t][nb] = RemoveAt(@, i)] /\ Gives(c, nb)
        /\ lock' = lock /\ op' = op
    BY <1>2 DEF Memalign
  <2>2. nb \in TcacheSizes /\ hits = AlignedIn(t, nb, al) BY <1>2
  <2>3. Once(s) /\ ToSet(s) \subseteq DOMAIN hdr /\ \A x \in ToSet(s) : hdr[x].sz = nb
    BY <2>2, ListsAre
  <2>4. i \in DOMAIN s
    <3>1. hits \subseteq DOMAIN s BY <2>2 DEF AlignedIn
    <3>2. DOMAIN s \subseteq Nat BY <2>3, ListIs DEF Once
    <3>3. \E n \in hits : \A m \in hits : n <= m BY <1>2, <3>1, <3>2, LeastNumber
    <3>4. i \in hits BY <3>3
    <3> QED BY <3>1, <3>4
  <2>5. Fewer(RemoveAt(s, i), s, {c}) /\ c \in ToSet(s) BY <2>3, <2>4, RemoveAtFewer,
    Zenon DEF ToSet
  <2>6. c \in DOMAIN hdr /\ c \in Int /\ c # None /\ hdr[c].sz = nb BY <2>3, <2>5, AddressOf
  <2>7. /\ tcache' \in [Threads -> [TcacheSizes -> Seq(Int)]] /\ tcache'[t][nb] = RemoveAt(s, i)
        /\ \A u \in Threads, x \in TcacheSizes :
             tcache'[u][x] = tcache[u][x] \/ CachePl(u, x) = from
    <3> PICK r : r = RemoveAt(s, i) BY Zenon
    <3>1. r \in Seq(Int) BY <2>5 DEF Fewer, Once
    <3>2. tcache' = [tcache EXCEPT ![t][nb] = r] BY <2>1
    <3>3. tcache \in [Threads -> [TcacheSizes -> Seq(Int)]] BY DEF OwnInv, Shaped
    <3>4. tcache' \in [Threads -> [TcacheSizes -> Seq(Int)]] /\ tcache'[t][nb] = r
      BY <2>2, <3>1, <3>2, <3>3
    <3>5. \A u \in Threads, x \in TcacheSizes : u # t \/ x # nb => tcache'[u][x] = tcache[u][x]
      BY <2>2, <3>2, <3>3
    <3> QED BY <3>4, <3>5
  <2>8. Leaves(from, c)
    <3>1. Fewer(tcache'[t][nb], tcache[t][nb], {c}) BY <2>5, <2>7
    <3> QED BY <3>1, LeavesAre, Zenon
  <2>9. /\ DOMAIN live' = DOMAIN live \cup {c} /\ live' \in [DOMAIN live' -> Int]
        /\ live'[c] = nb
        /\ \A p \in DOMAIN live' : p # c => p \in DOMAIN live /\ live'[p] = live[p]
    BY nb \in Int, <2>1, LiveGives, Zenon DEF OwnInv
  <2> PICK d : d = op[t] OBVIOUS
  <2>10. op' = [op EXCEPT ![t] = d] BY <2>1 DEF OwnInv, Shaped
  <2>11. Shaped' BY <1>1, <2>1, <2>7, <2>9, <2>10, ShapedBy, Zenon
    DEF OwnInv, Shaped, fastVars, binVars
  <2>12. /\ from \in Places /\ from.at = "cache" /\ from \notin BinPlaces /\ c \in ChunksAt(from)
         /\ LivePl \in Places /\ LivePl.at = "live" /\ LivePl \notin BinPlaces
    BY <2>2, <2>5, PlacesAre, PlacesAt, BinPlacesAre, ChunksAre
  <2>13. Joins(LivePl, c) BY <2>9, JoinsAre, Zenon
  <2>14. OnlyLists({from, LivePl}) BY <1>1, <2>7 DEF OnlyLists, heapVars, fastVars, binVars
  <2>15. \A p \in DOMAIN live' : \/ p # c /\ p \in DOMAIN live /\ live'[p] = live[p]
                                 \/ p = c /\ Within(hdr[c].sz, live'[p])
    BY <2>6, <2>9 DEF Within, MINSIZE
  <2>16. CallSound(d, hdr) BY <1>1, IdleSound
  <2>17. MayBeAt(LivePl, hdr[c].sz) BY MayBe
  <2>18. UNCHANGED <<heapVars, bins>> BY <1>1 DEF binVars
  <2>19. from # LivePl /\ (from.at \in {"p", "v"} => from.t = t)
         /\ (LivePl.at \in {"p", "v"} => LivePl.t = t)
    BY <2>12
  <2>20. d \in Call_ /\ d.p = op[t].p /\ d.v = op[t].v /\ d.chain = op[t].chain BY <1>1
  <2>21. from \in Places /\ from \notin BinPlaces /\ c \in ChunksAt(from)
         /\ LivePl \in Places /\ LivePl \notin BinPlaces
    BY <2>12
  <2> QED BY ONLY OwnInv, t \in Threads, <2>8, <2>10, <2>11, <2>13, <2>14, <2>15, <2>16,
    <2>17,
                  <2>18, <2>19, <2>20, <2>21, HandOver, Zenon
<1>3. CASE hits = {}
  <2> DEFINE e == [Idle EXCEPT !.fn = "memalign"]
             f == [e EXCEPT !.want = nb]
             call == [f EXCEPT !.al = al]
             n == Padded(nb, al)
  <2>1. Enter(t, call, n) /\ UNCHANGED <<tcache, live>> BY <1>3 DEF Memalign
  <2>2. e \in Call_ /\ e.fn = "memalign" /\ e.p = None /\ e.v = None /\ e.chain = <<>>
        /\ e.pad = 0
    <3>1. e \in Call_ BY IdleSound, CallWith, Zenon
    <3> QED BY <3>1 DEF Idle
  <2> HIDE DEF e
  <2>3. f \in Call_ /\ f.fn = "memalign" /\ f.p = None /\ f.v = None /\ f.chain = <<>>
        /\ f.pad = 0 /\ f.want = nb
    <3>1. f \in Call_ BY <2>2, nb \in Int, CallWith, Zenon
    <3> QED BY <2>2, <3>1 DEF Call_
  <2> HIDE DEF f
  <2>4. call \in Call_ /\ call.fn = "memalign" /\ call.p = None /\ call.v = None
        /\ call.chain = <<>> /\ call.pad = 0 /\ call.want = nb /\ call.al = al
    <3>1. call \in Call_ BY <2>3, al \in Int, CallWith, Zenon
    <3> QED BY <2>3, <3>1 DEF Call_
  <2> HIDE DEF call
  <2>5. n = Padded(call.want, call.al) BY <2>4
  <2> HIDE DEF n
  <2>6. PICK d \in Call_ : /\ op' = [op EXCEPT ![t] = d] /\ lock' = t /\ CallSound(d, hdr)
                          /\ d.p = call.p /\ d.v = None /\ d.chain = <<>>
    <3>1. (call.fn = "memalign" => n = Padded(call.want, call.al))
          /\ (call.fn # "memalign" => n = call.want)
      BY <2>4, <2>5
    <3>2. (call.fn \in {"realloc", "retry"} => call.p # None /\ Outgrown(call, hdr))
          /\ (call.fn \notin {"realloc", "retry"} => call.p = None)
      BY <2>4
    <3>3. call.want >= MINSIZE /\ call.al > 0 /\ call.pad >= 0
      <4>1. call.want >= MINSIZE BY <2>4
      <4>2. call.al > 0 BY <2>4
      <4>3. call.pad >= 0 BY <2>4
      <4> QED BY <4>1, <4>2, <4>3
    <3>4. call \in Call_ /\ call.fn \in {"malloc", "realloc", "retry", "memalign"}
          /\ call.v = None /\ call.chain = <<>>
      BY <2>4
    <3> QED BY <2>1, <3>1, <3>2, <3>3, <3>4, EnterSound, Zenon
  <2>7. Shaped' BY <1>1, <2>1, <2>6, CallShaped DEF OwnInv, Shaped, fastVars, binVars
  <2> QED BY <1>1, <2>1, <2>4, <2>6, <2>7, IdleSound, StayCall, Zenon DEF fastVars, binVars
<1> QED BY <1>2, <1>3

(* Lemma: a fastbin is taken whole.                                        *)
LEMMA OwnConsolidateDetach ==
  ASSUME OwnInv, NEW t \in Threads, ConsolidateDetach(t)
  PROVE  OwnInv' /\ HeapStep
<1> PICK c : c = op[t] OBVIOUS
<1> PICK n : n = c.fb OBVIOUS
<1> PICK s : s = fastbins[n] OBVIOUS
<1> PICK from : from = FastPl(n) OBVIOUS
<1> PICK to : to = ChainPl(t) OBVIOUS
<1> DEFINE e == [c EXCEPT !.chain = s]
           d == [e EXCEPT !.fb = n + 1]
<1>1. /\ c.pc = "consolidate" /\ c.chain = <<>> /\ n \in FastSizes
      /\ fastbins' = [fastbins EXCEPT ![n] = <<>>]
      /\ UNCHANGED <<lock, heapVars, have_fastchunks, binVars, tcache, live>>
  BY DEF ConsolidateDetach, Holds
<1>2. op' = [op EXCEPT ![t] = d] BY Zenon DEF ConsolidateDetach, OwnInv, Shaped
<1>3. c \in Call_ /\ CallSound(c, hdr) /\ n \in Int BY Zenon
  DEF OwnInv, Shaped, CallsInv, Call_
<1>4. Once(s) /\ ToSet(s) \subseteq DOMAIN hdr BY <1>1, ListsAre
<1>5. /\ e \in Call_ /\ e.pc = c.pc /\ Same(e, c) /\ e.chain = s /\ e.v = c.v
      /\ e.after = c.after /\ e.k = c.k
  <2>1. e \in Call_
    <3>1. s \in Seq(Int) BY <1>4 DEF Once
    <3> QED BY <1>3, <3>1, CallWith, Zenon
  <2> QED BY <1>3, <2>1 DEF Call_, Same
<1> HIDE DEF e
<1>6. /\ d \in Call_ /\ d.pc = c.pc /\ Same(d, c) /\ d.chain = s /\ d.v = c.v
      /\ d.after = c.after /\ d.k = c.k
  <2>1. n + 1 \in Int BY <1>3
  <2>2. d \in Call_ BY <1>5, <2>1, CallWith, Zenon
  <2> QED BY <1>5, <2>2 DEF Call_, Same
<1> HIDE DEF d
<1>7. CallSound(d, hdr) BY <1>1, <1>3, <1>6, SameSound
<1>8. /\ fastbins' \in [FastSizes -> Seq(Int)] /\ fastbins'[n] = <<>>
      /\ \A x \in FastSizes : x # n => fastbins'[x] = fastbins[x]
  BY <1>1, EmptyOnce, FastOne, Zenon DEF OwnInv
<1>9. /\ from \in Places /\ from.at = "fast" /\ from \notin BinPlaces /\ ChunksAt(from) = ToSet(s)
      /\ to \in Places /\ to.at = "chain" /\ to \notin BinPlaces /\ ChunksAt(to) = {}
  <2>1. ToSet(<<>>) = {} BY DEF ToSet
  <2> QED BY <1>1, <2>1, PlacesAre, PlacesAt, BinPlacesAre, ChunksAre
<1>10. op'[t] = d /\ \A u \in Threads \ {t} : op'[u] = op[u] BY <1>2, <1>6, CallSet,
  Zenon DEF OwnInv
<1>11. Shaped' BY <1>1, <1>2, <1>6, <1>8, ShapedBy DEF OwnInv, Shaped, binVars
<1> PICK G : G = ToSet(s) OBVIOUS
<1> PICK dest : dest = [x \in G |-> to] BY Zenon
<1> PICK Q : Q = {from, to} BY Zenon
<1>12. \A x \in G : dest[x] = to OBVIOUS
<1>13. Placing(Q, G, G, dest)
  <2>1. OnlyLists(Q) BY <1>1, <1>8 DEF OnlyLists, heapVars, binVars
  <2>2. Only(Q) BY <1>2, <1>6, <2>1, OnlyIs, Zenon DEF OwnInv, Same
  <2>3. /\ ChunksAt(from)' = {} /\ Once(ListAt(from)')
        /\ ChunksAt(to)' = G /\ Once(ListAt(to)')
    <3>1. ToSet(<<>>) = {} BY DEF ToSet
    <3>2. ChunksAt(from)' = ToSet(<<>>) /\ ListAt(from)' = <<>> BY <1>8, ChunksAreNext, ListsAtNext
    <3>3. ChunksAt(to)' = ToSet(s) /\ ListAt(to)' = s
      BY <1>6, <1>10, ChunksAreNext, ListsAtNext
    <3> QED BY <1>4, <3>1, <3>2, <3>3, EmptyOnce
  <2>4. {x \in G : dest[x] = from} = {} /\ {x \in G : dest[x] = to} = G BY <1>9, <1>12
  <2>5. ASSUME NEW pl \in Q
        PROVE  ChunksAt(pl)' = (ChunksAt(pl) \ G) \cup {x \in G : dest[x] = pl}
               /\ Once(ListAt(pl)')
    <3>1. CASE pl = from BY <1>9, <2>3, <2>4, <3>1
    <3>2. CASE pl = to BY <1>9, <2>3, <2>4, <3>2
    <3> QED BY <3>1, <3>2
  <2>6. hdr' = hdr BY <1>1 DEF heapVars
  <2>7. \A x \in G : \E pl \in Q : x \in ChunksAt(pl) BY <1>9
  <2>8. DOMAIN hdr' = (DOMAIN hdr \ G) \cup G /\ G \cap (DOMAIN hdr \ G) = {} BY <1>4, <2>6
  <2>9. Q \subseteq Places /\ \A x \in G : dest[x] \in Q BY <1>9, <1>12
  <2> QED BY <2>2, <2>5, <2>6, <2>7, <2>8, <2>9 DEF Placing
<1>14. Binned' = Binned BY <1>1 DEF Binned, ListsOf, binVars
<1>15. HeapStep BY <1>1, <1>14 DEF HeapStep, heapVars
<1>16. Leaving(t, Q, G, G, dest)
  <2>1. hdr' = hdr /\ live' = live BY <1>1 DEF heapVars
  <2>2. \A u \in Threads \ {t} : op'[u] = op[u] /\ PPl(u) \notin Q /\ VPl(u) \notin Q
    BY <1>9, <1>10, PlacesAt
  <2>3. \A x \in G : MayBeAt(dest[x], hdr'[x].sz) BY <1>12, MayBe
  <2>4. \A p \in DOMAIN live' : Within(hdr'[p].sz, live'[p]) BY <2>1 DEF OwnInv, LiveFits, Within
  <2>5. \A i \in BinIndices : BinPl(i) \notin Q BY <1>9, PlacesAt
  <2>6. CallSound(op'[t], hdr') BY <1>7, <1>10, <2>1
  <2> QED BY <1>11, <1>15, <2>2, <2>3, <2>4, <2>5, <2>6 DEF Leaving
<1> QED BY <1>13, <1>15, <1>16, LeavingKeeps
=============================================================================
