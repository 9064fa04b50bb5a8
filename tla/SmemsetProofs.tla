---------------------------- MODULE SmemsetProofs ----------------------------
(***************************************************************************)
(* smemset fills its buffer and nothing else, with aligned word stores,    *)
(* for every destination, length, limit and both word sizes.               *)
(***************************************************************************)
EXTENDS Smemset, TLAPS

Filled == [a \in Memory |-> IF dst <= a /\ a < dstp THEN Fill ELSE Old]

(* What each loop still has to fill, in its own way of counting.           *)
Remaining ==
  CASE pc = "blocks" -> (xlen * (OPSIZ * 8)) + (len % (OPSIZ * 8))
    [] pc = "words"  -> (xlen * OPSIZ) + (len % OPSIZ)
    [] OTHER         -> len

Typed ==
  /\ pc \in {"idle", "align", "blocks", "words", "bytes", "returned"}
  /\ dst \in Nat /\ size \in Nat /\ dstp \in Nat /\ len \in Nat /\ xlen \in Nat

(* The bytes up to dstp are filled, the rest of the buffer remains, and    *)
(* the alignment loop has enough bytes to get to a word.                   *)
IInv ==
  /\ Typed
  /\ mem = Filled
  /\ dst <= dstp /\ dstp + Remaining = dst + size
  /\ pc = "align" => dstp % OPSIZ = 0 \/ len + (dstp % OPSIZ) >= OPSIZ
  /\ pc \in {"idle", "returned"} => len = 0
  /\ pc = "idle" => size = 0
  /\ WordsAligned

(* The word that smemset stores has c in every byte.                       *)
LEMMA CcccFull == Cccc = 0 .. OPSIZ - 1
<1>1. CASE OPSIZ = 8
  <2> DEFINE two == Shifted({0}, 1)
             half == Shifted(two, 2)
  <2>1. two = {0, 1}
    BY <1>1 DEF Shifted
  <2>2. half = {0, 1, 2, 3}
    BY <1>1, <2>1 DEF Shifted
  <2>3. Shifted(half, 4) = 0 .. 7
    BY <1>1, <2>2 DEF Shifted
  <2> QED BY <1>1, <2>3 DEF Cccc
<1>2. CASE OPSIZ = 4
  <2> DEFINE two == Shifted({0}, 1)
             half == Shifted(two, 2)
  <2>1. two = {0, 1}
    BY <1>2 DEF Shifted
  <2>2. half = 0 .. 3
    BY <1>2, <2>1 DEF Shifted
  <2> QED BY <1>2, <2>2 DEF Cccc
<1> QED BY <1>1, <1>2, SmemsetAssumption

(* Storing n words at dstp fills what dstp then passes.                    *)
LEMMA StoreWordsFills ==
  ASSUME IInv, NEW n \in {1, 8}, StoreWords(dstp, n), dstp' = dstp + n * OPSIZ, dst' = dst
  PROVE  mem' = Filled'
<1> DEFINE end == dstp + n * OPSIZ
<1>1. /\ Memory \subseteq Nat /\ dstp \in Nat /\ dst \in Nat /\ OPSIZ \in {4, 8}
      /\ dst <= dstp /\ end \in Nat /\ end >= dstp
  BY SmemsetAssumption DEF IInv, Typed
<1>2. \A x \in Memory : dstp <= x => (x - dstp) % OPSIZ \in Cccc
  BY <1>1, CcccFull
<1>3. mem' = [x \in Memory |-> IF dstp <= x /\ x < end
                               THEN IF (x - dstp) % OPSIZ \in Cccc THEN Fill ELSE Zero
                               ELSE mem[x]]
  BY DEF StoreWords
<1>4. \A x \in Memory : mem[x] = IF dst <= x /\ x < dstp THEN Fill ELSE Old
  BY DEF IInv, Filled
<1>5. Filled' = [x \in Memory |-> IF dst <= x /\ x < end THEN Fill ELSE Old]
  BY DEF Filled
<1>6. ASSUME NEW x \in Memory
      PROVE  mem'[x] = IF dst <= x /\ x < end THEN Fill ELSE Old
  <2>1. CASE dstp <= x /\ x < end
    <3>1. (x - dstp) % OPSIZ \in Cccc BY <1>2, <2>1
    <3>2. dst <= x BY <1>1, <2>1
    <3> QED BY <1>3, <2>1, <3>1, <3>2
  <2>2. CASE ~(dstp <= x /\ x < end)
    <3>1. mem'[x] = mem[x] BY <1>3, <2>2
    <3>2. (dst <= x /\ x < end) <=> (dst <= x /\ x < dstp) BY <1>1, <2>2
    <3> QED BY <1>4, <3>1, <3>2
  <2> QED BY <2>1, <2>2
<1> QED BY <1>3, <1>5, <1>6, Zenon

(* A byte stored at dstp fills what dstp then passes.                      *)
LEMMA StoreByteFills ==
  ASSUME IInv, StoreByte(dstp), dstp' = dstp + 1, dst' = dst
  PROVE  mem' = Filled'
BY SmemsetAssumption DEF IInv, Typed, Filled, StoreByte

(* At the start no call has been made.                                     *)
LEMMA InitIInv == Init => IInv
BY SmemsetAssumption DEF Init, NULL, IInv, Typed, Filled, Remaining, WordsAligned

(* Each step fills what its counters say and nothing else.                 *)
LEMMA StepIInv == IInv /\ [Next]_vars => IInv'
<1> SUFFICES ASSUME IInv, [Next]_vars PROVE IInv'
  OBVIOUS
<1> USE SmemsetAssumption
<1>1. ASSUME NEW d \in Dsts, NEW n \in Lengths, NEW max \in Limits \cup {GenericLimit},
             Call(d, n, max)
      PROVE  IInv'
  <2>1. mem' = Filled'
    BY <1>1 DEF IInv, Typed, Filled, Call, Remaining
  <2>2. Typed' BY <1>1 DEF IInv, Typed, Call
  <2> QED BY <1>1, <2>1, <2>2 DEF IInv, Typed, Call, Remaining, WordsAligned
<1>2. CASE Align
  <2>1. CASE dstp % OPSIZ # 0 /\ len > 0
    <3>1. StoreByte(dstp) /\ dstp' = dstp + 1 /\ len' = len - 1
          /\ UNCHANGED <<pc, xlen, dst, size>> /\ pc = "align"
      BY <1>2, <2>1 DEF Align, args
    <3>2. mem' = Filled' BY <3>1, StoreByteFills
    <3> QED BY <2>1, <3>1, <3>2 DEF IInv, Typed, Remaining, WordsAligned
  <2>2. CASE ~(dstp % OPSIZ # 0 /\ len > 0)
    <3>1. /\ pc = "align" /\ pc' = "blocks" /\ xlen' = len \div (OPSIZ * 8)
          /\ UNCHANGED <<mem, dstp, len, dst, size>>
      BY <1>2, <2>2 DEF Align, args
    <3>2. mem' = Filled' BY <3>1 DEF IInv, Filled
    <3> QED BY <2>2, <3>1, <3>2 DEF IInv, Typed, Remaining, WordsAligned
  <2> QED BY <2>1, <2>2
<1>3. CASE Block
  <2>1. mem' = Filled' BY <1>3, StoreWordsFills DEF Block, args
  <2>2. CASE OPSIZ = 8
    BY <1>3, <2>1, <2>2 DEF Block, args, IInv, Typed, Remaining, WordsAligned
  <2>3. CASE OPSIZ = 4
    BY <1>3, <2>1, <2>3 DEF Block, args, IInv, Typed, Remaining, WordsAligned
  <2> QED BY <2>2, <2>3
<1>4. CASE BlocksDone
  <2>1. mem' = Filled' BY <1>4 DEF BlocksDone, args, IInv, Filled
  <2>2. /\ pc = "blocks" /\ pc' = "words" /\ len' = len % (OPSIZ * 8) /\ xlen' = len' \div OPSIZ
        /\ UNCHANGED <<dst, size, dstp>> /\ len' \in Nat /\ xlen' \in Nat
    BY <1>4 DEF BlocksDone, args, IInv, Typed
  <2>3. Remaining = len'
    BY <1>4, <2>2 DEF BlocksDone, IInv, Typed, Remaining
  <2>4. CASE OPSIZ = 8
    <3>1. (xlen' * OPSIZ) + (len' % OPSIZ) = len' BY <2>2, <2>4
    <3> QED BY <2>1, <2>2, <2>3, <3>1 DEF IInv, Typed, Remaining, WordsAligned
  <2>5. CASE OPSIZ = 4
    <3>1. (xlen' * OPSIZ) + (len' % OPSIZ) = len' BY <2>2, <2>5
    <3> QED BY <2>1, <2>2, <2>3, <3>1 DEF IInv, Typed, Remaining, WordsAligned
  <2> QED BY <2>4, <2>5
<1>5. CASE Word
  <2>1. mem' = Filled' BY <1>5, StoreWordsFills DEF Word, args
  <2> QED BY <1>5, <2>1 DEF Word, args, IInv, Typed, Remaining, WordsAligned
<1>6. CASE WordsDone
  <2>1. mem' = Filled' BY <1>6 DEF WordsDone, args, IInv, Filled
  <2> QED BY <1>6, <2>1 DEF WordsDone, args, IInv, Typed, Remaining, WordsAligned
<1>7. CASE Bytes
  <2>1. CASE len > 0
    <3>1. mem' = Filled' BY <1>7, <2>1, StoreByteFills DEF Bytes, args
    <3> QED BY <1>7, <2>1, <3>1 DEF Bytes, args, IInv, Typed, Remaining, WordsAligned
  <2>2. CASE ~(len > 0)
    <3>1. mem' = Filled' BY <1>7, <2>2 DEF Bytes, args, IInv, Filled
    <3> QED BY <1>7, <2>2, <3>1 DEF Bytes, args, IInv, Typed, Remaining, WordsAligned
  <2> QED BY <2>1, <2>2
<1>8. CASE Return
  BY <1>8 DEF Return, NULL, IInv, Typed, Filled, Remaining, WordsAligned
<1>9. CASE UNCHANGED vars
  BY <1>9 DEF vars, args, IInv, Typed, Filled, Remaining, WordsAligned
<1>10. ASSUME NEW d \in Dsts, NEW n \in Lengths, NEW max \in Limits \cup {GenericLimit},
              Refuse(d, n, max)
       PROVE  IInv'
  BY <1>9, <1>10 DEF Refuse
<1> QED
  BY <1>1, <1>2, <1>3, <1>4, <1>5, <1>6, <1>7, <1>8, <1>9, <1>10 DEF Next

(* The invariant implies the properties.                                   *)
LEMMA IInvGives == IInv => ExactFill /\ WordsAligned
<1> SUFFICES ASSUME IInv PROVE ExactFill /\ WordsAligned
  OBVIOUS
<1>1. Remaining \in Nat
  BY SmemsetAssumption DEF IInv, Typed, Remaining
<1> QED BY <1>1, SmemsetAssumption DEF IInv, Typed, Filled, Remaining, ExactFill

(* smemset fills exactly the buffer it was given, for every buffer that    *)
(* the checks accept, and both word sizes.                                 *)
THEOREM SmemsetExact == Spec => []ExactFill
BY InitIInv, StepIInv, IInvGives, PTL DEF Spec

(* Its word stores are aligned.                                            *)
THEOREM SmemsetAligned == Spec => []WordsAligned
BY InitIInv, StepIInv, IInvGives, PTL DEF Spec
=============================================================================
