------------------------------ MODULE Smemset ------------------------------
(***************************************************************************)
(* smemset: the checks of a call's destination and length, and the loops   *)
(* that fill memory a byte, a block of eight words or a word at a time.    *)
(*                                                                         *)
(* A byte of memory is Old (what was there), Fill (the caller's c) or Zero *)
(* (written, but not with c).  Address 0 is NULL.  The memory barriers     *)
(* order nothing that a sequential program can see and are left out.       *)
(*                                                                         *)
(* An operator X_Slip is X with a plausible slip.                          *)
(***************************************************************************)
EXTENDS Integers

CONSTANTS
  OPSIZ,         \* bytes in a word: 8 on x86-64 and AArch64, else 4
  GenericLimit,  \* the length that smemset itself accepts
  Limits,        \* the lengths that smemset_ex and smemset_limited accept
  Memory,        \* bound: the addresses looked at
  Dsts,          \* bound: the destinations of calls, NULL too
  Lengths,       \* bound: the lengths of calls
  Old, Fill, Zero

ASSUME SmemsetAssumption ==
  /\ OPSIZ \in {4, 8}
  /\ GenericLimit \in Nat /\ Limits \subseteq Nat
  /\ Memory \subseteq Nat /\ Dsts \subseteq Nat /\ Lengths \subseteq Nat
  /\ Old # Fill /\ Old # Zero /\ Fill # Zero

NULL == 0

VARIABLES
  mem,   \* address -> what the byte there is
  pc,    \* "idle", the loop the call is in, or "returned"
  dst,   \* the call's dstpp
  size,  \* the call's len, as it was given
  dstp,  \* where the next store goes
  len,   \* the variable of that name
  xlen   \* the variable of that name

args == <<dst, size>>
vars == <<mem, pc, args, dstp, len, xlen>>

Init ==
  /\ mem = [a \in Memory |-> Old]
  /\ pc = "idle" /\ dst = NULL /\ size = 0
  /\ dstp = 0 /\ len = 0 /\ xlen = 0

(* smemset_validate_params and smemset_validate_params_limited.            *)
Valid(d, n, max) == d # NULL /\ (n = 0 \/ n <= max)

(* smemset_ex and smemset_limited check their own limit before smemset     *)
(* checks its; smemset alone is the limit GenericLimit twice.              *)
Accepted(d, n, max) == Valid(d, n, max) /\ Valid(d, n, GenericLimit)

(* The bytes of the word cccc that hold c: byte 0, and then twice as many  *)
(* by each shift.                                                          *)
Shifted(w, k) == w \cup {b \in 0 .. OPSIZ - 1 : b - k \in w}
Cccc_HalfWord == Shifted(Shifted({0}, 1), 2)
Cccc ==
  LET half == Shifted(Shifted({0}, 1), 2)
  IN  IF OPSIZ > 4 THEN Shifted(half, 4) ELSE half

StoreByte(a) == mem' = [x \in Memory |-> IF x = a THEN Fill ELSE mem[x]]

(* n words stored one after the other from address a.                      *)
StoreWords(a, n) ==
  mem' = [x \in Memory |-> IF a <= x /\ x < a + n * OPSIZ
                           THEN IF (x - a) % OPSIZ \in Cccc THEN Fill ELSE Zero
                           ELSE mem[x]]

(* A call that is not accepted returns NULL and does nothing.              *)
Call(d, n, max) ==
  /\ pc = "idle" /\ Accepted(d, n, max)
  /\ dst' = d /\ size' = n /\ dstp' = d /\ len' = n /\ xlen' = 0
  /\ pc' = IF n >= 8 THEN "align" ELSE "bytes"
  /\ UNCHANGED mem

Refuse(d, n, max) ==
  /\ pc = "idle" /\ ~Accepted(d, n, max)
  /\ UNCHANGED vars

Align_Once ==
  /\ pc = "align"
  /\ IF dstp % OPSIZ # 0 /\ len > 0
     THEN StoreByte(dstp) /\ dstp' = dstp + 1 /\ len' = len - 1 /\ xlen' = (len - 1) \div (OPSIZ * 8)
     ELSE xlen' = len \div (OPSIZ * 8) /\ UNCHANGED <<mem, dstp, len>>
  /\ pc' = "blocks"
  /\ UNCHANGED args
Align ==
  /\ pc = "align"
  /\ IF dstp % OPSIZ # 0 /\ len > 0
     THEN StoreByte(dstp) /\ dstp' = dstp + 1 /\ len' = len - 1 /\ UNCHANGED <<pc, xlen>>
     ELSE pc' = "blocks" /\ xlen' = len \div (OPSIZ * 8) /\ UNCHANGED <<mem, dstp, len>>
  /\ UNCHANGED args

Block ==
  /\ pc = "blocks" /\ xlen > 0
  /\ StoreWords(dstp, 8) /\ dstp' = dstp + 8 * OPSIZ /\ xlen' = xlen - 1
  /\ UNCHANGED <<pc, args, len>>

BlocksDone ==
  /\ pc = "blocks" /\ xlen = 0
  /\ len' = len % (OPSIZ * 8) /\ xlen' = len' \div OPSIZ /\ pc' = "words"
  /\ UNCHANGED <<mem, args, dstp>>

Word ==
  /\ pc = "words" /\ xlen > 0
  /\ StoreWords(dstp, 1) /\ dstp' = dstp + OPSIZ /\ xlen' = xlen - 1
  /\ UNCHANGED <<pc, args, len>>

WordsDone ==
  /\ pc = "words" /\ xlen = 0
  /\ len' = len % OPSIZ /\ pc' = "bytes"
  /\ UNCHANGED <<mem, args, dstp, xlen>>

Bytes ==
  /\ pc = "bytes"
  /\ IF len > 0 THEN StoreByte(dstp) /\ dstp' = dstp + 1 /\ len' = len - 1 /\ UNCHANGED pc
     ELSE pc' = "returned" /\ UNCHANGED <<mem, dstp, len>>
  /\ UNCHANGED <<args, xlen>>

(* The program goes on; what the next call finds in memory is Old again.   *)
Return ==
  /\ pc = "returned"
  /\ mem' = [a \in Memory |-> Old]
  /\ pc' = "idle" /\ dst' = NULL /\ size' = 0
  /\ dstp' = 0 /\ len' = 0 /\ xlen' = 0

Next ==
  \/ \E d \in Dsts, n \in Lengths, max \in Limits \cup {GenericLimit} :
       Call(d, n, max) \/ Refuse(d, n, max)
  \/ Align \/ Block \/ BlocksDone \/ Word \/ WordsDone \/ Bytes \/ Return

Spec == Init /\ [][Next]_vars

-----------------------------------------------------------------------------
(* Properties.                                                             *)

(* The loops fill the caller's buffer with c and touch nothing else: at    *)
(* every moment the bytes before dstp hold c and the others what was       *)
(* there, and when the call returns dstp has come to the end, so that the  *)
(* lengths that the three divisions leave over add up.                     *)
ExactFill ==
  /\ \A a \in Memory : mem[a] = IF dst <= a /\ a < dstp THEN Fill ELSE Old
  /\ dstp <= dst + size
  /\ pc = "returned" => dstp = dst + size

(* A word is only stored through an aligned pointer: a call of 8 bytes or  *)
(* more does not run out of bytes before it is aligned.                    *)
WordsAligned == pc \in {"blocks", "words"} => dstp % OPSIZ = 0
=============================================================================
