---------------------------- MODULE LockFreeStack ----------------------------
(***************************************************************************)
(* What the two lock-free lists of the repository promise: a stack on      *)
(* which any thread pushes an element it holds, and from which a thread    *)
(* pops one element or takes all, each in one step.  ScallocFastbin and    *)
(* EHashStack are the compare-and-swap loops that implement it, and        *)
(* ScallocArena uses a fastbin as one.                                     *)
(***************************************************************************)
EXTENDS Sequences, SequencesExt

CONSTANTS Threads, Elements

VARIABLES
  stack,  \* the elements on the stack, head first
  held    \* thread -> the elements that it holds

vars == <<stack, held>>

Init ==
  /\ stack = <<>>
  /\ held \in [Threads -> SUBSET Elements]
  /\ UNION {held[t] : t \in Threads} = Elements
  /\ \A s, t \in Threads : s # t => held[s] \cap held[t] = {}

Push(t, e) ==
  /\ e \in held[t]
  /\ stack' = <<e>> \o stack
  /\ held' = [held EXCEPT ![t] = @ \ {e}]

Pop(t) ==
  /\ stack # <<>>
  /\ stack' = Tail(stack)
  /\ held' = [held EXCEPT ![t] = @ \cup {Head(stack)}]

TakeAll(t) ==
  /\ stack' = <<>>
  /\ held' = [held EXCEPT ![t] = @ \cup ToSet(stack)]

(* The program passes an element from one thread to another.               *)
Pass(s, t, e) ==
  /\ e \in held[s]
  /\ UNCHANGED stack
  /\ held' = [held EXCEPT ![s] = @ \ {e}, ![t] = @ \cup {e}]

Next ==
  \E t \in Threads :
    \/ Pop(t) \/ TakeAll(t)
    \/ \E e \in Elements : Push(t, e) \/ \E s \in Threads \ {t} : Pass(t, s, e)

Spec == Init /\ [][Next]_vars
=============================================================================
