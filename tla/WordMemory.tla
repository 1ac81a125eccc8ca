----------------------------- MODULE WordMemory -----------------------------
(***************************************************************************)
(* What the CPU may assume of everything behind its MMU: a memory of words *)
(* that does its stores and loads one at a time, in program order, and     *)
(* answers every load.  A load from an unmapped base gets any word         *)
(* (globals.act:23-27: undefined, but does not hang) and a store to one    *)
(* has no effect.                                                          *)
(***************************************************************************)
EXTENDS Naturals

CONSTANTS Bases, Mapped, Words

VARIABLES mem,     \* the words of the mapped bases
          asked,   \* the base being loaded from, or -1
          answer   \* the word the load gets, or -1 while there is none

None == 0 - 1

Init == /\ mem \in [Mapped -> Words]
        /\ asked = None
        /\ answer = None

Store(b, w) == /\ asked = None
               /\ mem' = IF b \in Mapped THEN [mem EXCEPT ![b] = w] ELSE mem
               /\ UNCHANGED <<asked, answer>>

Load(b) == /\ asked = None
           /\ asked' = b
           /\ UNCHANGED <<mem, answer>>

Answer == /\ asked # None
          /\ answer = None
          /\ answer' \in IF asked \in Mapped THEN {mem[asked]} ELSE Words
          /\ UNCHANGED <<mem, asked>>

Done == /\ answer # None
        /\ asked' = None
        /\ answer' = None
        /\ UNCHANGED mem

Next == \/ \E b \in Bases : Load(b) \/ \E w \in Words : Store(b, w)
        \/ Answer \/ Done

Spec == Init /\ [][Next]_<<mem, asked, answer>>
=============================================================================
