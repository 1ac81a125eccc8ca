----------------------------- MODULE Interrupt ------------------------------
(***************************************************************************)
(* assets/core/interrupt.act: the interrupt controller.  One arbitrated    *)
(* selection between the relayed reset, a CPU register access and every    *)
(* enabled event line; after accepting an event the process leaves the     *)
(* selection and is blocked in event_pc!vectors[i] until the CPU idles.    *)
(***************************************************************************)
EXTENDS InterruptConstants

VARIABLES vectors,      \* the vector table
          enable_mask,  \* bit i enables line i
          holding       \* the line whose vector is being sent, or NoLine

intCtrl == <<vectors, enable_mask, holding>>

Vectors == 0 .. NVectors - 1

ADDR_INT_CTRL_ENABLE == 4 * NVectors

IntCtrlInit == /\ vectors = [i \in Vectors |-> 0]
               /\ enable_mask = 0
               /\ holding = NoLine

Enabled(i) == (enable_mask \div 2^i) % 2 = 1

Selecting == holding = NoLine

(***************************************************************************)
(* The relayed reset clears the table and the mask.                        *)
(***************************************************************************)
\* Faulty variants precede the definition they vary; only the mutation
\* runs use them.  Here: the reset is taken while an event is held.
ResetIntCtrlAnytime == /\ vectors' = [i \in Vectors |-> 0]
                       /\ enable_mask' = 0
                       /\ UNCHANGED holding

\* Faulty: the mask is not cleared.
ResetIntCtrlKeepsMask == /\ Selecting
                         /\ vectors' = [i \in Vectors |-> 0]
                         /\ UNCHANGED <<enable_mask, holding>>

ResetIntCtrl == /\ Selecting
                /\ vectors' = [i \in Vectors |-> 0]
                /\ enable_mask' = 0
                /\ UNCHANGED holding

(***************************************************************************)
(* vidx: the word offset, truncated to the width of the table index, so    *)
(* the offsets past the enable register alias the vectors again.           *)
(***************************************************************************)
\* Faulty: shifts by three.
VectorIndexShifted(offset) == (offset \div 8) % NVectors

VectorIndex(offset) == (offset \div 4) % NVectors

\* Faulty: adds to the mask instead of replacing it.
WriteEnableAdding(w) == /\ Selecting
                        /\ enable_mask' = enable_mask + w
                        /\ UNCHANGED <<vectors, holding>>

WriteEnable(w) == /\ Selecting
                  /\ enable_mask' = w
                  /\ UNCHANGED <<vectors, holding>>

WriteVector(offset, w) == /\ Selecting
                          /\ vectors' = [vectors EXCEPT ![VectorIndex(offset)] = w]
                          /\ UNCHANGED <<enable_mask, holding>>

(***************************************************************************)
(* A CPU store to, and what a CPU load gets from, the byte offset.         *)
(***************************************************************************)
WriteRegister(offset, w) == IF offset = ADDR_INT_CTRL_ENABLE
                            THEN WriteEnable(w)
                            ELSE WriteVector(offset, w)

Register(offset) == IF offset = ADDR_INT_CTRL_ENABLE
                    THEN enable_mask
                    ELSE vectors[VectorIndex(offset)]

(***************************************************************************)
(* event_id[i]? completes; only an enabled line is received on.            *)
(***************************************************************************)
Accept(i) == /\ Selecting
             /\ Enabled(i)
             /\ holding' = i
             /\ UNCHANGED <<vectors, enable_mask>>

(***************************************************************************)
(* event_pc! completes: the CPU continues at vectors[holding].             *)
(***************************************************************************)
Target == vectors[holding]

Deliver == /\ ~Selecting
           /\ holding' = NoLine
           /\ UNCHANGED <<vectors, enable_mask>>

-----------------------------------------------------------------------------
(***************************************************************************)
(* The controller on its own: software writes any register of the          *)
(* documented map (globals.act:37-39) at any time, lines fire and resets *)
(* are relayed at any time.                                                *)
(***************************************************************************)
Offsets == {4 * n : n \in 0 .. NVectors}

IntCtrlNext == \/ ResetIntCtrl \/ Deliver
               \/ \E offset \in Offsets, w \in Addresses : WriteRegister(offset, w)
               \/ \E i \in Lines : Accept(i)

IntCtrlSpec == IntCtrlInit /\ [][IntCtrlNext]_intCtrl

-----------------------------------------------------------------------------
(***************************************************************************)
(* Type invariant.                                                         *)
(***************************************************************************)
IntCtrlTypeOK == /\ vectors \in [Vectors -> Addresses]
                 /\ enable_mask \in Addresses
                 /\ holding \in Lines \cup {NoLine}

(***************************************************************************)
(* The event being delivered is enabled at the moment of delivery too: no  *)
(* mask write and no reset gets between the acceptance of an event and the *)
(* rendezvous on event_pc, however long the CPU takes to idle.             *)
(***************************************************************************)
HeldIsEnabled == holding # NoLine => Enabled(holding)

(***************************************************************************)
(* The vector sent is the one that was installed when the event was        *)
(* accepted: while an event is held its vector does not change.            *)
(***************************************************************************)
TargetFrozen == [][holding # NoLine => vectors' = vectors]_intCtrl

(***************************************************************************)
(* The register map of globals.act:37-39: a store is read back from the  *)
(* offset it was made to, and from no other one.                           *)
(***************************************************************************)
RegistersIndependent ==
    [][\A offset \in Offsets, w \in Addresses :
         WriteRegister(offset, w) =>
           \A other \in Offsets :
             Register(other)' = IF other = offset THEN w ELSE Register(other)]_intCtrl
=============================================================================
