------------------------- MODULE InterruptConstants -------------------------
(***************************************************************************)
(* The parameters of the interrupt controller.                             *)
(***************************************************************************)
EXTENDS Naturals

CONSTANTS Lines,      \* 0 .. N_EVENTS-1, the wired event lines
          NoLine,     \* not blocked in event_pc
          Addresses,  \* what software may write into a vector
          NVectors    \* registers in the vector table, 16 in the code

ASSUME LinesAssumption   == NVectors \in Nat \ {0} /\ Lines \subseteq 0 .. NVectors - 1
ASSUME NoLineAssumption  == NoLine \notin Lines
ASSUME AddressAssumption == 0 \in Addresses
=============================================================================
