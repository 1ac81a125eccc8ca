---------------------------- MODULE BusConstants ----------------------------
(***************************************************************************)
(* The address map of the load/store path: which bases have a port.        *)
(***************************************************************************)
EXTENDS Naturals

CONSTANTS Internal,          \* bases with a port of the MMU
          ADDR_EXT_MIN,      \* first base sent out of the core
          External,          \* bases with a port of the demux
          ADDR_NO_CATCHALL,  \* beyond every base
          Words, NoRequest

Bases  == 0 .. ADDR_NO_CATCHALL - 1
Mapped == Internal \cup External

ASSUME BasesAssumption == /\ ADDR_NO_CATCHALL \in Nat /\ ADDR_EXT_MIN \in Bases
                          /\ Internal \subseteq 0 .. ADDR_EXT_MIN - 1
                          /\ External \subseteq ADDR_EXT_MIN .. ADDR_NO_CATCHALL - 1
ASSUME WordsAssumption == 0 \in Words /\ Words \subseteq Nat
=============================================================================
