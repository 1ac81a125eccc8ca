---------------------------- MODULE FifoConstants ---------------------------
(***************************************************************************)
(* The parameters of the two memory-mapped FIFOs.                          *)
(***************************************************************************)
EXTENDS Naturals

CONSTANTS DEPTH,     \* capacity, the DEPTH template parameter
          Data,      \* the WIDTH-bit words that are pushed
          NoData,    \* content of a buffer slot nothing was pushed into
          Levels     \* trigger levels software may write (input FIFO only)

ASSUME DepthAssumption  == DEPTH \in Nat \ {0}
ASSUME LevelsAssumption == Levels \subseteq Nat
ASSUME NoDataAssumption == NoData \notin Data
=============================================================================
