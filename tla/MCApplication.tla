--------------------------- MODULE MCApplication ----------------------------
(***************************************************************************)
(* Small instances of Application: two events that become results and one  *)
(* that the filter drops.                                                  *)
(***************************************************************************)
EXTENDS Application

MCData == 1 .. 3

MCTwo == {1, 2}      \* two results, none dropped

MCResults == {11, 12}

MCImage == [d \in Data |-> IF d = 3 THEN Dropped ELSE 10 + d]

MCAddressReset == 99
=============================================================================
