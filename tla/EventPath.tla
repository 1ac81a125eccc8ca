----------------------------- MODULE EventPath ------------------------------
(***************************************************************************)
(* What a chip running a batch program promises at its two ports: it is a  *)
(* queue of results.  Pushing an event appends its image, unless the       *)
(* program filters it out; popping takes the oldest result.  A warm reset  *)
(* may lose one contiguous run of at most BATCH results, the batch the     *)
(* handler had in hand, and changes nothing else.                          *)
(***************************************************************************)
EXTENDS Naturals, Sequences

CONSTANTS Data, Image, Dropped, BATCH

VARIABLE path       \* the results still inside, oldest first

Init == path = << >>

Push(d) == path' = IF Image[d] = Dropped THEN path
                                         ELSE Append(path, Image[d])

Pop == path # << >> /\ path' = Tail(path)

Next == Pop \/ \E d \in Data : Push(d)

Spec == Init /\ [][Next]_path

Lose == \E first \in 1 .. Len(path) :
          \E last \in first .. Len(path) :
            /\ last - first < BATCH
            /\ path' = SubSeq(path, 1, first - 1)
                         \o SubSeq(path, last + 1, Len(path))
=============================================================================
