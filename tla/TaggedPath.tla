----------------------------- MODULE TaggedPath -----------------------------
(***************************************************************************)
(* What a chip running software/multi_event promises: an event on line n   *)
(* takes the oldest word not yet claimed by an event and turns it into     *)
(* that word + (n + 1), the result of line n's own handler; results leave  *)
(* in the order in which the events were accepted.                         *)
(***************************************************************************)
EXTENDS Naturals, Sequences

CONSTANTS Data, Lines

VARIABLES words,     \* pushed and not yet claimed
          results    \* owed to the reader, oldest first

Init == words = << >> /\ results = << >>

Push(d) == words' = Append(words, d) /\ UNCHANGED results

Event(n) == /\ words # << >>
            /\ words' = Tail(words)
            /\ results' = Append(results, Head(words) + (n + 1))

Pop == /\ results # << >>
       /\ results' = Tail(results)
       /\ UNCHANGED words

Next == Pop \/ (\E d \in Data : Push(d)) \/ \E n \in Lines : Event(n)

Spec == Init /\ [][Next]_<<words, results>>
=============================================================================
