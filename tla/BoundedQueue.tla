---------------------------- MODULE BoundedQueue ----------------------------
(***************************************************************************)
(* What both FIFO peripherals promise: a bounded first-in first-out queue. *)
(* assets/peripherals/fifo_in.act and fifo_out.act implement it with a     *)
(* circular buffer; FifoIn and FifoOut are shown to refine this module.    *)
(***************************************************************************)
EXTENDS Naturals, Sequences

CONSTANTS Data,    \* the words the queue carries
          DEPTH    \* its capacity

VARIABLE queue     \* the stored words, oldest first

Init == queue = << >>

Put(d) == /\ Len(queue) < DEPTH
          /\ queue' = Append(queue, d)

Get == /\ queue # << >>
       /\ queue' = Tail(queue)

Next == Get \/ \E d \in Data : Put(d)

Spec == Init /\ [][Next]_queue
=============================================================================
