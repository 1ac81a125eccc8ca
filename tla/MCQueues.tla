------------------------------ MODULE MCQueues ------------------------------
(***************************************************************************)
(* The two places where events queue up and something has to give: the     *)
(* input FIFO of the chip, which makes the camera wait, and a stream of    *)
(* the dashboard, which drops its oldest packet.  A behaviour is one of    *)
(* either; the other stays as it is at the start.                          *)
(***************************************************************************)
EXTENDS FifoIn, Stream

VARIABLE which

queues == <<which, vars, streamVars>>

QueuesInit == /\ which \in {"fifo_in", "stream"}
              /\ Init /\ StreamInit
              /\ which = "fifo_in" => stream = "raw"

Fifo_(A)   == which = "fifo_in" /\ A /\ UNCHANGED <<which, streamVars>>

Stream_(A) == which = "stream" /\ A /\ UNCHANGED <<which, vars>>

QueuesNext == Fifo_(FixedNext) \/ Stream_(StreamNext)

QueuesSpec == /\ QueuesInit /\ [][QueuesNext]_queues
              /\ WF_queues(Stream_(FillBatch)) /\ WF_queues(Stream_(Sent))
              /\ WF_queues(Stream_(SendTimeout))

(***************************************************************************)
(* Types, and what the proofs about the FIFO start from: the indices agree *)
(* with the count, and after an edge the words of its batch are there.     *)
(***************************************************************************)
QueuesInv == /\ TypeOK /\ RingConsistent /\ BatchCovered
             /\ StreamTypeOK /\ StreamInv /\ Numbered
=============================================================================
