------------------------------ MODULE FifoOut -------------------------------
(***************************************************************************)
(* assets/peripherals/fifo_out.act: the memory-mapped output FIFO.  One    *)
(* arbitrated selection between a CPU access, offered only while there is  *)
(* room, and a pop, offered only while there is a word.                    *)
(***************************************************************************)
EXTENDS FifoConstants, Sequences

VARIABLES buf, head, tail, count,
          st          \* "select", or "failed" after the assertion of line 41

fifoOut == <<buf, head, tail, count, st>>

Index == 0 .. DEPTH - 1

FifoOutInit == /\ buf = [i \in Index |-> NoData]
               /\ head = 0
               /\ tail = 0
               /\ count = 0
               /\ st = "select"

\* Faulty variants precede the definition they vary; only the mutation
\* runs use them.
WrapEarly(i) == IF i + 1 = DEPTH - 1 THEN 0 ELSE i + 1

Wrap(i) == IF i + 1 = DEPTH THEN 0 ELSE i + 1

\* Faulty: one word too many.
RoomOffByOne == count <= DEPTH

Room == count < DEPTH

(***************************************************************************)
(* A CPU access, blocked at the sender while the FIFO is full: a store     *)
(* pushes, a load is rejected by the assertion and never answered.         *)
(***************************************************************************)
CpuAccess(op, d) == /\ st = "select"
                    /\ Room
                    /\ IF op = "W"
                       THEN /\ buf' = [buf EXCEPT ![tail] = d]
                            /\ tail' = Wrap(tail)
                            /\ count' = count + 1
                            /\ UNCHANGED st
                       ELSE st' = "failed" /\ UNCHANGED <<buf, tail, count>>
                    /\ UNCHANGED head

Front == buf[head]

\* Faulty: the word stays at the front.
PopKeeping == /\ st = "select"
              /\ count > 0
              /\ count' = count - 1
              /\ UNCHANGED <<buf, head, tail, st>>

Pop == /\ st = "select"
       /\ count > 0
       /\ head' = Wrap(head)
       /\ count' = count - 1
       /\ UNCHANGED <<buf, tail, st>>

(***************************************************************************)
(* The FIFO on its own; as its header says, the CPU only stores.           *)
(***************************************************************************)
FifoOutNext == Pop \/ \E d \in Data : CpuAccess("W", d)

FifoOutSpec == FifoOutInit /\ [][FifoOutNext]_fifoOut

-----------------------------------------------------------------------------
(***************************************************************************)
(* Type invariant: indices stay inside buf, count inside 0..DEPTH.         *)
(***************************************************************************)
FifoOutTypeOK == /\ buf \in [Index -> Data \cup {NoData}]
                 /\ head \in Index
                 /\ tail \in Index
                 /\ count \in 0 .. DEPTH
                 /\ st \in {"select", "failed"}

Offset(i) == IF head + i < DEPTH THEN head + i ELSE head + i - DEPTH

(***************************************************************************)
(* head, tail and count, updated by different alternatives, always agree,  *)
(* and every occupied slot holds a written word.                           *)
(***************************************************************************)
RingConsistent ==
    /\ tail = IF head + count < DEPTH THEN head + count
                                      ELSE head + count - DEPTH
    /\ \A i \in Index : i < count => buf[Offset(i)] \in Data

Contents == [i \in 1 .. count |-> buf[Offset(i - 1)]]

Queue == INSTANCE BoundedQueue WITH queue <- Contents

(***************************************************************************)
(* fifo_out.act refines the bounded queue: the words popped are the words  *)
(* written, in order, with none overwritten while unread.                  *)
(***************************************************************************)
RefinesQueue == Queue!Spec
=============================================================================
