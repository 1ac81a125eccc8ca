------------------------------- MODULE FifoIn -------------------------------
(***************************************************************************)
(* assets/peripherals/fifo_in.act: the memory-mapped input FIFO with a     *)
(* watermark interrupt.  The CHP process is one loop around an arbitrated  *)
(* selection; it leaves the selection only while it is blocked sending on  *)
(* event_out, so its control state is "select", "fire" or, after the       *)
(* assertion of line 62, "failed".                                         *)
(*                                                                         *)
(* Each action is one alternative of the selection, together with the      *)
(* rendezvous that completes it: the partner of a read, of a trigger write *)
(* or of a push is already waiting when the alternative is selected.       *)
(***************************************************************************)
EXTENDS FifoConstants, Sequences

VARIABLES buf, head, tail, count,   \* the circular buffer
          trigger_level, configured,
          armed,                    \* the next fill to the level fires
          reads_since_fire,         \* CPU reads since the last fire
          st                        \* "select", "fire" or "failed"

ring == <<buf, head, tail, count>>
vars == <<ring, trigger_level, configured, armed, reads_since_fire, st>>

Index == 0 .. DEPTH - 1

(***************************************************************************)
(* Power-on: the parallel assignments before the loop.                     *)
(***************************************************************************)
Init == /\ buf = [i \in Index |-> NoData]
        /\ head = 0
        /\ tail = 0
        /\ count = 0
        /\ trigger_level = DEPTH
        /\ configured = FALSE
        /\ armed = TRUE
        /\ reads_since_fire = 0
        /\ st = "select"

\* Faulty variants, written as a slip in the CHP would be, precede the
\* definition they vary; only the mutation runs use them.
WrapEarly(i) == IF i + 1 = DEPTH - 1 THEN 0 ELSE i + 1

Wrap(i) == IF i + 1 = DEPTH THEN 0 ELSE i + 1

(***************************************************************************)
(* Both the read and the push end by firing when the FIFO is armed and at  *)
(* or above its level: the process then blocks in event_out!true.          *)
(***************************************************************************)
\* Faulty: the level must be hit exactly (fifo_in.act:44-46).
NextStateExact(arm, n) == IF arm /\ n = trigger_level THEN "fire" ELSE "select"

\* Faulty: fires one word early.
NextStateEarly(arm, n) == IF arm /\ n + 1 >= trigger_level THEN "fire" ELSE "select"

NextState(arm, n) == IF arm /\ n >= trigger_level THEN "fire" ELSE "select"

(***************************************************************************)
(* A CPU load pops the oldest word (the value is buf[head], see Front).    *)
(* The read that completes a batch re-arms the interrupt.  A load from an  *)
(* empty FIFO trips the assertion and ends the process.                    *)
(***************************************************************************)
Front == buf[head]

\* Faulty: one read too many.
RearmedLate(reads) == armed \/ reads > trigger_level

Rearmed(reads) == armed \/ reads >= trigger_level

Read == /\ st = "select"
        /\ IF count = 0
           THEN st' = "failed" /\ UNCHANGED <<head, count, reads_since_fire, armed>>
           ELSE /\ head' = Wrap(head)
                /\ count' = count - 1
                /\ reads_since_fire' = IF armed THEN reads_since_fire
                                                ELSE reads_since_fire + 1
                /\ armed' = Rearmed(reads_since_fire')
                /\ st' = NextState(armed', count')
        /\ UNCHANGED <<buf, tail, trigger_level, configured>>

(***************************************************************************)
(* A CPU store of any size sets the trigger level; firing is not           *)
(* re-evaluated.                                                           *)
(***************************************************************************)
SetTrigger(level) == /\ st = "select"
                     /\ trigger_level' = level
                     /\ configured' = TRUE
                     /\ UNCHANGED <<ring, armed, reads_since_fire, st>>

\* Faulty: accepts a word when full.
PushUnguarded(d) == /\ st = "select"
                    /\ configured
                    /\ buf' = [buf EXCEPT ![tail] = d]
                    /\ tail' = Wrap(tail)
                    /\ count' = count + 1
                    /\ st' = NextState(armed, count')
                    /\ UNCHANGED <<head, trigger_level, configured, armed,
                                   reads_since_fire>>

\* Faulty: overwrites the oldest word when full.
PushOverwriting(d) == /\ st = "select"
                      /\ configured
                      /\ buf' = [buf EXCEPT ![tail] = d]
                      /\ tail' = Wrap(tail)
                      /\ count' = IF count < DEPTH THEN count + 1 ELSE count
                      /\ st' = NextState(armed, count')
                      /\ UNCHANGED <<head, trigger_level, configured, armed,
                                     reads_since_fire>>

Push(d) == /\ st = "select"
           /\ configured
           /\ count < DEPTH
           /\ buf' = [buf EXCEPT ![tail] = d]
           /\ tail' = Wrap(tail)
           /\ count' = count + 1
           /\ st' = NextState(armed, count')
           /\ UNCHANGED <<head, trigger_level, configured, armed,
                          reads_since_fire>>

(***************************************************************************)
(* The rendezvous on event_out completes: one edge per batch.              *)
(***************************************************************************)
\* Faulty: the level stays an interrupt source after its edge.
FireArmed == /\ st = "fire"
             /\ st' = "select"
             /\ reads_since_fire' = 0
             /\ UNCHANGED <<ring, trigger_level, configured, armed>>

Fire == /\ st = "fire"
        /\ st' = "select"
        /\ armed' = FALSE
        /\ reads_since_fire' = 0
        /\ UNCHANGED <<ring, trigger_level, configured>>

-----------------------------------------------------------------------------
(***************************************************************************)
(* The FIFO on its own, with the environment the header of fifo_in.act     *)
(* asks for: the CPU loads only what was pushed.  In Spec software may     *)
(* write any level at any time; in FixedSpec every write after the first   *)
(* repeats the level, which is what each firmware image does across        *)
(* reboots.                                                                *)
(***************************************************************************)
CpuLoad == count > 0 /\ Read

Next == \/ CpuLoad
        \/ \E level \in Levels : SetTrigger(level)
        \/ \E d \in Data : Push(d)
        \/ Fire

Spec == Init /\ [][Next]_vars

Repeat(level) == /\ configured => level = trigger_level
                 /\ SetTrigger(level)

FixedNext == \/ CpuLoad
             \/ \E level \in Levels : Repeat(level)
             \/ \E d \in Data : Push(d)
             \/ Fire

FixedSpec == Init /\ [][FixedNext]_vars

-----------------------------------------------------------------------------
States == {"select", "fire", "failed"}

(***************************************************************************)
(* Type invariant: the registers keep the widths the CHP declares; indices *)
(* stay inside buf and count inside 0..DEPTH.                              *)
(***************************************************************************)
RingType == /\ buf \in [Index -> Data \cup {NoData}]
            /\ head \in Index
            /\ tail \in Index
            /\ count \in 0 .. DEPTH

LevelType == /\ trigger_level \in Levels \cup {DEPTH}
             /\ reads_since_fire \in Nat

ControlType == /\ configured \in BOOLEAN
               /\ armed \in BOOLEAN
               /\ st \in States

TypeOK == RingType /\ LevelType /\ ControlType

(***************************************************************************)
(* head, tail and count are updated separately; they always agree, and     *)
(* every occupied slot holds a pushed word, so a load never returns an     *)
(* uninitialised register.                                                 *)
(***************************************************************************)
Offset(i) == IF head + i < DEPTH THEN head + i ELSE head + i - DEPTH

RingConsistent ==
    /\ tail = IF head + count < DEPTH THEN head + count
                                      ELSE head + count - DEPTH
    /\ \A i \in Index : i < count => buf[Offset(i)] \in Data

Contents == [i \in 1 .. count |-> buf[Offset(i - 1)]]

Queue == INSTANCE BoundedQueue WITH queue <- Contents

(***************************************************************************)
(* fifo_in.act refines the bounded queue: words leave in push order, none  *)
(* is lost, duplicated or overwritten when the indices wrap.               *)
(***************************************************************************)
RefinesQueue == Queue!Spec

(***************************************************************************)
(* The watermark (FixedSpec): whenever the process waits in its selection, *)
(* an armed FIFO is below its level, so no full batch is stranded without  *)
(* an edge, and an unarmed one still owes reads before it can fire again,  *)
(* so a continuous producer gets one edge per batch.  Only an armed FIFO   *)
(* with a full batch is ever blocked on event_out.                         *)
(***************************************************************************)
WatermarkKept ==
    /\ st = "select" /\ trigger_level > 0 =>
         IF armed THEN count < trigger_level
                  ELSE reads_since_fire < trigger_level
    /\ st = "fire" => armed /\ count >= trigger_level

(***************************************************************************)
(* The interrupt handler loads trigger_level words per edge without        *)
(* looking at the count (FixedSpec): what it has not loaded yet is always  *)
(* there, so it cannot run into the empty-FIFO assertion.                  *)
(***************************************************************************)
BatchCovered == ~armed => count + reads_since_fire >= trigger_level
=============================================================================
