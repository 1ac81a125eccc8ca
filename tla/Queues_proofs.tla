---------------------------- MODULE Queues_proofs ---------------------------
(***************************************************************************)
(* Proofs about the two queues.  The input FIFO of the chip, for every     *)
(* capacity, word set and set of trigger levels.  And a stream of the      *)
(* dashboard (dashboard.py:64-104, 294-335): for every number of clients   *)
(* and packets, every loss, duplication and reordering on the way and      *)
(* every interleaving of datagrams, sends and subscriptions, the words     *)
(* that are in the queue and those that were sent are all there, once and  *)
(* in order, each client has a part of what was sent without a gap, and    *)
(* the counters are right.                                                 *)
(***************************************************************************)
EXTENDS MCQueues, SequenceFacts

-----------------------------------------------------------------------------
(***************************************************************************)
(* The input FIFO.  Boolean registers and arithmetic ones are treated in   *)
(* separate leaves.                                                        *)
(***************************************************************************)

(***************************************************************************)
(* The ring registers' types are kept by the two actions that move words.  *)
(***************************************************************************)
LEMMA RingTypeKept ==
    ASSUME RingType, [Next]_vars
    PROVE  RingType'
<1> USE DepthAssumption DEF RingType, Index
<1>1. CASE CpuLoad
  BY <1>1 DEF CpuLoad, Read, Wrap
<1>2. ASSUME NEW d \in Data, Push(d)
      PROVE  RingType'
  BY <1>2 DEF Push, Wrap
<1>3. CASE UNCHANGED ring
  BY <1>3 DEF ring
<1>4. QED
  BY <1>1, <1>2, <1>3 DEF Next, SetTrigger, Fire, vars

\* Every step keeps the level and the read counter typed.
LEMMA LevelTypeKept ==
    ASSUME RingType, LevelType, [Next]_vars
    PROVE  LevelType'
<1> USE DepthAssumption, LevelsAssumption DEF LevelType
<1>1. CASE CpuLoad
  BY <1>1 DEF CpuLoad, Read
<1>2. ASSUME NEW level \in Levels, SetTrigger(level)
      PROVE  LevelType'
  BY <1>2 DEF SetTrigger
<1>3. ASSUME NEW d \in Data, Push(d)
      PROVE  LevelType'
  BY <1>3 DEF Push
<1>4. CASE Fire
  BY <1>4 DEF Fire
<1>5. CASE UNCHANGED vars
  BY <1>5 DEF vars
<1>6. QED
  BY <1>1, <1>2, <1>3, <1>4, <1>5 DEF Next

\* Every step keeps the flags and the control state typed.
LEMMA ControlTypeKept ==
    ASSUME ControlType, [Next]_vars
    PROVE  ControlType'
<1> USE DEF ControlType, States
<1>1. CASE CpuLoad
  BY <1>1 DEF CpuLoad, Read, NextState, Rearmed
<1>2. ASSUME NEW level \in Levels, SetTrigger(level)
      PROVE  ControlType'
  BY <1>2 DEF SetTrigger
<1>3. ASSUME NEW d \in Data, Push(d)
      PROVE  ControlType'
  BY <1>3 DEF Push, NextState
<1>4. CASE Fire
  BY <1>4 DEF Fire
<1>5. CASE UNCHANGED vars
  BY <1>5 DEF vars
<1>6. QED
  BY <1>1, <1>2, <1>3, <1>4, <1>5 DEF Next

\* The power-on state is typed.
LEMMA InitTyped == Init => TypeOK
<1> SUFFICES ASSUME Init PROVE TypeOK
  OBVIOUS
<1>1. RingType
  BY DepthAssumption DEF Init, RingType, Index
<1>2. LevelType
  BY DEF Init, LevelType
<1>3. ControlType
  BY DEF Init, ControlType, States
<1>4. QED
  BY <1>1, <1>2, <1>3 DEF TypeOK

\* Every step keeps TypeOK.
LEMMA StepTyped == TypeOK /\ [Next]_vars => TypeOK'
BY RingTypeKept, LevelTypeKept, ControlTypeKept DEF TypeOK

(***************************************************************************)
(* Type correctness: indices and count stay in range across every          *)
(* interleaving of loads, pushes, trigger writes and edges.                *)
(***************************************************************************)
THEOREM TypeCorrect == Spec => []TypeOK
BY InitTyped, StepTyped, PTL DEF Spec

(***************************************************************************)
(* A load moves every remaining word one place towards the front.          *)
(***************************************************************************)
LEMMA LoadShifts ==
    ASSUME RingType, CpuLoad, NEW i \in Index, i < count'
    PROVE  /\ i + 1 \in Index
           /\ i + 1 < count
           /\ Offset(i)' = Offset(i + 1)
           /\ buf' = buf
BY DepthAssumption DEF RingType, Index, CpuLoad, Read, Wrap, Offset

(***************************************************************************)
(* A push writes the first free slot, which no stored word occupies.       *)
(***************************************************************************)
LEMMA PushExtends ==
    ASSUME RingType, RingConsistent, NEW d \in Data, Push(d),
           NEW i \in Index, i < count'
    PROVE  /\ Offset(i)' = Offset(i)
           /\ i < count => Offset(i) # tail /\ buf'[Offset(i)] = buf[Offset(i)]
           /\ i = count => Offset(i) = tail /\ buf'[Offset(i)] = d
<1> USE DepthAssumption DEF RingType, Index, Push, Offset
<1>1. tail = IF head + count < DEPTH THEN head + count ELSE head + count - DEPTH
  BY DEF RingConsistent
<1>2. Offset(i) \in Index /\ Offset(i)' = Offset(i)
  OBVIOUS
<1>3. i < count => Offset(i) # tail
  BY <1>1
<1>4. i = count => Offset(i) = tail
  BY <1>1
<1>5. QED
  BY <1>2, <1>3, <1>4

(***************************************************************************)
(* The indices and the count always agree, and every occupied slot holds a *)
(* pushed word, so no load returns an uninitialised register.              *)
(***************************************************************************)
THEOREM RingCorrect == Spec => []RingConsistent
<1> USE DepthAssumption
<1>1. Init => RingConsistent
  BY DEF Init, RingConsistent, Index
<1>2. TypeOK /\ RingConsistent /\ [Next]_vars => RingConsistent'
  <2> SUFFICES ASSUME RingType, RingConsistent, [Next]_vars
               PROVE  RingConsistent'
    BY DEF TypeOK
  <2>1. CASE CpuLoad
    <3>1. tail' = IF head' + count' < DEPTH THEN head' + count'
                                            ELSE head' + count' - DEPTH
      BY <2>1 DEF RingType, RingConsistent, Index, CpuLoad, Read, Wrap
    <3>2. ASSUME NEW i \in Index, i < count'
          PROVE  buf'[Offset(i)'] \in Data
      BY <2>1, <3>2, LoadShifts DEF RingConsistent
    <3>3. QED
      BY <3>1, <3>2 DEF RingConsistent, Index
  <2>2. ASSUME NEW d \in Data, Push(d)
        PROVE  RingConsistent'
    <3>1. tail' = IF head' + count' < DEPTH THEN head' + count'
                                            ELSE head' + count' - DEPTH
      BY <2>2 DEF RingType, RingConsistent, Index, Push, Wrap
    <3>2. ASSUME NEW i \in Index, i < count'
          PROVE  buf'[Offset(i)'] \in Data
      <4>1. i < count \/ i = count
        BY <2>2, <3>2 DEF Push, RingType, Index
      <4>2. QED
        BY <2>2, <3>2, <4>1, PushExtends DEF RingConsistent
    <3>3. QED
      BY <3>1, <3>2 DEF RingConsistent, Index
  <2>3. CASE UNCHANGED ring
    BY <2>3 DEF ring, RingConsistent, Index, Offset
  <2>4. QED
    BY <2>1, <2>2, <2>3 DEF Next, SetTrigger, Fire, vars
<1>3. QED
  BY <1>1, <1>2, TypeCorrect, PTL DEF Spec

-----------------------------------------------------------------------------
(***************************************************************************)
(* The circular buffer as the sequence it stores.                          *)
(***************************************************************************)
Stores == /\ Contents \in Seq(Data)
          /\ Len(Contents) = count
          /\ \A j \in 1 .. count : Contents[j] = buf[Offset(j - 1)]

\* The occupied slots, oldest first, form a sequence of pushed words.
LEMMA ContentsSeq == RingType /\ RingConsistent => Stores
<1> SUFFICES ASSUME RingType, RingConsistent PROVE Stores
  OBVIOUS
<1>1. count \in Nat
  BY DepthAssumption DEF RingType
<1>2. ASSUME NEW j \in 1 .. count
      PROVE  buf[Offset(j - 1)] \in Data
  BY DepthAssumption DEF RingType, RingConsistent, Index
<1>3. Contents \in [1 .. count -> Data]
  BY <1>2 DEF Contents
<1>4. Contents \in Seq(Data)
  BY <1>1, <1>3, SeqDef
<1>5. Len(Contents) = count
  BY <1>1, <1>3, <1>4, LenProperties
<1>6. QED
  BY <1>4, <1>5 DEF Stores, Contents

(***************************************************************************)
(* A push appends to it and a load takes its first element.                *)
(***************************************************************************)
LEMMA PushPuts ==
    ASSUME RingType, RingConsistent, RingType', RingConsistent',
           NEW d \in Data, Push(d)
    PROVE  Queue!Put(d)
<1>1. Stores /\ Stores'
  BY ContentsSeq, PTL
<1>2. count \in Nat /\ count < DEPTH /\ count' = count + 1
  BY DEF RingType, Push
<1>3. /\ Append(Contents, d) \in Seq(Data)
      /\ Len(Append(Contents, d)) = count'
  BY <1>1, <1>2 DEF Stores
<1>4. ASSUME NEW j \in 1 .. count'
      PROVE  Contents'[j] = Append(Contents, d)[j]
  <2>1. /\ j - 1 \in Index /\ j - 1 < count'
        /\ j - 1 < count \/ j - 1 = count
    BY <1>2, DepthAssumption DEF Index, RingType
  <2>2. CASE j - 1 < count
    <3>1. Offset(j - 1)' = Offset(j - 1) /\ buf'[Offset(j - 1)] = buf[Offset(j - 1)]
      BY <2>1, <2>2, PushExtends
    <3>2. j \in 1 .. count
      BY <1>2, <2>2
    <3>3. Contents'[j] = Contents[j]
      BY <1>1, <3>1, <3>2 DEF Stores
    <3>4. QED
      BY <1>1, <1>2, <3>2, <3>3 DEF Stores
  <2>3. CASE j - 1 = count
    <3>1. Contents'[j] = d
      BY <1>1, <1>2, <2>1, <2>3, PushExtends DEF Stores
    <3>2. QED
      BY <1>1, <1>2, <2>3, <3>1 DEF Stores
  <2>4. QED
    BY <2>1, <2>2, <2>3
<1>5. Contents' = Append(Contents, d)
  BY <1>1, <1>3, <1>4, SeqEqual DEF Stores
<1>6. QED
  BY <1>1, <1>2, <1>5 DEF Stores, Queue!Put

\* A load removes the head of that sequence.
LEMMA LoadGets ==
    ASSUME RingType, RingConsistent, RingType', RingConsistent', CpuLoad
    PROVE  Queue!Get
<1>1. Stores /\ Stores'
  BY ContentsSeq, PTL
<1>2. count \in Nat /\ count > 0 /\ count' = count - 1
  BY DEF RingType, CpuLoad, Read
<1>3. Contents # << >>
  BY <1>1, <1>2 DEF Stores
<1>4. /\ Tail(Contents) \in Seq(Data)
      /\ Len(Tail(Contents)) = count'
      /\ \A j \in 1 .. count' : Tail(Contents)[j] = Contents[j + 1]
  BY <1>1, <1>2, <1>3, HeadTailProperties DEF Stores
<1>5. ASSUME NEW j \in 1 .. count'
      PROVE  Contents'[j] = Tail(Contents)[j]
  <2>1. j - 1 \in Index /\ j - 1 < count' /\ (j - 1) + 1 = j
    BY <1>2, DepthAssumption DEF Index, RingType
  <2>2. Contents'[j] = buf[Offset(j)]
    BY <1>1, <2>1, LoadShifts DEF Stores
  <2>3. Contents[j + 1] = buf[Offset(j)]
    BY <1>1, <1>2 DEF Stores
  <2>4. QED
    BY <1>4, <2>2, <2>3
<1>6. Contents' = Tail(Contents)
  BY <1>1, <1>4, <1>5, SeqEqual DEF Stores
<1>7. QED
  BY <1>3, <1>6 DEF Queue!Get

(***************************************************************************)
(* fifo_in.act implements the bounded queue, whatever its capacity and     *)
(* however its trigger level is rewritten: no word is lost, duplicated,    *)
(* reordered or overwritten.                                               *)
(***************************************************************************)
THEOREM QueueRefined == Spec => RefinesQueue
<1>1. Init => Queue!Init
  <2> SUFFICES ASSUME Init PROVE Queue!Init
    OBVIOUS
  <2>1. RingType /\ RingConsistent /\ count = 0
    BY InitTyped, DepthAssumption DEF TypeOK, Init, RingConsistent, Index
  <2>2. Contents \in Seq(Data) /\ Len(Contents) = 0
    BY <2>1, ContentsSeq DEF Stores
  <2>3. QED
    BY <2>2, EmptySeq DEF Queue!Init
<1>2. /\ TypeOK /\ TypeOK' /\ RingConsistent /\ RingConsistent'
      /\ [Next]_vars
      => [Queue!Next]_Contents
  <2> SUFFICES ASSUME RingType, RingType', RingConsistent, RingConsistent',
                      [Next]_vars
               PROVE  [Queue!Next]_Contents
    BY DEF TypeOK
  <2>1. CASE UNCHANGED ring
    BY <2>1 DEF ring, Contents, Offset
  <2>2. QED
    BY <2>1, PushPuts, LoadGets DEF Next, SetTrigger, Fire, vars, Queue!Next
<1>3. QED
  BY <1>1, <1>2, TypeCorrect, RingCorrect, PTL
     DEF Spec, RefinesQueue, Queue!Spec

-----------------------------------------------------------------------------
(***************************************************************************)
(* The watermark, when every trigger write after the first repeats the     *)
(* level.  Until the first write the FIFO is empty and armed, which is     *)
(* what lets that write choose any level.                                  *)
(***************************************************************************)
Unset == ~configured => /\ count = 0
                        /\ armed
                        /\ st = "select"

Above == count >= trigger_level

Owes == reads_since_fire < trigger_level

Watermark == /\ st = "select" /\ armed /\ trigger_level > 0 => ~Above
             /\ st = "select" /\ ~armed /\ trigger_level > 0 => Owes
             /\ st = "fire" => armed /\ Above

FixedInv == TypeOK /\ Unset /\ Watermark /\ BatchCovered

\* A step under a fixed level is a step of the FIFO.
LEMMA FixedStepIsStep == [FixedNext]_vars => [Next]_vars
BY DEF FixedNext, Next, Repeat

\* The invariant of FixedSpec holds at power-on.
LEMMA FixedInit == Init => FixedInv
<1> SUFFICES ASSUME Init PROVE FixedInv
  OBVIOUS
<1>1. TypeOK
  BY InitTyped
<1>2. Unset
  BY DEF Init, Unset
<1>3. Watermark
  BY DepthAssumption DEF Init, Watermark, Above, Owes
<1>4. BatchCovered
  BY DEF Init, BatchCovered
<1>5. QED
  BY <1>1, <1>2, <1>3, <1>4 DEF FixedInv

\* A load keeps the watermark: the last read of a batch re-arms and re-checks.
LEMMA WatermarkByLoad ==
    ASSUME FixedInv, CpuLoad
    PROVE  Watermark' /\ BatchCovered'
<1> USE DepthAssumption, LevelsAssumption
        DEF FixedInv, TypeOK, RingType, LevelType, ControlType, States, Index
<1>1. CASE armed
  BY <1>1 DEF CpuLoad, Read, NextState, Rearmed, Watermark, Above, Owes, BatchCovered
<1>2. CASE ~armed
  <2>1. /\ count' = count - 1
        /\ reads_since_fire' = reads_since_fire + 1
        /\ trigger_level' = trigger_level
        /\ armed' <=> ~Owes'
        /\ st' = IF armed' /\ Above' THEN "fire" ELSE "select"
    <3>1. count # 0
      BY DEF CpuLoad
    <3>2. /\ count' = count - 1
          /\ reads_since_fire' = reads_since_fire + 1
          /\ trigger_level' = trigger_level
          /\ st' = NextState(armed', count')
      BY <1>2, <3>1, Zenon DEF CpuLoad, Read, Rearmed
    <3>3. armed' <=> reads_since_fire' >= trigger_level
      BY <1>2, <3>1, Zenon DEF CpuLoad, Read, Rearmed
    <3>4. reads_since_fire' >= trigger_level <=> ~Owes'
      BY <3>2 DEF Owes
    <3>5. st' = IF armed' /\ Above' THEN "fire" ELSE "select"
      BY <3>2, Zenon DEF NextState, Above
    <3>6. QED
      BY <3>2, <3>3, <3>4, <3>5, Zenon
  <2>2. Watermark'
    BY <2>1 DEF Watermark
  <2>3. BatchCovered'
    BY <1>2, <2>1 DEF BatchCovered
  <2>4. QED
    BY <2>2, <2>3
<1>3. QED
  BY <1>1, <1>2

\* Writing the trigger level again keeps the watermark.
LEMMA WatermarkBySetTrigger ==
    ASSUME FixedInv, NEW level \in Levels, Repeat(level)
    PROVE  Watermark' /\ BatchCovered'
<1> USE DepthAssumption, LevelsAssumption
        DEF FixedInv, TypeOK, RingType, LevelType, ControlType, States, Index
<1>1. CASE configured
  BY <1>1 DEF Repeat, SetTrigger, Watermark, Above, Owes, BatchCovered, ring
<1>2. CASE ~configured
  BY <1>2 DEF Repeat, SetTrigger, Watermark, Above, Owes, BatchCovered, ring, Unset
<1>3. QED
  BY <1>1, <1>2

\* A push keeps the watermark: the push that reaches the level fires.
LEMMA WatermarkByPush ==
    ASSUME FixedInv, NEW d \in Data, Push(d)
    PROVE  Watermark' /\ BatchCovered'
<1> USE DepthAssumption, LevelsAssumption
        DEF FixedInv, TypeOK, RingType, LevelType, ControlType, States, Index
<1>1. CASE armed
  BY <1>1 DEF Push, NextState, Rearmed, Watermark, Above, Owes, BatchCovered
<1>2. CASE ~armed
  BY <1>2 DEF Push, NextState, Rearmed, Watermark, Above, Owes, BatchCovered
<1>3. QED
  BY <1>1, <1>2

\* The edge keeps the watermark.
LEMMA WatermarkByFire ==
    ASSUME FixedInv, Fire
    PROVE  Watermark' /\ BatchCovered'
BY DepthAssumption, LevelsAssumption
   DEF FixedInv, TypeOK, RingType, LevelType, ControlType, States, Index,
       Fire, Watermark, Above, Owes, BatchCovered, ring

\* Before the first write of the level nothing has been pushed.
LEMMA UnsetKept ==
    ASSUME Unset, [FixedNext]_vars
    PROVE  Unset'
<1> USE DEF Unset
<1>1. CASE CpuLoad
  BY <1>1 DEF CpuLoad, Read
<1>2. ASSUME NEW level \in Levels, Repeat(level)
      PROVE  Unset'
  BY <1>2 DEF Repeat, SetTrigger
<1>3. ASSUME NEW d \in Data, Push(d)
      PROVE  Unset'
  BY <1>3 DEF Push
<1>4. CASE Fire
  BY <1>4 DEF Fire
<1>5. CASE UNCHANGED vars
  BY <1>5 DEF vars, ring
<1>6. QED
  BY <1>1, <1>2, <1>3, <1>4, <1>5 DEF FixedNext

(***************************************************************************)
(* FixedInv is inductive.                                                  *)
(***************************************************************************)
LEMMA FixedInvKept == FixedInv /\ [FixedNext]_vars => FixedInv'
<1> SUFFICES ASSUME FixedInv, [FixedNext]_vars
             PROVE  FixedInv'
  OBVIOUS
<1>1. TypeOK' /\ Unset'
  BY StepTyped, FixedStepIsStep, UnsetKept DEF FixedInv
<1>2. ASSUME UNCHANGED vars
      PROVE  Watermark' /\ BatchCovered'
  BY <1>2 DEF vars, ring, FixedInv, Watermark, Above, Owes, BatchCovered
<1>3. Watermark' /\ BatchCovered'
  BY <1>2, WatermarkByLoad, WatermarkBySetTrigger, WatermarkByPush,
     WatermarkByFire DEF FixedNext, FixedInv
<1>4. QED
  BY <1>1, <1>3 DEF FixedInv

(***************************************************************************)
(* One edge per batch and no stranded batch, for every capacity and level: *)
(* in its selection the FIFO is below its level when armed and still owed  *)
(* reads when not.                                                         *)
(***************************************************************************)
THEOREM WatermarkCorrect == FixedSpec => []WatermarkKept
<1>1. FixedInv => WatermarkKept
  <2> SUFFICES ASSUME FixedInv PROVE WatermarkKept
    OBVIOUS
  <2>1. ASSUME st = "select", trigger_level > 0
        PROVE  IF armed THEN count < trigger_level
                        ELSE reads_since_fire < trigger_level
    <3>1. CASE armed
      <4>1. ~Above
        BY <2>1, <3>1 DEF FixedInv, Watermark
      <4>2. count < trigger_level
        BY <4>1, DepthAssumption, LevelsAssumption
           DEF Above, FixedInv, TypeOK, RingType, LevelType
      <4>3. QED
        BY <3>1, <4>2
    <3>2. CASE ~armed
      BY <2>1, <3>2 DEF FixedInv, Watermark, Owes
    <3>3. QED
      BY <3>1, <3>2
  <2>2. st = "fire" => armed /\ count >= trigger_level
    BY DEF FixedInv, Watermark, Above
  <2>3. QED
    BY <2>1, <2>2 DEF WatermarkKept
<1>2. QED
  BY <1>1, FixedInit, FixedInvKept, PTL DEF FixedSpec

(***************************************************************************)
(* The words a handler has not loaded yet of the batch it was woken for    *)
(* are in the FIFO: a handler that loads trigger_level words per edge      *)
(* never loads from an empty FIFO.                                         *)
(***************************************************************************)
THEOREM BatchCorrect == FixedSpec => []BatchCovered
<1>1. FixedInv => BatchCovered
  BY DEF FixedInv
<1>2. QED
  BY <1>1, FixedInit, FixedInvKept, PTL DEF FixedSpec

-----------------------------------------------------------------------------
(***************************************************************************)
(* A stream of the dashboard.  Concat, the words of its queue, is a        *)
(* recursive function: that it is what its equation says is proved first,  *)
(* by induction over the length of the queue.                              *)
(***************************************************************************)

\* A packet is what one datagram brought; a queue is in Seq(Packets).
Packets == Seq(Words)

\* What the assumption on the constants says of each.
LEMMA Constants ==
    /\ SeqMod \in Nat \ {0} /\ EVENT_QUEUE_PACKETS \in Nat \ {0}
    /\ BatchWords \in Nat \ {0} /\ Sizes \subseteq Nat \ {0}
    /\ MaxTransfers \in Nat
  BY StreamAssumption DEF StreamAssumption

\* And what the types say of the counters and of what was sent.
LEMMA CountersTyped == ArrivalTypes => accepted \in Nat /\ accepted + 1 \in Nat /\ evicted \in Nat
<1>1. ArrivalTypes => accepted \in Nat /\ evicted \in Nat
  BY Zenon DEF ArrivalTypes
<1>2. QED
  BY <1>1

LEMMA OutTyped == SenderTypes => out \in Seq(Words) /\ queue \in Seq(Seq(Words))
  BY Zenon DEF SenderTypes

-----------------------------------------------------------------------------
(***************************************************************************)
(* The words of a queue.  f puts the packets of a queue together, as Concat *)
(* should, up to length n.                                                 *)
(***************************************************************************)
Flat(f, n) ==
    \A q \in Seq(Packets) : Len(q) <= n =>
        f[q] = IF q = << >> THEN << >> ELSE Head(q) \o f[Tail(q)]

\* What the tail of a queue is, and that every queue has a length.
LEMMA TailOfQueue ==
    ASSUME NEW q \in Seq(Packets), q # << >>
    PROVE  /\ Head(q) \in Packets /\ Tail(q) \in Seq(Packets)
           /\ Len(q) \in Nat /\ Len(Tail(q)) = Len(q) - 1
<1>1. Len(q) \in Nat
  BY LenProperties
<1>2. QED
  BY <1>1, HeadTailProperties

\* What that says of one queue.
LEMMA FlatAt ==
    ASSUME NEW f, NEW n \in Nat, Flat(f, n), NEW q \in Seq(Packets), Len(q) <= n
    PROVE  f[q] = IF q = << >> THEN << >> ELSE Head(q) \o f[Tail(q)]
  BY DEF Flat

\* Two such functions agree on the queues they are about.
LEMMA FlatUnique ==
    ASSUME NEW f, NEW g, NEW n \in Nat, Flat(f, n), Flat(g, n),
           NEW q \in Seq(Packets), Len(q) <= n
    PROVE  f[q] = g[q]
<1> DEFINE T == {k \in Nat : \A p \in Seq(Packets) :
                                 Len(p) <= k /\ k <= n => f[p] = g[p]}
<1>1. 0 \in T
  <2> SUFFICES ASSUME NEW p \in Seq(Packets), Len(p) <= 0
               PROVE  f[p] = g[p]
    OBVIOUS
  <2>1. p = << >> /\ Len(p) <= n
    BY EmptySeq, LenProperties
  <2>2. QED
    BY <2>1 DEF Flat
<1>2. ASSUME NEW k \in Nat, k \in T
      PROVE  k + 1 \in T
  <2> SUFFICES ASSUME NEW p \in Seq(Packets), Len(p) <= k + 1, k + 1 <= n
               PROVE  f[p] = g[p]
    OBVIOUS
  <2>1. Len(p) \in Nat /\ Len(p) <= n
    BY LenProperties
  <2>2. CASE p = << >>
    BY <2>1, <2>2, FlatAt
  <2>3. CASE p # << >>
    <3>1. Tail(p) \in Seq(Packets) /\ Len(Tail(p)) <= k
      BY <2>3, TailOfQueue
    <3>2. f[Tail(p)] = g[Tail(p)]
      BY <1>2, <3>1, k <= n
    <3>3. QED
      BY <2>1, <2>3, <3>2, FlatAt
  <2>4. QED
    BY <2>2, <2>3
<1> HIDE DEF T
<1>3. Nat \subseteq T
  BY <1>1, <1>2, Induction
<1>4. n \in T
  BY <1>3
<1>5. QED
  BY <1>4 DEF T

\* And for each length there is one.
LEMMA FlatExists == \A n \in Nat : \E f \in [Seq(Packets) -> Packets] : Flat(f, n)
<1> DEFINE T == {k \in Nat : \E f \in [Seq(Packets) -> Packets] : Flat(f, k)}
<1>1. 0 \in T
  <2> DEFINE f == [q \in Seq(Packets) |-> << >>]
  <2>1. f \in [Seq(Packets) -> Packets]
    BY EmptySeq DEF Packets
  <2>2. ASSUME NEW q \in Seq(Packets), Len(q) <= 0
        PROVE  q = << >>
    BY <2>2, EmptySeq, LenProperties
  <2>3. Flat(f, 0)
    BY <2>2 DEF Flat
  <2>4. QED
    BY <2>1, <2>3
<1>2. ASSUME NEW k \in Nat, k \in T
      PROVE  k + 1 \in T
  <2>1. PICK f \in [Seq(Packets) -> Packets] : Flat(f, k)
    BY <1>2
  <2> DEFINE g == [q \in Seq(Packets) |->
                      IF q = << >> THEN << >> ELSE Head(q) \o f[Tail(q)]]
  <2>2. g \in [Seq(Packets) -> Packets]
    <3> SUFFICES ASSUME NEW q \in Seq(Packets)
                 PROVE  g[q] \in Packets
      OBVIOUS
    <3>1. CASE q = << >>
      BY <3>1, EmptySeq DEF Packets
    <3>2. CASE q # << >>
      <4>1. Head(q) \in Packets /\ f[Tail(q)] \in Packets
        BY <3>2, TailOfQueue
      <4>2. Head(q) \o f[Tail(q)] \in Packets
        BY <4>1, ConcatProperties DEF Packets
      <4>3. QED
        BY <3>2, <4>2
    <3>3. QED
      BY <3>1, <3>2
  <2>3. ASSUME NEW p \in Seq(Packets), Len(p) <= k
        PROVE  g[p] = f[p]
    BY <2>1, <2>3 DEF Flat
  <2>4. Flat(g, k + 1)
    <3> SUFFICES ASSUME NEW q \in Seq(Packets), Len(q) <= k + 1, q # << >>
                 PROVE  g[q] = Head(q) \o g[Tail(q)]
      BY DEF Flat
    <3>1. Tail(q) \in Seq(Packets) /\ Len(Tail(q)) <= k
      BY TailOfQueue
    <3>2. g[Tail(q)] = f[Tail(q)]
      BY <2>3, <3>1
    <3>3. QED
      BY <3>2
  <2> HIDE DEF g
  <2>5. QED
    BY <2>2, <2>4
<1> HIDE DEF T
<1>3. Nat \subseteq T
  BY <1>1, <1>2, Induction
<1>4. QED
  BY <1>3 DEF T

\* So the recursive function Concat exists, and its equation holds.
LEMMA ConcatEquation ==
    /\ Concat \in [Seq(Packets) -> Packets]
    /\ \A q \in Seq(Packets) :
           Concat[q] = IF q = << >> THEN << >> ELSE Head(q) \o Concat[Tail(q)]
<1> DEFINE F == [n \in Nat |->
                   CHOOSE f \in [Seq(Packets) -> Packets] : Flat(f, n)]
           h == [q \in Seq(Packets) |-> F[Len(q)][q]]
<1>1. \A n \in Nat : F[n] \in [Seq(Packets) -> Packets] /\ Flat(F[n], n)
  BY FlatExists
<1>2. \A q \in Seq(Packets) : Len(q) \in Nat
  BY LenProperties
<1> HIDE DEF F
<1>3. h \in [Seq(Packets) -> Packets]
  BY <1>1, <1>2
<1>4. ASSUME NEW q \in Seq(Packets)
      PROVE  h[q] = IF q = << >> THEN << >> ELSE Head(q) \o h[Tail(q)]
  <2>1. CASE q = << >>
    <3>1. Flat(F[Len(q)], Len(q)) /\ Len(q) <= Len(q)
      BY <1>1, <1>2
    <3>2. QED
      BY <1>2, <2>1, <3>1, FlatAt
  <2>2. CASE q # << >>
    <3>1. PICK k \in Nat : Len(q) = k + 1 /\ Len(Tail(q)) = k
      <4>1. Len(q) \in Nat /\ Len(q) # 0 /\ Len(Tail(q)) = Len(q) - 1
        BY <2>2, TailOfQueue, EmptySeq
      <4>2. Len(q) - 1 \in Nat /\ Len(q) = (Len(q) - 1) + 1
        BY <4>1
      <4>3. QED
        BY <4>1, <4>2
    <3>2. PICK t \in Seq(Packets) : t = Tail(q) /\ Len(t) = k
      BY <2>2, <3>1, TailOfQueue, Zenon
    <3>3. k + 1 \in Nat /\ k + 1 <= k + 1 /\ k <= k
      OBVIOUS
    <3>4. PICK f : f = F[k + 1] /\ Flat(f, k + 1)
      BY <1>1, <3>3, Zenon
    <3>5. PICK g : g = F[k] /\ Flat(g, k)
      BY <1>1, Zenon
    <3>6. Flat(f, k)
      <4>1. \A p \in Seq(Packets) : Len(p) <= k => Len(p) <= k + 1
        BY <1>2
      <4>2. QED
        BY <3>4, <4>1, Zenon DEF Flat
    <3>7. f[t] = g[t]
      <4>1. Len(t) <= k
        BY <3>2
      <4>2. QED
        BY <3>5, <3>6, <4>1, FlatUnique
    <3>8. f[q] = IF q = << >> THEN << >> ELSE Head(q) \o f[Tail(q)]
      BY <3>1, <3>3, <3>4, FlatAt
    <3>9. h[q] = f[q] /\ h[t] = g[t]
      BY <3>1, <3>2, <3>4, <3>5, Zenon
    <3>10. QED
      BY <2>2, <3>2, <3>7, <3>8, <3>9, Zenon
  <2>3. QED
    BY <2>1, <2>2
<1> HIDE DEF h
<1>5. h = [q \in Seq(Packets) |->
              IF q = << >> THEN << >> ELSE Head(q) \o h[Tail(q)]]
  BY <1>3, <1>4
<1>6. Concat = [q \in Seq(Packets) |->
                   IF q = << >> THEN << >> ELSE Head(q) \o Concat[Tail(q)]]
  BY <1>5 DEF Concat, Packets
<1>7. \A q \in Seq(Packets) :
          Concat[q] = IF q = << >> THEN << >> ELSE Head(q) \o Concat[Tail(q)]
  BY <1>6
<1>8. \A q \in Seq(Packets) : Concat[q] = h[q]
  <2> SUFFICES ASSUME NEW q \in Seq(Packets)
               PROVE  Concat[q] = h[q]
    OBVIOUS
  <2>1. Flat(Concat, Len(q)) /\ Flat(h, Len(q))
    BY <1>4, <1>7 DEF Flat
  <2>2. QED
    BY <1>2, <2>1, FlatUnique
<1>9. Concat \in [Seq(Packets) -> Packets]
  BY <1>3, <1>6, <1>8
<1>10. QED
  BY <1>7, <1>9

\* The words of a queue are a sequence of words.
LEMMA ConcatType ==
    ASSUME NEW q \in Seq(Packets)
    PROVE  Concat[q] \in Packets
  BY ConcatEquation

\* An empty queue has none.
LEMMA ConcatNone == Concat[<< >>] = << >>
  BY ConcatEquation, EmptySeq

\* Sequences of sequences and single ones alike: head and tail of a \o b.
LEMMA Appended ==
    ASSUME NEW S, NEW a \in Seq(S), NEW b \in Seq(S), a # << >>
    PROVE  /\ a \o b # << >> /\ a \o b \in Seq(S)
           /\ Head(a \o b) = Head(a) /\ Tail(a \o b) = Tail(a) \o b
<1>1. a \o b \in Seq(S) /\ a \o b # << >>
  BY ConcatProperties, ConcatEqualIffEmpty
<1>2. Tail(a) \in Seq(S) /\ Len(Tail(a)) = Len(a) - 1
  BY HeadTailProperties
<1>3. Len(a) \in Nat \ {0} /\ Len(b) \in Nat
  BY EmptySeq, LenProperties
<1>4. Head(a \o b) = Head(a)
  BY <1>1, <1>3, ConcatProperties
<1>5. Tail(a \o b) = Tail(a) \o b
  <2>1. Tail(a \o b) \in Seq(S) /\ Tail(a) \o b \in Seq(S)
    BY <1>1, <1>2, HeadTailProperties, ConcatProperties
  <2>2. Len(Tail(a \o b)) = Len(a) + Len(b) - 1
    BY <1>1, HeadTailProperties, ConcatProperties
  <2>3. Len(Tail(a) \o b) = Len(a) + Len(b) - 1
    BY <1>2, <1>3, ConcatProperties
  <2>4. ASSUME NEW i \in 1 .. Len(a) + Len(b) - 1
        PROVE  Tail(a \o b)[i] = (Tail(a) \o b)[i]
    <3>1. Tail(a \o b)[i] = (a \o b)[i + 1]
      BY <1>1, <2>2, HeadTailProperties
    <3>2. (a \o b)[i + 1] = IF i + 1 <= Len(a) THEN a[i + 1] ELSE b[i + 1 - Len(a)]
      BY <1>3, ConcatProperties
    <3>3. (Tail(a) \o b)[i] = IF i <= Len(a) - 1 THEN Tail(a)[i]
                              ELSE b[i - (Len(a) - 1)]
      BY <1>2, <1>3, ConcatProperties
    <3>4. i <= Len(a) - 1 => Tail(a)[i] = a[i + 1]
      BY <1>2, <1>3, HeadTailProperties
    <3>5. QED
      BY <1>3, <3>1, <3>2, <3>3, <3>4
  <2>5. QED
    BY <1>3, <2>1, <2>2, <2>3, <2>4, SeqEqual
<1>6. QED
  BY <1>1, <1>4, <1>5

\* The words of a queue are those of its front and then those of its back.
LEMMA ConcatOfBoth ==
    ASSUME NEW a \in Seq(Packets), NEW b \in Seq(Packets)
    PROVE  Concat[a \o b] = Concat[a] \o Concat[b]
<1> DEFINE T == {n \in Nat : \A q \in Seq(Packets) : Len(q) = n =>
                     Concat[q \o b] = Concat[q] \o Concat[b]}
<1>1. 0 \in T
  <2>1. ASSUME NEW q \in Seq(Packets), Len(q) = 0
        PROVE  q = << >>
    BY <2>1, EmptySeq
  <2>2. << >> \o b = b /\ << >> \o Concat[b] = Concat[b]
    BY ConcatEmptySeq, ConcatType DEF Packets
  <2>3. QED
    BY <2>1, <2>2, ConcatNone
<1>2. ASSUME NEW n \in Nat, n \in T
      PROVE  n + 1 \in T
  <2> SUFFICES ASSUME NEW q \in Seq(Packets), Len(q) = n + 1
               PROVE  Concat[q \o b] = Concat[q] \o Concat[b]
    <3>1. n + 1 \in Nat
      OBVIOUS
    <3>2. QED
      BY <3>1, Zenon
  <2>1. q # << >>
    BY EmptySeq
  <2>2. /\ Head(q) \in Packets /\ Tail(q) \in Seq(Packets)
        /\ Len(Tail(q)) = n
    BY <2>1, TailOfQueue
  <2>3. Concat[q \o b] = Head(q) \o Concat[Tail(q) \o b]
    <3>1. /\ q \o b # << >> /\ q \o b \in Seq(Packets)
          /\ Head(q \o b) = Head(q) /\ Tail(q \o b) = Tail(q) \o b
      BY <2>1, Appended
    <3>2. QED
      BY <3>1, ConcatEquation
  <2>4. Concat[Tail(q) \o b] = Concat[Tail(q)] \o Concat[b]
    BY <1>2, <2>2
  <2>5. Concat[q] = Head(q) \o Concat[Tail(q)]
    BY <2>1, ConcatEquation
  <2>6. (Head(q) \o Concat[Tail(q)]) \o Concat[b]
            = Head(q) \o (Concat[Tail(q)] \o Concat[b])
    <3>1. PICK h \in Seq(Words) : h = Head(q)
      BY <2>2 DEF Packets
    <3>2. PICK t \in Seq(Words) : t = Concat[Tail(q)]
      BY <2>2, ConcatType DEF Packets
    <3>3. PICK u \in Seq(Words) : u = Concat[b]
      BY ConcatType DEF Packets
    <3>4. (h \o t) \o u = h \o (t \o u)
      BY ConcatAssociative
    <3>5. QED
      BY <3>1, <3>2, <3>3, <3>4, Zenon
  <2>7. QED
    BY <2>3, <2>4, <2>5, <2>6
<1> HIDE DEF T
<1>3. Nat \subseteq T
  BY <1>1, <1>2, Induction
<1>4. Len(a) \in T
  BY <1>3, LenProperties
<1>5. QED
  BY <1>4 DEF T

\* A queue of one packet has the words of that packet.
LEMMA ConcatSingle ==
    ASSUME NEW p \in Packets
    PROVE  Concat[<<p>>] = p
<1>1. <<p>> \in Seq(Packets) /\ <<p>> # << >> /\ Head(<<p>>) = p /\ Tail(<<p>>) = << >>
  OBVIOUS
<1>2. p \o << >> = p
  BY ConcatEmptySeq DEF Packets
<1>3. QED
  BY <1>1, <1>2, ConcatEquation, ConcatNone

\* A packet that joins the queue adds its words at the end.
LEMMA ConcatAppend ==
    ASSUME NEW q \in Seq(Packets), NEW p \in Packets
    PROVE  Concat[Append(q, p)] = Concat[q] \o p
<1>1. Append(q, p) = q \o <<p>> /\ <<p>> \in Seq(Packets)
  BY AppendIsConcat
<1>2. QED
  BY <1>1, ConcatOfBoth, ConcatSingle

\* A word of the queue is a word of one of its packets.
LEMMA ConcatRange ==
    ASSUME NEW q \in Seq(Packets)
    PROVE  \A x : x \in Range(Concat[q]) <=> \E i \in DOMAIN q : x \in Range(q[i])
<1> DEFINE T == {n \in Nat : \A p \in Seq(Packets) : Len(p) = n =>
                    \A x : x \in Range(Concat[p]) <=>
                               \E i \in DOMAIN p : x \in Range(p[i])}
<1>1. 0 \in T
  <2>1. ASSUME NEW p \in Seq(Packets), Len(p) = 0
        PROVE  p = << >>
    BY <2>1, EmptySeq
  <2>2. Range(Concat[<< >>]) = {} /\ DOMAIN << >> = {}
    BY ConcatNone DEF Range
  <2>3. QED
    BY <2>1, <2>2
<1>2. ASSUME NEW n \in Nat, n \in T
      PROVE  n + 1 \in T
  <2> SUFFICES ASSUME NEW p \in Seq(Packets), Len(p) = n + 1, NEW x
               PROVE  x \in Range(Concat[p]) <=> \E i \in DOMAIN p : x \in Range(p[i])
    OBVIOUS
  <2>1. p # << >>
    BY EmptySeq
  <2>2. /\ Head(p) \in Packets /\ Tail(p) \in Seq(Packets)
        /\ Len(Tail(p)) = n
    BY <2>1, TailOfQueue
  <2>3. Range(Concat[p]) = Range(Head(p)) \cup Range(Concat[Tail(p)])
    <3>1. Concat[p] = Head(p) \o Concat[Tail(p)]
      BY <2>1, ConcatEquation
    <3>2. Head(p) \in Seq(Words) /\ Concat[Tail(p)] \in Seq(Words)
      BY <2>2, ConcatType DEF Packets
    <3>3. QED
      BY <3>1, <3>2, RangeConcatenation
  <2>4. x \in Range(Concat[Tail(p)]) <=>
            \E i \in DOMAIN Tail(p) : x \in Range(Tail(p)[i])
    BY <1>2, <2>2
  <2>5. DOMAIN p = 1 .. n + 1 /\ DOMAIN Tail(p) = 1 .. n
    BY <2>2, LenProperties
  <2>6. \A i \in 1 .. n : Tail(p)[i] = p[i + 1]
    BY <2>1, <2>2, HeadTailProperties
  <2>7. Head(p) = p[1]
    OBVIOUS
  <2>8. (\E i \in 1 .. n + 1 : x \in Range(p[i])) <=>
            x \in Range(p[1]) \/ \E i \in 1 .. n : x \in Range(p[i + 1])
    <3>1. ASSUME NEW i \in 1 .. n + 1, x \in Range(p[i]), x \notin Range(p[1])
          PROVE  \E j \in 1 .. n : x \in Range(p[j + 1])
      <4>1. i - 1 \in 1 .. n /\ (i - 1) + 1 = i
        BY <3>1
      <4>2. QED
        BY <3>1, <4>1
    <3>2. QED
      BY <3>1
  <2>9. QED
    BY <2>3, <2>4, <2>5, <2>6, <2>7, <2>8
<1> HIDE DEF T
<1>3. Nat \subseteq T
  BY <1>1, <1>2, Induction
<1>4. Len(q) \in T
  BY <1>3, LenProperties
<1>5. QED
  BY <1>4 DEF T

-----------------------------------------------------------------------------
(***************************************************************************)
(* The batch: how many packets it takes is well chosen, in that one more   *)
(* would be too much and these are not, unless it is a single one.         *)
(***************************************************************************)
LEMMA WholePacketsFound ==
    ASSUME NEW q \in Seq(Packets), q # << >>
    PROVE  /\ WholePackets(q) \in 1 .. Len(q)
           /\ \/ WholePackets(q) = 1
              \/ BatchedWords(q, WholePackets(q)) <= BatchWords
           /\ \/ WholePackets(q) = Len(q)
              \/ BatchedWords(q, WholePackets(q) + 1) > BatchWords
<1> DEFINE Fits(n) == BatchedWords(q, n) <= BatchWords
           T == {n \in 1 .. Len(q) : n = Len(q) \/ ~Fits(n + 1)}
<1>1. Len(q) \in Nat \ {0}
  BY EmptySeq
<1>2. BatchWords \in Nat
  BY StreamAssumption DEF StreamAssumption
<1>3. ASSUME NEW n \in 1 .. Len(q)
      PROVE  BatchedWords(q, n) \in Nat
  <2>1. SubSeq(q, 1, n) \in Seq(Packets)
    BY <1>1, SubSeqProperties, ElementOfSeq
  <2>2. Concat[SubSeq(q, 1, n)] \in Seq(Words)
    BY <2>1, ConcatType DEF Packets
  <2>3. QED
    BY <2>2, LenProperties DEF BatchedWords
<1>4. \A n \in 1 .. Len(q) : Fits(n) <=> ~(BatchedWords(q, n) > BatchWords)
  BY <1>2, <1>3
<1> HIDE DEF Fits
<1>5. PICK n \in T : \A m \in T : n <= m
  <2>1. T \subseteq Nat /\ Len(q) \in T
    BY <1>1
  <2>2. QED
    BY <2>1, LeastElement
<1>6. n = 1 \/ Fits(n)
  <2> SUFFICES ASSUME n # 1
               PROVE  Fits(n)
    OBVIOUS
  <2>1. n \in 1 .. Len(q) /\ Len(q) \in Nat
    BY <1>1, <1>5
  <2>2. PICK p \in 1 .. Len(q) : p = n - 1 /\ p + 1 = n /\ p < n
    BY <2>1
  <2>3. p \notin T
    <3>1. ~(n <= p)
      BY <2>1, <2>2
    <3>2. QED
      BY <1>5, <3>1
  <2>4. Fits(p + 1)
    BY <2>2, <2>3
  <2>5. QED
    BY <2>2, <2>4
<1>7. n = Len(q) \/ BatchedWords(q, n + 1) > BatchWords
  <2> SUFFICES ASSUME n # Len(q)
               PROVE  BatchedWords(q, n + 1) > BatchWords
    OBVIOUS
  <2>1. n + 1 \in 1 .. Len(q) /\ ~Fits(n + 1)
    BY <1>1, <1>5
  <2>2. QED
    BY <1>4, <2>1
<1>8. /\ n \in 1 .. Len(q)
      /\ n = 1 \/ BatchedWords(q, n) <= BatchWords
  BY <1>6 DEF Fits
<1>9. QED
  BY <1>7, <1>8 DEF WholePackets

\* A sequence is its first n elements and the others.
LEMMA SplitAt ==
    ASSUME NEW S, NEW s \in Seq(S), NEW n \in 0 .. Len(s)
    PROVE  /\ SubSeq(s, 1, n) \in Seq(S) /\ Len(SubSeq(s, 1, n)) = n
           /\ SubSeq(s, n + 1, Len(s)) \in Seq(S)
           /\ Len(SubSeq(s, n + 1, Len(s))) = Len(s) - n
           /\ s = SubSeq(s, 1, n) \o SubSeq(s, n + 1, Len(s))
<1>1. Len(s) \in Nat /\ \A i \in 1 .. Len(s) : s[i] \in S
  BY LenProperties, ElementOfSeq
<1>2. /\ SubSeq(s, 1, n) \in Seq(S) /\ Len(SubSeq(s, 1, n)) = n
      /\ SubSeq(s, n + 1, Len(s)) \in Seq(S)
      /\ Len(SubSeq(s, n + 1, Len(s))) = Len(s) - n
  BY <1>1, SubSeqProperties
<1>3. SubSeq(s, 1, n) \o SubSeq(s, n + 1, Len(s)) = SubSeq(s, 1, Len(s))
  <2>1. 1 \in 1 .. Len(s) + 1 /\ n \in 1 - 1 .. Len(s) /\ Len(s) \in n .. Len(s)
    BY <1>1
  <2>2. QED
    BY <2>1, ConcatAdjacentSubSeq
<1>4. QED
  BY <1>2, <1>3, SubSeqFull

\* A batch that takes the packets a whole and leaves the packets b.
Batched(q, a, b) ==
    /\ q = a \o b /\ a # << >>
    /\ NextBatch(q) = Concat[a] /\ QueueAfter(q) = b

\* And one that takes a and the start u of a packet whose rest v goes back.
Cut(q, a, b, u, v) ==
    /\ q = (a \o <<u \o v>>) \o b /\ a # << >>
    /\ u # << >> /\ v # << >>
    /\ FirstLeft(q) = u \o v
    /\ NextBatch(q) = Concat[a] \o u
    /\ QueueAfter(q) = Append(b, v)

\* A batch that cuts no packet takes whole ones.
LEMMA BatchWhole ==
    ASSUME NEW q \in Seq(Packets), q # << >>, ~Cuts(q)
    PROVE  \E a, b \in Seq(Packets) : Batched(q, a, b)
<1> DEFINE w == WholePackets(q)
<1>1. w \in 1 .. Len(q) /\ w \in 0 .. Len(q) /\ Len(q) \in Nat
  BY WholePacketsFound, LenProperties
<1>2. w = WholePackets(q)
  OBVIOUS
<1> HIDE DEF w
<1>3. /\ SubSeq(q, 1, w) \in Seq(Packets) /\ Len(SubSeq(q, 1, w)) = w
      /\ SubSeq(q, w + 1, Len(q)) \in Seq(Packets)
      /\ q = SubSeq(q, 1, w) \o SubSeq(q, w + 1, Len(q))
  BY <1>1, SplitAt
<1>4. SubSeq(q, 1, w) # << >>
  BY <1>1, <1>3
<1>5. NextBatch(q) = Concat[SubSeq(q, 1, w)]
  <2>1. Concat[SubSeq(q, 1, w)] \in Seq(Words)
    BY <1>3, ConcatType DEF Packets
  <2>2. QED
    BY <1>2, <2>1, ConcatEmptySeq DEF NextBatch
<1>6. QueueAfter(q) = SubSeq(q, w + 1, Len(q))
  BY <1>2 DEF QueueAfter, Untouched
<1>7. QED
  BY <1>3, <1>4, <1>5, <1>6 DEF Batched

\* One that does takes a part of the next, which goes back behind the others.
LEMMA BatchCuts ==
    ASSUME NEW q \in Seq(Packets), q # << >>, Cuts(q),
           Len(q) <= EVENT_QUEUE_PACKETS
    PROVE  \E a, b \in Seq(Packets), u, v \in Packets : Cut(q, a, b, u, v)
<1>1. PICK w \in 1 .. Len(q) :
          /\ w = WholePackets(q) /\ w < Len(q) /\ w + 1 \in 1 .. Len(q)
          /\ BatchedWords(q, w + 1) > BatchWords /\ Len(q) \in Nat
  BY WholePacketsFound, LenProperties DEF Cuts
<1>2. PICK f \in Seq(Words) : f \in Packets /\ f = q[w + 1]
  BY <1>1, ElementOfSeq DEF Packets
<1>3. PICK a \in Seq(Packets) : /\ a = SubSeq(q, 1, w) /\ Len(a) = w
  <2>1. PICK n \in 0 .. Len(q) : n = w
    BY <1>1
  <2>2. SubSeq(q, 1, n) \in Seq(Packets) /\ Len(SubSeq(q, 1, n)) = n
    BY SplitAt, Zenon
  <2>3. QED
    BY <2>1, <2>2
<1>4. PICK b \in Seq(Packets) : /\ b = SubSeq(q, w + 2, Len(q))
                                /\ Len(b) = Len(q) - (w + 1)
                                /\ q = SubSeq(q, 1, w + 1) \o b
  <2>1. PICK n \in 0 .. Len(q) : n = w + 1 /\ n + 1 = w + 2
    BY <1>1
  <2>2. /\ SubSeq(q, n + 1, Len(q)) \in Seq(Packets)
        /\ Len(SubSeq(q, n + 1, Len(q))) = Len(q) - n
        /\ q = SubSeq(q, 1, n) \o SubSeq(q, n + 1, Len(q))
    BY SplitAt
  <2>3. QED
    BY <2>1, <2>2
<1>5. SubSeq(q, 1, w + 1) = a \o <<f>>
  <2>1. (w + 1) - 1 = w /\ 1 \in 1 .. Len(q) /\ w + 1 \in 1 .. Len(q)
    BY <1>1
  <2>2. SubSeq(q, 1, w + 1) = SubSeq(q, 1, (w + 1) - 1) \o <<q[w + 1]>>
    BY <2>1, SubSeqRecursiveSecond
  <2>3. QED
    BY <1>2, <1>3, <2>1, <2>2
<1>6. PICK c \in Seq(Words) : c = Concat[a]
  BY <1>3, ConcatType DEF Packets
<1>7. BatchedWords(q, w + 1) = Len(c) + Len(f)
  <2>1. <<f>> \in Seq(Packets)
    BY <1>2
  <2>2. Concat[a \o <<f>>] = c \o f
    <3>1. Concat[a \o <<f>>] = Concat[a] \o Concat[<<f>>]
      BY <1>3, <2>1, ConcatOfBoth, Zenon
    <3>2. Concat[<<f>>] = f
      BY <1>2, ConcatSingle, Zenon
    <3>3. QED
      BY <1>6, <3>1, <3>2, Zenon
  <2>3. Len(c \o f) = Len(c) + Len(f)
    BY ConcatProperties
  <2>4. QED
    BY <1>5, <2>2, <2>3 DEF BatchedWords
<1>8. PICK r \in 1 .. Len(f) : r = RoomLeft(q) /\ r < Len(f)
  <2>1. RoomLeft(q) = BatchWords - Len(c) /\ RoomLeft(q) > 0
    BY <1>1, <1>3, <1>6 DEF RoomLeft, BatchedWords, Cuts
  <2>2. Len(c) \in Nat /\ Len(f) \in Nat /\ BatchWords \in Nat
    BY LenProperties, Constants
  <2>3. Len(c) + Len(f) > BatchWords
    BY <1>1, <1>7
  <2>4. RoomLeft(q) \in 1 .. Len(f) /\ RoomLeft(q) < Len(f)
    BY <2>1, <2>2, <2>3
  <2>5. QED
    BY <2>4
<1>9. Len(f) \in Nat
  BY LenProperties
<1>10. PICK u \in Seq(Words), v \in Seq(Words) :
           /\ u = SubSeq(f, 1, r) /\ Len(u) = r
           /\ v = SubSeq(f, r + 1, Len(f)) /\ Len(v) = Len(f) - r
           /\ f = u \o v
  <2>1. PICK n \in 0 .. Len(f) : n = r
    BY <1>8, <1>9
  <2>2. /\ SubSeq(f, 1, n) \in Seq(Words) /\ Len(SubSeq(f, 1, n)) = n
        /\ SubSeq(f, n + 1, Len(f)) \in Seq(Words)
        /\ Len(SubSeq(f, n + 1, Len(f))) = Len(f) - n
        /\ f = SubSeq(f, 1, n) \o SubSeq(f, n + 1, Len(f))
    BY SplitAt
  <2>3. QED
    BY <2>1, <2>2
<1>11. u # << >> /\ v # << >> /\ a # << >>
  <2>1. r # 0 /\ Len(f) - r # 0
    BY <1>8, <1>9
  <2>2. Len(u) = r /\ Len(v) = Len(f) - r
    BY <1>10
  <2>3. Len(a) # 0
    BY <1>1, <1>3
  <2>4. QED
    BY <2>1, <2>2, <2>3, EmptySeq
<1>12. FirstLeft(q) = u \o v
  BY <1>1, <1>2, <1>10 DEF FirstLeft
<1>13. NextBatch(q) = Concat[a] \o u
  BY <1>1, <1>2, <1>3, <1>8, <1>10 DEF NextBatch, FirstLeft
<1>14. QueueAfter(q) = Append(b, v)
  <2>1. Len(b) # EVENT_QUEUE_PACKETS
    <3>1. Len(q) \in Nat /\ Len(q) <= EVENT_QUEUE_PACKETS /\ w \in Nat
      BY <1>1, LenProperties
    <3>2. Len(b) = Len(q) - w - 1
      BY <1>1, <1>4
    <3>3. QED
      BY <3>1, <3>2, Constants
  <2>2. QED
    BY <1>1, <1>2, <1>4, <1>8, <1>10, <2>1
    DEF QueueAfter, Enqueue, MakeRoom, Behind, FirstLeft
<1>15. u \in Packets /\ v \in Packets
  BY DEF Packets
<1>16. Cut(q, a, b, u, v)
  BY <1>4, <1>5, <1>10, <1>11, <1>12, <1>13, <1>14 DEF Cut
<1>17. QED
  BY <1>15, <1>16

-----------------------------------------------------------------------------
(***************************************************************************)
(* Types.  What is on the way from the board.                              *)
(***************************************************************************)
Datagram == [num : Nat, seq : 0 .. SeqMod - 1, count : Sizes]

\* The actions a step may be, once and for all.
LEMMA NextCases ==
    ASSUME [StreamNext]_streamVars
    PROVE  \/ \E n \in Sizes : Transfer(n)
           \/ TransferFails
           \/ Renumber
           \/ Lose
           \/ \E i \in 1 .. Len(net) : Reorder(i)
           \/ \E i \in 1 .. Len(net) : Duplicate(i)
           \/ DatagramReceived
           \/ FillBatch
           \/ \E c \in Clients : SendTo(c)
           \/ \E c \in Clients : SendFails(c)
           \/ Sent
           \/ \E c \in Clients : Subscribe(c)
           \/ \E c \in Clients : Unsubscribe(c)
           \/ UNCHANGED streamVars
  BY DEF StreamNext, BoardStep, NetworkStep, SenderStep, BrowserStep

\* The sequence number is 32 bits wide (SeqMod values).
LEMMA ModRange ==
    ASSUME NEW a \in Int
    PROVE  a % SeqMod \in 0 .. SeqMod - 1
  BY Constants

\* Every step keeps the board and the datagrams on the way well typed.
LEMMA BoardTypesStep == BoardTypes /\ [StreamNext]_streamVars => BoardTypes'
<1> SUFFICES ASSUME BoardTypes, [StreamNext]_streamVars
             PROVE  BoardTypes'
  OBVIOUS
<1> USE Constants DEF streamBoard
<1>1. net \in Seq(Datagram) /\ Len(net) \in Nat
  BY LenProperties DEF BoardTypes, Datagram
<1>2. CASE \E n \in Sizes : Transfer(n)
  <2>1. PICK n \in Sizes : Transfer(n)
    BY <1>2
  <2>2. /\ made' \in 0 .. MaxTransfers /\ sent' \in 0 .. made' /\ sent' = sent + 1
        /\ seq' \in 0 .. SeqMod - 1
    <3>1. seq + 1 \in Int
      BY DEF BoardTypes
    <3>2. (seq + 1) % SeqMod \in 0 .. SeqMod - 1
      BY <3>1, ModRange
    <3>3. QED
      BY <2>1, <3>2 DEF Transfer, BoardTypes
  <2>3. [num |-> sent', seq |-> seq, count |-> n] \in Datagram
    BY <2>2 DEF BoardTypes, Datagram
  <2>4. net' \in Seq(Datagram)
    BY <1>1, <2>1, <2>3, AppendProperties DEF Transfer
  <2>5. QED
    BY <2>2, <2>4 DEF BoardTypes, Datagram
<1>3. CASE TransferFails
  BY <1>3 DEF TransferFails, BoardTypes
<1>4. CASE Renumber
  BY <1>4 DEF Renumber, BoardTypes
<1>5. CASE net # << >> /\ net' = Tail(net) /\ UNCHANGED <<seq, made, sent>>
  BY <1>1, <1>5, HeadTailProperties DEF BoardTypes, Datagram
<1>6. CASE \E i \in 1 .. Len(net) : Reorder(i)
  <2>1. PICK i \in 1 .. Len(net) : Reorder(i)
    BY <1>6
  <2>2. i + 1 \in 1 .. Len(net) /\ net[i] \in Datagram /\ net[i + 1] \in Datagram
    BY <1>1, <2>1, ElementOfSeq DEF Reorder
  <2>3. net' \in Seq(Datagram)
    BY <1>1, <2>1, <2>2 DEF Reorder
  <2>4. QED
    BY <2>1, <2>3 DEF Reorder, BoardTypes, Datagram
<1>7. CASE \E i \in 1 .. Len(net) : Duplicate(i)
  <2>1. PICK i \in 1 .. Len(net) : Duplicate(i)
    BY <1>7
  <2>2. net' \in Seq(Datagram)
    BY <1>1, <2>1, ElementOfSeq, AppendProperties DEF Duplicate
  <2>3. QED
    BY <2>1, <2>2 DEF Duplicate, BoardTypes, Datagram
<1>8. CASE DatagramReceived
  BY <1>5, <1>8 DEF DatagramReceived
<1>9. CASE UNCHANGED <<net, seq, made, sent>>
  BY <1>9 DEF BoardTypes
<1>10. QED
  BY <1>2, <1>3, <1>4, <1>5, <1>6, <1>7, <1>8, <1>9, NextCases
  DEF Lose, FillBatch, SendTo, SendFails, Sent, Subscribe, Unsubscribe, streamVars

\* The datagram that arrives next is one.
LEMMA HeadOfNet ==
    ASSUME BoardTypes, net # << >>
    PROVE  /\ Head(net) = net[1] /\ 1 \in DOMAIN net
           /\ Head(net).num \in Nat /\ Head(net).seq \in 0 .. SeqMod - 1
           /\ Head(net).count \in Sizes
<1>1. net \in Seq(Datagram) /\ Len(net) \in Nat \ {0}
  BY EmptySeq DEF BoardTypes, Datagram
<1>2. Head(net) \in Datagram
  BY <1>1, HeadTailProperties
<1>3. QED
  BY <1>1, <1>2 DEF Datagram

\* Every step keeps the counters well typed, dropped included: the wrapped
\* difference of two sequence numbers is never negative.
LEMMA ArrivalTypesStep ==
    BoardTypes /\ ArrivalTypes /\ SenderTypes /\ [StreamNext]_streamVars => ArrivalTypes'
<1> SUFFICES ASSUME BoardTypes, ArrivalTypes, SenderTypes, [StreamNext]_streamVars
             PROVE  ArrivalTypes'
  OBVIOUS
<1>1. CASE DatagramReceived
  <2> DEFINE d == Head(net)
  <2>1. d.num \in Nat /\ d.seq \in 0 .. SeqMod - 1 /\ d.count \in Nat
    BY <1>1, HeadOfNet, Constants DEF DatagramReceived
  <2>2. Len(Head(queue)) \in Nat \/ Len(queue) # EVENT_QUEUE_PACKETS
    <3> SUFFICES ASSUME Len(queue) = EVENT_QUEUE_PACKETS
                 PROVE  Len(Head(queue)) \in Nat
      OBVIOUS
    <3>1. queue \in Seq(Seq(Words)) /\ queue # << >>
      BY Constants, EmptySeq DEF SenderTypes
    <3>2. Head(queue) \in Seq(Words)
      BY <3>1, HeadTailProperties
    <3>3. QED
      BY <3>2, LenProperties
  <2>3. accepted' \in Nat /\ evicted' \in Nat
    <3>1. \/ UNCHANGED <<accepted, evicted>>
          \/ /\ accepted' = accepted + 1
             /\ evicted' = evicted + IF Len(queue) = EVENT_QUEUE_PACKETS
                                     THEN Len(Head(queue)) ELSE 0
      BY <1>1, Zenon DEF DatagramReceived, AcceptDatagram
    <3>2. QED
      BY <2>2, <3>1, CountersTyped
  <2>4. stats' \in [words : Nat, packets : Nat, dropped : Nat,
                    sequence : {NoSeq} \cup 0 .. SeqMod - 1]
    <3>1. CASE stream = "raw"
      BY <1>1, <3>1 DEF DatagramReceived, ArrivalTypes
    <3>2. CASE stream # "raw"
      <4>1. stats' = Counted(d)
        BY <1>1, <3>2 DEF DatagramReceived
      <4>2. (d.seq + 1) % SeqMod \in 0 .. SeqMod - 1
        BY <2>1, ModRange
      <4>3. stats.sequence # NoSeq =>
                (d.seq - stats.sequence) % SeqMod \in 0 .. SeqMod - 1
        BY <2>1, ModRange DEF ArrivalTypes
      <4>4. Missing(d) \in Nat
        BY <4>3, Constants DEF Missing
      <4>5. /\ stats.words + d.count \in Nat /\ stats.packets + 1 \in Nat
            /\ stats.dropped + Missing(d) \in Nat
        BY <2>1, <4>4, Constants DEF ArrivalTypes
      <4> HIDE DEF d
      <4>6. QED
        BY <4>1, <4>2, <4>5 DEF Counted
    <3>3. QED
      BY <3>1, <3>2
  <2>5. span' \in [first : Nat, last : Nat]
    BY <1>1, <2>1 DEF DatagramReceived, ArrivalTypes
  <2>6. QED
    BY <1>1, <2>3, <2>4, <2>5 DEF DatagramReceived, ArrivalTypes
<1>2. CASE UNCHANGED <<stream, stats, accepted, evicted, span>>
           /\ disturbed' \in {disturbed, TRUE}
  BY <1>2 DEF ArrivalTypes
<1>3. QED
  BY <1>1, <1>2, NextCases
  DEF Transfer, TransferFails, Renumber, Lose, Reorder, Duplicate, FillBatch,
      SendTo, SendFails, Sent, Subscribe, Unsubscribe, streamVars, arrival

\* So either of the two is what FillBatch does with the queue.
LEMMA BatchCases ==
    ASSUME NEW q \in Seq(Packets), q # << >>, Len(q) <= EVENT_QUEUE_PACKETS
    PROVE  \/ ~Cuts(q) /\ \E a, b \in Seq(Packets) : Batched(q, a, b)
           \/ Cuts(q) /\ \E a, b \in Seq(Packets), u, v \in Packets :
                              Cut(q, a, b, u, v)
  BY BatchWhole, BatchCuts

\* What a new packet pushes out: the oldest one of a full queue.
LEMMA RoomMade ==
    ASSUME NEW q \in Seq(Packets)
    PROVE  \E a, b \in Seq(Packets) :
               /\ q = a \o b /\ MakeRoom(q) = b
               /\ IF Len(q) = EVENT_QUEUE_PACKETS THEN a = <<Head(q)>> ELSE a = << >>
               /\ Len(q) <= EVENT_QUEUE_PACKETS => Len(b) < EVENT_QUEUE_PACKETS
<1>1. CASE Len(q) = EVENT_QUEUE_PACKETS
  <2>1. q # << >>
    BY <1>1, Constants
  <2>2. /\ Head(q) \in Packets /\ Tail(q) \in Seq(Packets)
        /\ Len(Tail(q)) = Len(q) - 1
    BY <2>1, TailOfQueue
  <2>3. q = <<Head(q)>> \o Tail(q)
    BY <2>1
  <2>4. <<Head(q)>> \in Seq(Packets) /\ MakeRoom(q) = Tail(q)
    BY <1>1, <2>2 DEF MakeRoom
  <2>5. Len(Tail(q)) < EVENT_QUEUE_PACKETS
    BY <1>1, <2>2, Constants
  <2>6. QED
    BY <1>1, <2>2, <2>3, <2>4, <2>5
<1>2. CASE Len(q) # EVENT_QUEUE_PACKETS
  <2>1. << >> \in Seq(Packets) /\ << >> \o q = q /\ Len(q) \in Nat
    BY EmptySeq, ConcatEmptySeq, LenProperties
  <2>2. Len(q) <= EVENT_QUEUE_PACKETS => Len(q) < EVENT_QUEUE_PACKETS
    BY <1>2, <2>1, Constants
  <2>3. MakeRoom(q) = q
    BY <1>2 DEF MakeRoom
  <2>4. QED
    BY <1>2, <2>1, <2>2, <2>3
<1>3. QED
  BY <1>1, <1>2

\* The words of a packet: as many as counted, all of its datagram, in order.
LEMMA PayloadWords ==
    ASSUME NEW p \in Nat, NEW n \in Nat \ {0}, NEW cut
    PROVE  /\ Payload(p, n) \in Packets /\ Payload(p, n) # << >>
           /\ Len(Payload(p, n)) = n
           /\ Range(Payload(p, n)) = {<<p, i>> : i \in 1 .. n}
           /\ InOrder(Payload(p, n), cut)
<1> USE DEF Payload
<1>1. Payload(p, n) \in Packets /\ Len(Payload(p, n)) = n
  BY DEF Packets, Words
<1>2. Payload(p, n) # << >>
  BY <1>1, EmptySeq
<1>3. Range(Payload(p, n)) = {<<p, i>> : i \in 1 .. n}
  BY DEF Range
<1>4. InOrder(Payload(p, n), cut)
  BY DEF InOrder, MayFollow, Before
<1>5. QED
  BY <1>1, <1>2, <1>3, <1>4

\* When two sequences one after the other are in order.
LEMMA InOrderConcat ==
    ASSUME NEW s \in Seq(Words), NEW t \in Seq(Words), NEW cut
    PROVE  InOrder(s \o t, cut) <=>
               /\ InOrder(s, cut) /\ InOrder(t, cut)
               /\ \A x \in Range(s), y \in Range(t) : MayFollow(y, x, cut)
<1> DEFINE both == s \o t
<1>1. /\ Len(s) \in Nat /\ Len(t) \in Nat
      /\ DOMAIN s = 1 .. Len(s) /\ DOMAIN t = 1 .. Len(t)
      /\ DOMAIN both = 1 .. Len(s) + Len(t)
  BY LenProperties, ConcatProperties
<1>2. \A i \in 1 .. Len(s) : i \in DOMAIN both /\ both[i] = s[i]
  BY <1>1, ConcatProperties
<1>3. \A i \in 1 .. Len(t) : /\ Len(s) + i \in DOMAIN both
                             /\ both[Len(s) + i] = t[i]
  BY <1>1, ConcatProperties
<1>4. \A i \in DOMAIN both : i \in 1 .. Len(s) \/ i - Len(s) \in 1 .. Len(t)
  BY <1>1
<1>5. /\ \A x : x \in Range(s) <=> \E i \in 1 .. Len(s) : x = s[i]
      /\ \A x : x \in Range(t) <=> \E i \in 1 .. Len(t) : x = t[i]
  BY <1>1 DEF Range
<1> HIDE DEF both
<1> DEFINE M(y, x) == MayFollow(y, x, cut)
<1> HIDE DEF M
<1>6. ASSUME \A i, j \in DOMAIN both : i < j => M(both[j], both[i])
      PROVE  /\ \A i, j \in 1 .. Len(s) : i < j => M(s[j], s[i])
             /\ \A i, j \in 1 .. Len(t) : i < j => M(t[j], t[i])
             /\ \A i \in 1 .. Len(s), j \in 1 .. Len(t) : M(t[j], s[i])
  <2>1. \A i, j \in 1 .. Len(s) : i < j => M(s[j], s[i])
    BY <1>2, <1>6
  <2>2. ASSUME NEW i \in 1 .. Len(t), NEW j \in 1 .. Len(t), i < j
        PROVE  M(t[j], t[i])
    <3>1. Len(s) + i < Len(s) + j
      BY <1>1, <2>2
    <3>2. QED
      BY <1>3, <1>6, <3>1
  <2>3. ASSUME NEW i \in 1 .. Len(s), NEW j \in 1 .. Len(t)
        PROVE  M(t[j], s[i])
    <3>1. i < Len(s) + j
      BY <1>1
    <3>2. QED
      BY <1>2, <1>3, <1>6, <3>1
  <2>4. QED
    BY <2>1, <2>2, <2>3
<1>7. ASSUME \A i, j \in 1 .. Len(s) : i < j => M(s[j], s[i]),
             \A i, j \in 1 .. Len(t) : i < j => M(t[j], t[i]),
             \A i \in 1 .. Len(s), j \in 1 .. Len(t) : M(t[j], s[i]),
             NEW i \in DOMAIN both, NEW j \in DOMAIN both, i < j
      PROVE  M(both[j], both[i])
  <2>1. CASE i \in 1 .. Len(s) /\ j \in 1 .. Len(s)
    BY <1>2, <1>7, <2>1
  <2>2. CASE i \in 1 .. Len(s) /\ j - Len(s) \in 1 .. Len(t)
    <3>1. both[Len(s) + (j - Len(s))] = t[j - Len(s)] /\ Len(s) + (j - Len(s)) = j
      BY <1>1, <1>3, <2>2
    <3>2. QED
      BY <1>2, <1>7, <2>2, <3>1
  <2>3. CASE i - Len(s) \in 1 .. Len(t) /\ j - Len(s) \in 1 .. Len(t)
    <3>1. both[Len(s) + (j - Len(s))] = t[j - Len(s)] /\ Len(s) + (j - Len(s)) = j
      BY <1>1, <1>3, <2>3
    <3>2. both[Len(s) + (i - Len(s))] = t[i - Len(s)] /\ Len(s) + (i - Len(s)) = i
      BY <1>1, <1>3, <2>3
    <3>3. i - Len(s) < j - Len(s)
      BY <1>1, <1>7
    <3>4. QED
      BY <1>7, <2>3, <3>1, <3>2, <3>3
  <2>4. ~(i - Len(s) \in 1 .. Len(t) /\ j \in 1 .. Len(s))
    BY <1>1, <1>7
  <2>5. QED
    BY <1>4, <2>1, <2>2, <2>3, <2>4
<1>8. InOrder(both, cut) <=> \A i, j \in DOMAIN both : i < j => M(both[j], both[i])
  BY DEF InOrder, M
<1>9. /\ InOrder(s, cut) <=> \A i, j \in 1 .. Len(s) : i < j => M(s[j], s[i])
      /\ InOrder(t, cut) <=> \A i, j \in 1 .. Len(t) : i < j => M(t[j], t[i])
  BY <1>1 DEF InOrder, M
<1>10. (\A x \in Range(s), y \in Range(t) : MayFollow(y, x, cut)) <=>
           \A i \in 1 .. Len(s), j \in 1 .. Len(t) : M(t[j], s[i])
  <2>1. \A i \in 1 .. Len(s) : s[i] \in Range(s)
    BY <1>5
  <2>2. \A i \in 1 .. Len(t) : t[i] \in Range(t)
    BY <1>5
  <2>3. \A x \in Range(s), y \in Range(t) :
            \E i \in 1 .. Len(s), j \in 1 .. Len(t) : x = s[i] /\ y = t[j]
    BY <1>5
  <2>4. ASSUME \A x \in Range(s), y \in Range(t) : MayFollow(y, x, cut)
        PROVE  \A i \in 1 .. Len(s), j \in 1 .. Len(t) : M(t[j], s[i])
    BY <2>1, <2>2, <2>4, Zenon DEF M
  <2>5. ASSUME \A i \in 1 .. Len(s), j \in 1 .. Len(t) : M(t[j], s[i]),
               NEW x \in Range(s), NEW y \in Range(t)
        PROVE  MayFollow(y, x, cut)
    <3>1. PICK i \in 1 .. Len(s), j \in 1 .. Len(t) : x = s[i] /\ y = t[j]
      BY <2>3, Zenon
    <3>2. M(t[j], s[i])
      BY <2>5, Zenon
    <3>3. QED
      BY <3>1, <3>2, Zenon DEF M
  <2>6. QED
    BY <2>4, <2>5, Zenon
<1>11. QED
  BY <1>6, <1>7, <1>8, <1>9, <1>10 DEF both

-----------------------------------------------------------------------------
(***************************************************************************)
(* What a step may do to the words that are in the queue or were sent: no  *)
(* more than one of four things.  Nothing.                                 *)
(***************************************************************************)
Stays == UNCHANGED <<queue, out, split, accepted, evicted, stats, stream>>

\* A batch of the whole packets a.
Takes(a, b) ==
    /\ Batched(queue, a, b)
    /\ out' = out \o Concat[a] /\ sending' = Concat[a] /\ queue' = b
    /\ UNCHANGED <<split, accepted, evicted, stats, stream>>

\* A batch of the packets a and the start u of the next.
TakesPart(a, b, u, v) ==
    /\ Cut(queue, a, b, u, v)
    /\ out' = out \o (Concat[a] \o u) /\ sending' = Concat[a] \o u
    /\ queue' = Append(b, v)
    /\ split' = split \cup {(u \o v)[1][1]}
    /\ UNCHANGED <<accepted, evicted, stats, stream>>

\* A packet of n words that joins the queue, the packets a being dropped.
Accepts(a, b, n) ==
    /\ queue = a \o b
    /\ Len(queue) <= EVENT_QUEUE_PACKETS => Len(b) < EVENT_QUEUE_PACKETS
    /\ queue' = Append(b, Payload(accepted', n))
    /\ accepted' = accepted + 1 /\ evicted' = evicted + Len(Concat[a])
    /\ stream = "result" => stats'.words = stats.words + n
    /\ UNCHANGED <<out, split, stream>>

\* What AcceptDatagram does is the last.
LEMMA AcceptMoves ==
    ASSUME BoardTypes, SenderTypes, ArrivalTypes, net # << >>,
           AcceptDatagram(Head(net)), UNCHANGED <<out, split, stream>>,
           stream = "result" => stats' = Counted(Head(net))
    PROVE  \E a, b \in Seq(Packets), n \in Sizes : Accepts(a, b, n)
<1>1. PICK n \in Sizes : n = Head(net).count
  BY HeadOfNet
<1>2. queue \in Seq(Packets)
  BY DEF SenderTypes, Packets
<1>3. PICK a, b \in Seq(Packets) :
          /\ queue = a \o b /\ MakeRoom(queue) = b
          /\ IF Len(queue) = EVENT_QUEUE_PACKETS THEN a = <<Head(queue)>>
                                                 ELSE a = << >>
          /\ Len(queue) <= EVENT_QUEUE_PACKETS => Len(b) < EVENT_QUEUE_PACKETS
  BY <1>2, RoomMade
<1>4. queue' = Append(b, Payload(accepted', n)) /\ accepted' = accepted + 1
  BY <1>1, <1>3 DEF AcceptDatagram, Enqueue
<1>5. evicted' = evicted + Len(Concat[a])
  <2>1. CASE Len(queue) = EVENT_QUEUE_PACKETS
    <3>1. queue # << >>
      BY <2>1, Constants
    <3>2. Concat[a] = Head(queue)
      BY <1>2, <1>3, <2>1, <3>1, TailOfQueue, ConcatSingle
    <3>3. QED
      BY <2>1, <3>2 DEF AcceptDatagram
  <2>2. CASE Len(queue) # EVENT_QUEUE_PACKETS
    BY <1>3, <2>2, ConcatNone DEF AcceptDatagram
  <2>3. QED
    BY <2>1, <2>2
<1>6. stream = "result" => stats'.words = stats.words + n
  BY <1>1 DEF Counted
<1>7. Accepts(a, b, n)
  BY <1>3, <1>4, <1>5, <1>6 DEF Accepts
<1>8. QED
  BY <1>7

\* And every step is one of the four.
LEMMA QueueMoves ==
    ASSUME BoardTypes, SenderTypes, ArrivalTypes, Len(queue) <= EVENT_QUEUE_PACKETS,
           [StreamNext]_streamVars
    PROVE  \/ Stays
           \/ FillBatch /\ \E a, b \in Seq(Packets) : Takes(a, b)
           \/ FillBatch /\ \E a, b \in Seq(Packets), u, v \in Packets :
                                TakesPart(a, b, u, v)
           \/ DatagramReceived /\ \E a, b \in Seq(Packets), n \in Sizes :
                                       Accepts(a, b, n)
<1>1. CASE DatagramReceived
  <2>1. CASE stream = "raw" /\ sockets = {}
    BY <1>1, <2>1 DEF DatagramReceived, Stays, streamRecord
  <2>2. CASE ~(stream = "raw" /\ sockets = {})
    <3>1. /\ net # << >> /\ AcceptDatagram(Head(net))
          /\ UNCHANGED <<out, split, stream>>
          /\ stream = "result" => stats' = Counted(Head(net))
      BY <1>1, <2>2 DEF DatagramReceived, streamRecord
    <3>2. QED
      BY <1>1, <3>1, AcceptMoves
  <2>3. QED
    BY <2>1, <2>2
<1>2. CASE FillBatch
  <2>1. queue # << >> /\ queue \in Seq(Packets)
    BY <1>2 DEF FillBatch, SenderTypes, Packets
  <2>2. /\ sending' = NextBatch(queue) /\ queue' = QueueAfter(queue)
        /\ out' = out \o sending'
        /\ UNCHANGED <<accepted, evicted, stats, stream>>
    BY <1>2 DEF FillBatch, arrival
  <2>3. split' = split \cup (IF Cuts(queue) THEN {FirstLeft(queue)[1][1]} ELSE {})
    BY <1>2 DEF FillBatch
  <2>4. CASE ~Cuts(queue)
    <3>1. PICK a, b \in Seq(Packets) : Batched(queue, a, b)
      BY <2>1, <2>4, BatchWhole
    <3>2. Takes(a, b)
      BY <2>2, <2>3, <2>4, <3>1 DEF Takes, Batched
    <3>3. QED
      BY <1>2, <3>2
  <2>5. CASE Cuts(queue)
    <3>1. PICK a, b \in Seq(Packets), u, v \in Packets : Cut(queue, a, b, u, v)
      BY <2>1, <2>5, BatchCuts
    <3>2. TakesPart(a, b, u, v)
      BY <2>2, <2>3, <2>5, <3>1 DEF TakesPart, Cut
    <3>3. QED
      BY <1>2, <3>2
  <2>6. QED
    BY <2>4, <2>5
<1>3. QED
  BY <1>1, <1>2, NextCases
  DEF Transfer, TransferFails, Renumber, Lose, Reorder, Duplicate, SendTo,
      SendFails, Sent, Subscribe, Unsubscribe, streamVars, arrival, streamRecord,
      Stays

\* Each keeps the queue and what was sent well typed.
LEMMA MoveTypes ==
    ASSUME SenderTypes, ArrivalTypes
    PROVE  /\ Stays => queue' \in Seq(Packets) /\ out' \in Packets
           /\ \A a, b \in Seq(Packets) : Takes(a, b) =>
                  queue' \in Seq(Packets) /\ out' \in Packets /\ sending' \in Packets
           /\ \A a, b \in Seq(Packets), u, v \in Packets : TakesPart(a, b, u, v) =>
                  queue' \in Seq(Packets) /\ out' \in Packets /\ sending' \in Packets
           /\ \A a, b \in Seq(Packets), n \in Sizes : Accepts(a, b, n) =>
                  queue' \in Seq(Packets) /\ out' \in Packets
<1>1. queue \in Seq(Packets) /\ out \in Packets
  BY DEF Packets, SenderTypes
<1>2. Stays => queue' \in Seq(Packets) /\ out' \in Packets
  BY <1>1 DEF Stays
<1>3. ASSUME NEW a \in Seq(Packets), NEW b \in Seq(Packets), Takes(a, b)
      PROVE  queue' \in Seq(Packets) /\ out' \in Packets /\ sending' \in Packets
  <2>1. Concat[a] \in Seq(Words)
    BY ConcatType DEF Packets
  <2>2. QED
    BY <1>1, <1>3, <2>1, ConcatProperties DEF Takes, Packets
<1>4. ASSUME NEW a \in Seq(Packets), NEW b \in Seq(Packets), NEW u \in Packets,
             NEW v \in Packets, TakesPart(a, b, u, v)
      PROVE  queue' \in Seq(Packets) /\ out' \in Packets /\ sending' \in Packets
  <2>1. PICK c \in Seq(Words) : c = Concat[a]
    BY ConcatType DEF Packets
  <2>2. c \o u \in Seq(Words)
    BY ConcatProperties DEF Packets
  <2>3. out' = out \o (c \o u) /\ sending' = c \o u /\ queue' = Append(b, v)
    BY <1>4, <2>1 DEF TakesPart
  <2>4. Append(b, v) \in Seq(Packets)
    BY AppendProperties
  <2>5. out \o (c \o u) \in Seq(Words)
    BY <1>1, <2>2, ConcatProperties DEF Packets
  <2>6. QED
    BY <2>2, <2>3, <2>4, <2>5 DEF Packets
<1>5. ASSUME NEW a \in Seq(Packets), NEW b \in Seq(Packets), NEW n \in Sizes,
             Accepts(a, b, n)
      PROVE  queue' \in Seq(Packets) /\ out' \in Packets
  <2>1. accepted' \in Nat /\ n \in Nat \ {0}
    <3>1. accepted' = accepted + 1
      BY <1>5, Zenon DEF Accepts
    <3>2. QED
      BY <3>1, Constants, CountersTyped
  <2>2. Payload(accepted', n) \in Packets
    BY <2>1, PayloadWords
  <2>3. QED
    BY <1>1, <1>5, <2>2, AppendProperties DEF Accepts, Packets
<1>6. QED
  BY <1>2, <1>3, <1>4, <1>5

\* So every step keeps the sender well typed, and what the clients have.
LEMMA SenderTypesStep ==
    ASSUME BoardTypes, SenderTypes, ArrivalTypes, Len(queue) <= EVENT_QUEUE_PACKETS,
           BatchIsLast, [StreamNext]_streamVars
    PROVE  SenderTypes'
<1>1. queue' \in Seq(Packets) /\ out' \in Packets
  BY QueueMoves, MoveTypes
<1>2. queue' \in Seq(Seq(Words)) /\ out' \in Seq(Words)
  BY <1>1 DEF Packets
<1>3. /\ sending \in Seq(Words) /\ Len(sending) \in Nat /\ Len(out) \in Nat
      /\ << >> \in Seq(Words)
  BY LenProperties, EmptySeq DEF SenderTypes
<1>4. CASE FillBatch
  <2>1. sending' \in Seq(Words)
    <3>1. (FillBatch => out' = out \o sending') /\ queue # << >>
      BY <1>4 DEF FillBatch
    <3>2. queue \in Seq(Packets) /\ sending' = NextBatch(queue)
      BY <1>4 DEF FillBatch, SenderTypes, Packets
    <3>3. NextBatch(queue) \in Seq(Words)
      <4>1. CASE \E a, b \in Seq(Packets) : Batched(queue, a, b)
        BY <4>1, ConcatType DEF Batched, Packets
      <4>2. ASSUME NEW a \in Seq(Packets), NEW b \in Seq(Packets),
                   NEW u \in Packets, NEW v \in Packets, Cut(queue, a, b, u, v)
            PROVE  NextBatch(queue) \in Seq(Words)
        <5>1. PICK c \in Seq(Words) : c = Concat[a]
          BY ConcatType DEF Packets
        <5>2. QED
          BY <4>2, <5>1, ConcatProperties DEF Cut, Packets
      <4>3. QED
        BY <3>1, <3>2, <4>1, <4>2, BatchCases
    <3>4. QED
      BY <3>2, <3>3
  <2>2. QED
    BY <1>2, <1>4, <2>1 DEF FillBatch, SenderTypes
<1>5. CASE \E c \in Clients : SendTo(c)
  <2>1. PICK c \in Clients : SendTo(c)
    BY <1>5
  <2>2. got' \in [Clients -> Seq(Words)]
    <3>1. got[c] \o sending \in Seq(Words)
      BY <1>3, ConcatProperties DEF SenderTypes
    <3>2. QED
      BY <2>1, <3>1 DEF SendTo, SenderTypes
  <2>3. QED
    BY <1>2, <2>1, <2>2 DEF SendTo, SenderTypes
<1>6. CASE \E c \in Clients : SendFails(c)
  BY <1>2, <1>6 DEF SendFails, SenderTypes, streamRecord
<1>7. CASE Sent
  BY <1>2, <1>3, <1>7 DEF Sent, StillSubscribed, Forget, SenderTypes
<1>8. CASE \E c \in Clients : Subscribe(c)
  <2>1. PICK c \in Clients : Subscribe(c)
    BY <1>8
  <2>2. Len(out) - (IF c \in todo THEN Len(sending) ELSE 0) \in Nat
    BY <1>3 DEF BatchIsLast
  <2>3. since' \in [Clients -> Nat]
    BY <2>1, <2>2 DEF Subscribe, SenderTypes
  <2>4. QED
    BY <1>2, <2>1, <2>3 DEF Subscribe, SenderTypes, sender
<1>9. CASE \E c \in Clients : Unsubscribe(c)
  BY <1>2, <1>3, <1>9 DEF Unsubscribe, Forget, SenderTypes, sender
<1>10. CASE UNCHANGED <<sending, todo, dead, sockets, got, since>>
  BY <1>2, <1>10 DEF SenderTypes
<1>11. QED
  BY <1>4, <1>5, <1>6, <1>7, <1>8, <1>9, <1>10, NextCases
  DEF Transfer, TransferFails, Renumber, Lose, Reorder, Duplicate,
      DatagramReceived, streamVars, sender, streamRecord

-----------------------------------------------------------------------------
(***************************************************************************)
(* The words that are inside: those sent, then those queued.  A batch of   *)
(* whole packets moves them from one to the other.                         *)
(***************************************************************************)
LEMMA InsideTaken ==
    ASSUME SenderTypes, NEW a \in Seq(Packets), NEW b \in Seq(Packets), Takes(a, b)
    PROVE  Inside' = Inside
<1>1. PICK x \in Seq(Words), y \in Seq(Words) : x = Concat[a] /\ y = Concat[b]
  BY ConcatType DEF Packets
<1>2. out \in Seq(Words)
  BY DEF SenderTypes
<1>3. Concat[queue] = x \o y /\ out' = out \o x /\ Concat[queue'] = y
  BY <1>1, ConcatOfBoth DEF Takes, Batched
<1>4. (out \o x) \o y = out \o (x \o y)
  BY <1>2, ConcatAssociative
<1>5. QED
  BY <1>3, <1>4 DEF Inside

\* Associativity under a name, so that it is used for the words one means.
Assoc(x, y, z) == (x \o y) \o z = x \o (y \o z)

\* It holds of all words.
LEMMA Associative ==
    \A x, y, z \in Seq(Words) : Assoc(x, y, z)
  BY ConcatAssociative DEF Assoc

\* The same for the five parts of what is inside when a packet is cut.
Regroup(o, x, u, v, t) ==
    o \o ((x \o (u \o v)) \o t) = (o \o (x \o u)) \o (v \o t)

\* And this holds as well.
LEMMA Regrouped ==
    \A o, x, u, v, t \in Seq(Words) : Regroup(o, x, u, v, t)
<1> SUFFICES ASSUME NEW o \in Seq(Words), NEW x \in Seq(Words), NEW u \in Seq(Words),
                    NEW v \in Seq(Words), NEW t \in Seq(Words)
             PROVE  Regroup(o, x, u, v, t)
  BY Zenon
<1>1. PICK xu \in Seq(Words) : xu = x \o u
  BY ConcatProperties
<1>2. PICK vt \in Seq(Words) : vt = v \o t
  BY ConcatProperties
<1>3. Assoc(x, u, v) /\ Assoc(xu, v, t) /\ Assoc(o, xu, vt)
  BY Associative, Zenon
<1>4. o \o ((x \o (u \o v)) \o t) = (o \o xu) \o vt
  <2>1. x \o (u \o v) = xu \o v
    BY <1>1, <1>3, Zenon DEF Assoc
  <2>2. (xu \o v) \o t = xu \o vt
    BY <1>2, <1>3, Zenon DEF Assoc
  <2>3. o \o (xu \o vt) = (o \o xu) \o vt
    BY <1>3, Zenon DEF Assoc
  <2>4. QED
    BY <2>1, <2>2, <2>3, Zenon
<1>5. QED
  BY <1>1, <1>2, <1>4, Zenon DEF Regroup

\* A batch that cuts a packet puts its rest v behind the other packets t.
LEMMA InsideCut ==
    ASSUME SenderTypes, NEW a \in Seq(Packets), NEW b \in Seq(Packets),
           NEW u \in Packets, NEW v \in Packets, TakesPart(a, b, u, v)
    PROVE  \E o, t \in Seq(Words) :
               /\ t = Concat[b] /\ o = out'
               /\ Inside = o \o (v \o t) /\ Inside' = o \o (t \o v)
<1>1. PICK x \in Seq(Words), t \in Seq(Words) : x = Concat[a] /\ t = Concat[b]
  BY ConcatType DEF Packets
<1>2. out \in Seq(Words) /\ u \in Seq(Words) /\ v \in Seq(Words)
  BY DEF SenderTypes, Packets
<1>3. PICK uv \in Seq(Words) : uv = u \o v
  BY <1>2, ConcatProperties
<1>4. PICK o \in Seq(Words) : o = out \o (x \o u)
  <2>1. x \o u \in Seq(Words)
    BY <1>2, ConcatProperties
  <2>2. QED
    BY <1>2, <2>1, ConcatProperties
<1>5. out' = o /\ queue' = Append(b, v) /\ queue = (a \o <<uv>>) \o b
  BY <1>1, <1>3, <1>4 DEF TakesPart, Cut
<1>6. Concat[queue'] = t \o v
  BY <1>1, <1>5, ConcatAppend
<1>7. Concat[queue] = (x \o uv) \o t
  <2>1. uv \in Packets /\ <<uv>> \in Seq(Packets)
    BY DEF Packets
  <2>2. PICK au \in Seq(Packets) : au = a \o <<uv>>
    BY <2>1, ConcatProperties
  <2>3. Concat[au] = x \o uv
    BY <1>1, <2>1, <2>2, ConcatOfBoth, ConcatSingle
  <2>4. QED
    BY <1>1, <1>5, <2>2, <2>3, ConcatOfBoth
<1>8. out \o ((x \o (u \o v)) \o t) = (out \o (x \o u)) \o (v \o t)
  <2>1. Regroup(out, x, u, v, t)
    BY <1>2, Regrouped, Zenon
  <2>2. QED
    BY <2>1 DEF Regroup
<1>9. Inside = o \o (v \o t) /\ Inside' = o \o (t \o v)
  BY <1>3, <1>4, <1>5, <1>6, <1>7, <1>8 DEF Inside
<1>10. QED
  BY <1>1, <1>5, <1>9

\* A packet that joins puts z at the end, the dropped words x leave.
LEMMA InsideAccepted ==
    ASSUME SenderTypes, ArrivalTypes, NEW a \in Seq(Packets), NEW b \in Seq(Packets),
           NEW n \in Sizes, Accepts(a, b, n)
    PROVE  \E x, y, z \in Seq(Words) :
               /\ x = Concat[a] /\ y = Concat[b] /\ z = Payload(accepted + 1, n)
               /\ Inside = out \o (x \o y) /\ Inside' = out \o (y \o z)
<1>1. PICK x \in Seq(Words), y \in Seq(Words) : x = Concat[a] /\ y = Concat[b]
  BY ConcatType DEF Packets
<1>2. accepted + 1 \in Nat /\ n \in Nat \ {0}
  BY Constants DEF ArrivalTypes
<1>3. PICK z \in Packets : z = Payload(accepted + 1, n)
  BY <1>2, PayloadWords
<1>4. Concat[queue] = x \o y /\ Concat[queue'] = y \o z /\ out' = out
  BY <1>1, <1>3, ConcatOfBoth, ConcatAppend DEF Accepts
<1>5. z \in Seq(Words)
  BY DEF Packets
<1>6. QED
  BY <1>1, <1>3, <1>4, <1>5 DEF Inside

\* The words of three sequences are those of each.
LEMMA RangeOfThree ==
    ASSUME NEW S, NEW x \in Seq(S), NEW y \in Seq(S), NEW z \in Seq(S)
    PROVE  Range(x \o (y \o z)) = Range(x) \cup (Range(y) \cup Range(z))
<1>1. PICK yz \in Seq(S) : yz = y \o z
  BY ConcatProperties
<1>2. Range(yz) = Range(y) \cup Range(z)
  BY <1>1, RangeConcatenation
<1>3. Range(x \o yz) = Range(x) \cup Range(yz)
  BY RangeConcatenation
<1>4. QED
  BY <1>1, <1>2, <1>3

\* The packet that is cut is one that was inside: its first word is sent.
LEMMA CutWord ==
    ASSUME SenderTypes, NEW a \in Seq(Packets), NEW b \in Seq(Packets),
           NEW u \in Packets, NEW v \in Packets, TakesPart(a, b, u, v)
    PROVE  /\ (u \o v)[1] = u[1] /\ u[1] \in Range(u)
           /\ Range(u) \subseteq Range(out')
           /\ Range(out) \subseteq Range(out')
<1>1. PICK x \in Seq(Words) : x = Concat[a]
  BY ConcatType DEF Packets
<1>2. out \in Seq(Words) /\ u \in Seq(Words) /\ v \in Seq(Words) /\ u # << >>
  BY DEF SenderTypes, Packets, TakesPart, Cut
<1>3. Len(u) \in Nat \ {0} /\ Len(v) \in Nat /\ DOMAIN u = 1 .. Len(u)
  BY <1>2, EmptySeq, LenProperties
<1>4. (u \o v)[1] = u[1]
  BY <1>2, <1>3, ConcatProperties
<1>5. u[1] \in Range(u)
  BY <1>3 DEF Range
<1>6. out' = out \o (x \o u)
  BY <1>1 DEF TakesPart
<1>7. Range(out \o (x \o u)) = Range(out) \cup (Range(x) \cup Range(u))
  BY <1>2, RangeOfThree
<1>8. QED
  BY <1>4, <1>5, <1>6, <1>7

\* What is inside after a step is what was, or words of the new packet.
LEMMA InsideRange ==
    ASSUME BoardTypes, ArrivalTypes, SenderTypes, WordTypes, [StreamNext]_streamVars
    PROVE  /\ accepted' \in Nat /\ accepted <= accepted'
           /\ Range(Inside') \subseteq StreamWord'
           /\ split' \subseteq 1 .. accepted'
<1>1. /\ accepted \in Nat /\ Range(Inside) \subseteq StreamWord
      /\ split \subseteq 1 .. accepted /\ Len(queue) <= EVENT_QUEUE_PACKETS
      /\ out \in Seq(Words)
  BY DEF ArrivalTypes, WordTypes, SenderTypes
<1>2. CASE Inside' = Inside /\ accepted' = accepted /\ split' = split
  BY <1>1, <1>2 DEF StreamWord
<1>3. ASSUME NEW a \in Seq(Packets), NEW b \in Seq(Packets), NEW u \in Packets,
             NEW v \in Packets, TakesPart(a, b, u, v)
      PROVE  /\ accepted' = accepted /\ Range(Inside') = Range(Inside)
             /\ split' \subseteq 1 .. accepted
  <2>1. PICK o \in Seq(Words), t \in Seq(Words) :
            Inside = o \o (v \o t) /\ Inside' = o \o (t \o v) /\ o = out'
    BY <1>3, InsideCut, Zenon
  <2>2. v \in Seq(Words) /\ u \in Seq(Words)
    BY DEF Packets
  <2>3. /\ Range(o \o (v \o t)) = Range(o) \cup (Range(v) \cup Range(t))
        /\ Range(o \o (t \o v)) = Range(o) \cup (Range(t) \cup Range(v))
    BY <2>2, RangeOfThree
  <2>4. Range(Inside') = Range(Inside) /\ Range(out') \subseteq Range(Inside)
    BY <2>1, <2>3
  <2>5. (u \o v)[1] = u[1] /\ u[1] \in Range(u) /\ Range(u) \subseteq Range(out')
    BY <1>3, CutWord
  <2>6. (u \o v)[1] \in Range(Inside)
    BY <2>4, <2>5
  <2>7. (u \o v)[1][1] \in 1 .. accepted
    BY <1>1, <2>6 DEF StreamWord
  <2>8. QED
    BY <1>1, <1>3, <2>4, <2>7 DEF TakesPart
<1>4. ASSUME NEW a \in Seq(Packets), NEW b \in Seq(Packets), NEW n \in Sizes,
             Accepts(a, b, n)
      PROVE  /\ accepted' = accepted + 1 /\ split' = split
             /\ Range(Inside') \subseteq
                    Range(Inside) \cup {<<accepted + 1, i>> : i \in 1 .. n}
  <2>1. PICK x \in Seq(Words), y \in Seq(Words), z \in Seq(Words) :
            /\ z = Payload(accepted + 1, n)
            /\ Inside = out \o (x \o y) /\ Inside' = out \o (y \o z)
    <3>1. \E x, y, z \in Seq(Words) :
              /\ x = Concat[a] /\ y = Concat[b] /\ z = Payload(accepted + 1, n)
              /\ Inside = out \o (x \o y) /\ Inside' = out \o (y \o z)
      BY <1>4, InsideAccepted
    <3>2. QED
      BY <3>1
  <2>2. accepted + 1 \in Nat /\ n \in Nat \ {0}
    BY <1>1, Constants
  <2>3. Range(z) = {<<accepted + 1, i>> : i \in 1 .. n}
    BY <2>1, <2>2, PayloadWords
  <2>4. /\ Range(out \o (x \o y)) = Range(out) \cup (Range(x) \cup Range(y))
        /\ Range(out \o (y \o z)) = Range(out) \cup (Range(y) \cup Range(z))
    BY <1>1, RangeOfThree
  <2>5. QED
    BY <1>4, <2>1, <2>3, <2>4 DEF Accepts
<1>5. ASSUME NEW n \in Sizes
      PROVE  {<<accepted + 1, i>> : i \in 1 .. n}
                 \subseteq (1 .. accepted + 1) \X UNION {1 .. m : m \in Sizes}
  BY <1>1
<1>6. StreamWord \subseteq (1 .. accepted + 1) \X UNION {1 .. m : m \in Sizes}
  BY <1>1 DEF StreamWord
<1>7. CASE \E a, b \in Seq(Packets), n \in Sizes : Accepts(a, b, n)
  <2>1. PICK n \in Sizes :
            /\ accepted' = accepted + 1 /\ split' = split
            /\ Range(Inside') \subseteq
                   Range(Inside) \cup {<<accepted + 1, i>> : i \in 1 .. n}
    BY <1>4, <1>7
  <2>2. Range(Inside') \subseteq (1 .. accepted + 1) \X UNION {1 .. m : m \in Sizes}
    BY <1>1, <1>5, <1>6, <2>1
  <2>3. accepted + 1 \in Nat /\ split' \subseteq 1 .. accepted + 1
    BY <1>1, <2>1
  <2>4. QED
    BY <1>1, <2>1, <2>2, <2>3 DEF StreamWord
<1>8. CASE \E a, b \in Seq(Packets), u, v \in Packets : TakesPart(a, b, u, v)
  BY <1>1, <1>3, <1>8 DEF StreamWord
<1>9. CASE \E a, b \in Seq(Packets) : Takes(a, b)
  <2>1. Inside' = Inside /\ accepted' = accepted /\ split' = split
    BY <1>9, InsideTaken DEF Takes
  <2>2. QED
    BY <1>2, <2>1
<1>10. CASE Stays
  BY <1>2, <1>10 DEF Stays, Inside
<1>11. QED
  BY <1>1, <1>7, <1>8, <1>9, <1>10, QueueMoves

\* So every word inside is of an accepted packet, and the queue is not
\* longer than it may be and has no empty packet.
LEMMA WordTypesStep ==
    ASSUME BoardTypes, ArrivalTypes, SenderTypes, WordTypes, [StreamNext]_streamVars
    PROVE  WordTypes'
<1>1. /\ queue \in Seq(Packets) /\ Len(queue) <= EVENT_QUEUE_PACKETS
      /\ \A i \in DOMAIN queue : queue[i] # << >>
      /\ Len(queue) \in Nat /\ EVENT_QUEUE_PACKETS \in Nat \ {0}
      /\ DOMAIN queue = 1 .. Len(queue)
  BY LenProperties, Constants DEF SenderTypes, WordTypes, Packets
<1> DEFINE Good(q) == /\ Len(q) <= EVENT_QUEUE_PACKETS
                      /\ \A i \in DOMAIN q : q[i] # << >>
<1>2. ASSUME NEW b \in Seq(Packets), NEW p \in Packets, p # << >>, Good(b),
             Len(b) < EVENT_QUEUE_PACKETS
      PROVE  Good(Append(b, p))
  <2>1. Len(b) \in Nat /\ DOMAIN b = 1 .. Len(b)
    BY LenProperties
  <2>2. /\ Append(b, p) \in Seq(Packets) /\ Len(Append(b, p)) = Len(b) + 1
        /\ DOMAIN Append(b, p) = 1 .. Len(b) + 1
        /\ \A i \in 1 .. Len(b) : Append(b, p)[i] = b[i]
        /\ Append(b, p)[Len(b) + 1] = p
    BY AppendProperties, LenProperties
  <2>3. QED
    BY <1>1, <1>2, <2>1, <2>2
<1>3. ASSUME NEW a \in Seq(Packets), NEW b \in Seq(Packets), queue = a \o b
      PROVE  Good(b) /\ Len(b) <= Len(queue)
  <2>1. Len(a) \in Nat /\ Len(b) \in Nat /\ DOMAIN b = 1 .. Len(b)
    BY LenProperties
  <2>2. Len(queue) = Len(a) + Len(b)
    BY <1>3, ConcatProperties
  <2>3. ASSUME NEW i \in 1 .. Len(b)
        PROVE  b[i] # << >>
    <3>1. Len(a) + i \in 1 .. Len(a) + Len(b) /\ ~(Len(a) + i <= Len(a))
      BY <2>1
    <3>2. queue[Len(a) + i] = b[(Len(a) + i) - Len(a)]
      BY <1>3, <3>1, ConcatProperties
    <3>3. (Len(a) + i) - Len(a) = i
      BY <2>1
    <3>4. QED
      BY <1>1, <2>2, <3>1, <3>2, <3>3
  <2>4. QED
    BY <1>1, <2>1, <2>2, <2>3
<1>4. ASSUME NEW a \in Seq(Packets), NEW b \in Seq(Packets), NEW u \in Packets,
             NEW v \in Packets, TakesPart(a, b, u, v)
      PROVE  Good(queue')
  <2>1. PICK c \in Packets : c = u \o v
    BY ConcatProperties DEF Packets
  <2>2. PICK d \in Seq(Packets) : d = a \o <<c>>
    <3>1. <<c>> \in Seq(Packets)
      OBVIOUS
    <3>2. QED
      BY <3>1, ConcatProperties
  <2>3. queue = d \o b /\ v # << >> /\ queue' = Append(b, v)
    BY <1>4, <2>1, <2>2 DEF TakesPart, Cut
  <2>4. Len(d) \in Nat \ {0} /\ Len(b) \in Nat /\ Len(queue) = Len(d) + Len(b)
    <3>1. d # << >>
      BY <2>2, ConcatEqualIffEmpty
    <3>2. QED
      BY <2>3, <3>1, EmptySeq, LenProperties, ConcatProperties
  <2>5. Good(b) /\ Len(b) < EVENT_QUEUE_PACKETS
    <3>1. Good(b)
      BY <1>3, <2>3
    <3>2. Len(b) < EVENT_QUEUE_PACKETS
      BY <1>1, <2>4
    <3>3. QED
      BY <3>1, <3>2
  <2> HIDE DEF Good
  <2>6. QED
    BY <1>2, <2>3, <2>5
<1>5. ASSUME NEW a \in Seq(Packets), NEW b \in Seq(Packets), NEW n \in Sizes,
             Accepts(a, b, n)
      PROVE  Good(queue')
  <2>1. /\ queue = a \o b /\ Len(b) < EVENT_QUEUE_PACKETS
        /\ queue' = Append(b, Payload(accepted + 1, n))
    BY <1>1, <1>5 DEF Accepts
  <2>2. accepted + 1 \in Nat /\ n \in Nat \ {0}
    BY Constants DEF ArrivalTypes
  <2>3. Payload(accepted + 1, n) \in Packets /\ Payload(accepted + 1, n) # << >>
    BY <2>2, PayloadWords
  <2>4. Good(b)
    BY <1>3, <2>1
  <2> HIDE DEF Good
  <2>5. QED
    BY <1>2, <2>1, <2>3, <2>4
<1>6. Stays => Good(queue')
  BY <1>1 DEF Stays
<1>7. ASSUME NEW a \in Seq(Packets), NEW b \in Seq(Packets), Takes(a, b)
      PROVE  Good(queue')
  <2>1. queue = a \o b /\ queue' = b
    BY <1>7 DEF Takes, Batched
  <2> HIDE DEF Good
  <2>2. QED
    BY <1>3, <2>1
<1>8. Good(queue')
  <2> HIDE DEF Good
  <2>1. QED
    BY <1>1, <1>4, <1>5, <1>6, <1>7, QueueMoves
<1>9. QED
  BY <1>8, InsideRange DEF WordTypes

-----------------------------------------------------------------------------
(***************************************************************************)
(* The order of the words inside.  All of t may follow all of s.           *)
(***************************************************************************)
Follows(t, s, cut) == \A x \in Range(s), y \in Range(t) : MayFollow(y, x, cut)

\* When three sequences one after the other are in order.
LEMMA InOrderOfThree ==
    ASSUME NEW x \in Seq(Words), NEW y \in Seq(Words), NEW z \in Seq(Words), NEW cut
    PROVE  InOrder(x \o (y \o z), cut) <=>
               /\ InOrder(x, cut) /\ InOrder(y, cut) /\ InOrder(z, cut)
               /\ Follows(y, x, cut) /\ Follows(z, x, cut) /\ Follows(z, y, cut)
<1>1. PICK yz \in Seq(Words) : yz = y \o z
  BY ConcatProperties
<1>2. InOrder(yz, cut) <=> InOrder(y, cut) /\ InOrder(z, cut) /\ Follows(z, y, cut)
  BY <1>1, InOrderConcat DEF Follows
<1>3. InOrder(x \o yz, cut) <=> InOrder(x, cut) /\ InOrder(yz, cut) /\ Follows(yz, x, cut)
  BY InOrderConcat DEF Follows
<1>4. Range(yz) = Range(y) \cup Range(z)
  BY <1>1, RangeConcatenation
<1>5. Follows(yz, x, cut) <=> Follows(y, x, cut) /\ Follows(z, x, cut)
  BY <1>4 DEF Follows
<1>6. QED
  BY <1>1, <1>2, <1>3, <1>5

\* What is in order stays so when more packets are cut.
LEMMA CutMore ==
    ASSUME NEW cut, NEW more, cut \subseteq more, NEW s, NEW t
    PROVE  /\ InOrder(s, cut) => InOrder(s, more)
           /\ Follows(t, s, cut) => Follows(t, s, more)
  BY DEF InOrder, Follows, MayFollow

\* A word is a pair of numbers: the packet, and the place in it.
LEMMA RangeWords ==
    ASSUME NEW s \in Seq(Words), NEW x \in Range(s)
    PROVE  x[1] \in Nat /\ x[2] \in Nat
<1>1. Range(s) \subseteq Words
  BY RangeOfSeq
<1>2. x \in Nat \X Nat
  BY <1>1 DEF Words
<1>3. QED
  BY <1>2

\* A queue apart stays so behind its first packets, and has none of theirs.
LEMMA ApartBehind ==
    ASSUME NEW d \in Seq(Packets), NEW b \in Seq(Packets), Apart(d \o b)
    PROVE  /\ Apart(b)
           /\ \A i \in DOMAIN d : /\ \A x, y \in Range(d[i]) : x[1] = y[1]
                                  /\ \A x \in Range(d[i]), y \in Range(Concat[b]) :
                                         x[1] # y[1]
<1> DEFINE q == d \o b
<1>1. /\ Len(d) \in Nat /\ Len(b) \in Nat
      /\ DOMAIN d = 1 .. Len(d) /\ DOMAIN b = 1 .. Len(b)
      /\ DOMAIN q = 1 .. Len(d) + Len(b)
  BY LenProperties, ConcatProperties
<1>2. \A i \in 1 .. Len(d) : i \in DOMAIN q /\ q[i] = d[i]
  BY <1>1, ConcatProperties
<1>3. \A i \in 1 .. Len(b) : Len(d) + i \in DOMAIN q /\ q[Len(d) + i] = b[i]
  BY <1>1, ConcatProperties
<1>4. \A i, j \in DOMAIN q : \A x \in Range(q[i]), y \in Range(q[j]) :
          x[1] = y[1] <=> i = j
  BY DEF Apart
<1> HIDE DEF q
<1>5. Apart(b)
  <2>1. ASSUME NEW i \in 1 .. Len(b), NEW j \in 1 .. Len(b),
               NEW x \in Range(b[i]), NEW y \in Range(b[j])
        PROVE  x[1] = y[1] <=> i = j
    <3>1. Len(d) + i = Len(d) + j <=> i = j
      BY <1>1
    <3>2. x \in Range(q[Len(d) + i]) /\ y \in Range(q[Len(d) + j])
      BY <1>3
    <3>3. QED
      BY <1>3, <1>4, <3>1, <3>2
  <2>2. QED
    BY <1>1, <2>1 DEF Apart
<1>6. ASSUME NEW i \in DOMAIN d, NEW x \in Range(d[i]), NEW y \in Range(d[i])
      PROVE  x[1] = y[1]
  BY <1>1, <1>2, <1>4
<1>7. ASSUME NEW i \in DOMAIN d, NEW x \in Range(d[i]), NEW y \in Range(Concat[b])
      PROVE  x[1] # y[1]
  <2>1. PICK j \in 1 .. Len(b) : y \in Range(b[j])
    BY <1>1, ConcatRange
  <2>2. i # Len(d) + j
    BY <1>1
  <2>3. x \in Range(q[i]) /\ y \in Range(q[Len(d) + j])
    BY <1>1, <1>2, <1>3, <2>1
  <2>4. QED
    BY <1>1, <1>2, <1>3, <1>4, <2>2, <2>3
<1>8. QED
  BY <1>5, <1>6, <1>7

\* A packet of words of its own may join it.
LEMMA ApartAppend ==
    ASSUME NEW b \in Seq(Packets), NEW p \in Packets, Apart(b),
           \A x, y \in Range(p) : x[1] = y[1],
           \A x \in Range(p), y \in Range(Concat[b]) : x[1] # y[1]
    PROVE  Apart(Append(b, p))
<1> DEFINE q == Append(b, p)
<1>1. /\ Len(b) \in Nat /\ DOMAIN b = 1 .. Len(b) /\ DOMAIN q = 1 .. Len(b) + 1
      /\ \A i \in 1 .. Len(b) : q[i] = b[i]
      /\ q[Len(b) + 1] = p
  BY LenProperties, AppendProperties
<1>2. \A i \in 1 .. Len(b) : \A y \in Range(b[i]) : y \in Range(Concat[b])
  BY <1>1, ConcatRange
<1> HIDE DEF q
<1>3. ASSUME NEW i \in DOMAIN q, NEW j \in DOMAIN q,
             NEW x \in Range(q[i]), NEW y \in Range(q[j])
      PROVE  x[1] = y[1] <=> i = j
  <2>1. CASE i \in 1 .. Len(b) /\ j \in 1 .. Len(b)
    BY <1>1, <2>1 DEF Apart
  <2>2. CASE i = Len(b) + 1 /\ j = Len(b) + 1
    BY <1>1, <2>2
  <2>3. CASE i \in 1 .. Len(b) /\ j = Len(b) + 1
    <3>1. x \in Range(Concat[b]) /\ y \in Range(p) /\ i # j
      BY <1>1, <1>2, <2>3
    <3>2. QED
      BY <3>1
  <2>4. CASE i = Len(b) + 1 /\ j \in 1 .. Len(b)
    <3>1. y \in Range(Concat[b]) /\ x \in Range(p) /\ i # j
      BY <1>1, <1>2, <2>4
    <3>2. QED
      BY <3>1
  <2>5. QED
    BY <1>1, <2>1, <2>2, <2>3, <2>4
<1>4. QED
  BY <1>3 DEF Apart, q

\* The rest of a cut packet goes behind the others: these may overtake it.
LEMMA OrderCut ==
    ASSUME SenderTypes, Apart(queue), InOrder(Inside, split),
           NEW a \in Seq(Packets), NEW b \in Seq(Packets),
           NEW u \in Packets, NEW v \in Packets, TakesPart(a, b, u, v)
    PROVE  Apart(queue') /\ InOrder(Inside', split')
<1>1. PICK f \in Packets : f = u \o v
  BY ConcatProperties DEF Packets
<1>2. PICK d \in Seq(Packets) : d = a \o <<f>>
  <2>1. <<f>> \in Seq(Packets)
    OBVIOUS
  <2>2. QED
    BY <2>1, ConcatProperties
<1>3. Apart(d \o b)
  BY <1>1, <1>2 DEF TakesPart, Cut
<1>4. Len(a) + 1 \in DOMAIN d /\ d[Len(a) + 1] = f
  <2>1. d = Append(a, f)
    BY <1>2, AppendIsConcat
  <2>2. Len(a) \in Nat /\ Len(d) = Len(a) + 1 /\ DOMAIN d = 1 .. Len(d)
        /\ d[Len(a) + 1] = f
    BY <2>1, LenProperties, AppendProperties
  <2>3. QED
    BY <2>2
<1>5. /\ Apart(b)
      /\ \A x, y \in Range(f) : x[1] = y[1]
      /\ \A x \in Range(f), y \in Range(Concat[b]) : x[1] # y[1]
  BY <1>3, <1>4, ApartBehind
<1>6. Range(f) = Range(u) \cup Range(v) /\ u \in Seq(Words) /\ v \in Seq(Words)
  BY <1>1, RangeConcatenation DEF Packets
<1>7. Apart(Append(b, v))
  BY <1>5, <1>6, ApartAppend
<1>8. Apart(queue')
  BY <1>7 DEF TakesPart
<1>9. PICK o \in Seq(Words), t \in Seq(Words) :
          /\ t = Concat[b] /\ o = out'
          /\ Inside = o \o (v \o t) /\ Inside' = o \o (t \o v)
  BY InsideCut, Zenon
<1>10. /\ InOrder(o, split) /\ InOrder(v, split) /\ InOrder(t, split)
       /\ Follows(v, o, split) /\ Follows(t, o, split) /\ Follows(t, v, split)
  BY <1>6, <1>9, InOrderOfThree
<1>11. split \subseteq split' /\ f[1][1] \in split'
  BY <1>1 DEF TakesPart
<1>12. /\ InOrder(o, split') /\ InOrder(v, split') /\ InOrder(t, split')
       /\ Follows(v, o, split') /\ Follows(t, o, split')
  BY <1>10, <1>11, CutMore
<1>13. Follows(v, t, split')
  <2> SUFFICES ASSUME NEW y \in Range(t), NEW x \in Range(v)
               PROVE  MayFollow(x, y, split')
    BY DEF Follows
  <2>1. MayFollow(y, x, split)
    BY <1>10 DEF Follows
  <2>2. x[1] \in Nat /\ y[1] \in Nat /\ x[1] # y[1]
    BY <1>5, <1>6, <1>9, RangeWords
  <2>3. f[1] \in Range(f)
    BY <1>1, CutWord, <1>6
  <2>4. x[1] \in split'
    BY <1>5, <1>6, <1>11, <2>3
  <2>5. QED
    BY <2>1, <2>2, <2>4 DEF MayFollow, Before
<1>14. InOrder(o \o (t \o v), split')
  BY <1>6, <1>12, <1>13, InOrderOfThree
<1>15. QED
  BY <1>8, <1>9, <1>14

\* A new packet is later than every other, whichever was dropped.
LEMMA OrderAccepted ==
    ASSUME SenderTypes, ArrivalTypes, WordTypes, Apart(queue), InOrder(Inside, split),
           NEW a \in Seq(Packets), NEW b \in Seq(Packets), NEW n \in Sizes,
           Accepts(a, b, n)
    PROVE  Apart(queue') /\ InOrder(Inside', split')
<1>1. PICK x \in Seq(Words), y \in Seq(Words), z \in Seq(Words) :
          /\ x = Concat[a] /\ y = Concat[b] /\ z = Payload(accepted + 1, n)
          /\ Inside = out \o (x \o y) /\ Inside' = out \o (y \o z)
  BY InsideAccepted, Zenon
<1>2. out \in Seq(Words) /\ accepted \in Nat /\ accepted + 1 \in Nat /\ n \in Nat \ {0}
  BY Constants, CountersTyped, OutTyped
<1>3. /\ z \in Packets /\ Range(z) = {<<accepted + 1, i>> : i \in 1 .. n}
      /\ InOrder(z, split)
  BY <1>1, <1>2, PayloadWords
<1>4. Range(Inside) = Range(out) \cup (Range(x) \cup Range(y))
  <2>1. Range(out \o (x \o y)) = Range(out) \cup (Range(x) \cup Range(y))
    BY <1>2, RangeOfThree
  <2>2. QED
    BY <1>1, <2>1
<1>5. \A w \in Range(Inside) : w[1] \in 1 .. accepted
  BY DEF WordTypes, StreamWord
<1>6. \A w \in Range(z) : w[1] = accepted + 1
  BY <1>3
<1>7. ASSUME NEW s, Range(s) \subseteq Range(Inside)
      PROVE  Follows(z, s, split)
  <2> SUFFICES ASSUME NEW w \in Range(s), NEW k \in Range(z)
               PROVE  MayFollow(k, w, split)
    BY DEF Follows
  <2>1. w[1] \in 1 .. accepted /\ k[1] = accepted + 1
    BY <1>5, <1>6, <1>7
  <2>2. QED
    BY <1>2, <2>1 DEF MayFollow, Before
<1>8. /\ InOrder(out, split) /\ InOrder(y, split) /\ Follows(y, out, split)
  BY <1>1, <1>2, InOrderOfThree
<1>9. InOrder(out \o (y \o z), split)
  BY <1>2, <1>3, <1>4, <1>7, <1>8, InOrderOfThree DEF Packets
<1>10. Apart(b)
  BY ApartBehind DEF Accepts
<1>11. Apart(Append(b, z))
  <2>1. \A k \in Range(z), w \in Range(Concat[b]) : k[1] # w[1]
    <3> SUFFICES ASSUME NEW k \in Range(z), NEW w \in Range(Concat[b])
                 PROVE  k[1] # w[1]
      OBVIOUS
    <3>1. w \in Range(Inside)
      BY <1>1, <1>4
    <3>2. w[1] \in 1 .. accepted /\ k[1] = accepted + 1
      BY <1>5, <1>6, <3>1
    <3>3. QED
      BY <1>2, <3>2
  <2>2. \A k, l \in Range(z) : k[1] = l[1]
    BY <1>6
  <2>3. QED
    BY <1>3, <1>10, <2>1, <2>2, ApartAppend
<1>12. queue' = Append(b, z) /\ split' = split
  BY <1>1 DEF Accepts
<1>13. QED
  BY <1>1, <1>9, <1>11, <1>12

\* So every step keeps the order, and the packets of the queue apart.
LEMMA OrderStep ==
    ASSUME BoardTypes, ArrivalTypes, SenderTypes, WordTypes, [StreamNext]_streamVars,
           Apart(queue), InOrder(Inside, split)
    PROVE  Apart(queue') /\ InOrder(Inside', split')
<1>1. Len(queue) <= EVENT_QUEUE_PACKETS
  BY DEF WordTypes
<1>2. CASE Stays
  BY <1>2 DEF Stays, Inside
<1>3. ASSUME NEW a \in Seq(Packets), NEW b \in Seq(Packets), Takes(a, b)
      PROVE  Apart(queue') /\ InOrder(Inside', split')
  <2>1. Inside' = Inside /\ split' = split
    BY <1>3, InsideTaken DEF Takes
  <2>2. queue = a \o b /\ queue' = b
    BY <1>3 DEF Takes, Batched
  <2>3. QED
    BY <2>1, <2>2, ApartBehind
<1>4. QED
  BY <1>1, <1>2, <1>3, OrderCut, OrderAccepted, QueueMoves

\* Words that are in order are distinct, and as many as their number.
LEMMA OrderDistinct ==
    ASSUME NEW s \in Seq(Words), NEW cut, InOrder(s, cut)
    PROVE  Cardinality(Range(s)) = Len(s)
<1>1. Len(s) \in Nat /\ s \in [1 .. Len(s) -> Words] /\ DOMAIN s = 1 .. Len(s)
  BY LenProperties
<1>2. ASSUME NEW i \in 1 .. Len(s), NEW j \in 1 .. Len(s), i < j
      PROVE  s[i] # s[j]
  <2>1. s[i] \in Nat \X Nat
    BY <1>1 DEF Words
  <2>2. MayFollow(s[j], s[i], cut)
    BY <1>1, <1>2 DEF InOrder
  <2>3. ~MayFollow(s[i], s[i], cut)
    BY <2>1 DEF MayFollow, Before
  <2>4. QED
    BY <2>2, <2>3
<1>3. \A i, j \in 1 .. Len(s) : s[i] = s[j] => i = j
  <2> SUFFICES ASSUME NEW i \in 1 .. Len(s), NEW j \in 1 .. Len(s), s[i] = s[j], i # j
               PROVE  FALSE
    OBVIOUS
  <2>1. i < j \/ j < i
    BY <1>1
  <2>2. QED
    BY <1>2, <2>1
<1>4. s \in Bijection(1 .. Len(s), Range(s))
  <2>1. s \in [1 .. Len(s) -> Range(s)]
    BY <1>1 DEF Range
  <2>2. \A t \in Range(s) : \E i \in 1 .. Len(s) : s[i] = t
    BY <1>1 DEF Range
  <2>3. QED
    BY <1>1, <1>3, <2>1, <2>2 DEF Bijection, Injection, Surjection, IsInjective
<1>5. ExistsBijection(1 .. Len(s), Range(s))
  BY <1>4 DEF ExistsBijection
<1>6. QED
  BY <1>1, <1>5, FS_CountingElements

-----------------------------------------------------------------------------
(***************************************************************************)
(* The counters.  How many words three sequences have.                     *)
(***************************************************************************)
LEMMA LenOfThree ==
    ASSUME NEW x \in Seq(Words), NEW y \in Seq(Words), NEW z \in Seq(Words)
    PROVE  /\ Len(x) \in Nat /\ Len(y) \in Nat /\ Len(z) \in Nat
           /\ x \o (y \o z) \in Seq(Words)
           /\ Len(x \o (y \o z)) = Len(x) + (Len(y) + Len(z))
<1>1. PICK yz \in Seq(Words) : yz = y \o z
  BY ConcatProperties
<1>2. Len(yz) = Len(y) + Len(z)
  BY <1>1, ConcatProperties
<1>3. x \o yz \in Seq(Words) /\ Len(x \o yz) = Len(x) + Len(yz)
  BY ConcatProperties
<1>4. QED
  BY <1>1, <1>2, <1>3, LenProperties

\* What is inside is a sequence of words.
LEMMA InsideType ==
    ASSUME SenderTypes
    PROVE  Inside \in Seq(Words) /\ out \in Seq(Words) /\ queue \in Seq(Packets)
<1>1. queue \in Seq(Packets) /\ out \in Seq(Words)
  BY DEF SenderTypes, Packets
<1>2. Concat[queue] \in Seq(Words)
  BY <1>1, ConcatType DEF Packets
<1>3. QED
  BY <1>1, <1>2, ConcatProperties DEF Inside

\* What is counted is inside or was dropped with its packet.
WordsCounted == stream = "result" => stats.words = Len(Inside) + evicted

\* Every step keeps this.
LEMMA CountedStep ==
    ASSUME BoardTypes, ArrivalTypes, SenderTypes, WordTypes, [StreamNext]_streamVars,
           WordsCounted
    PROVE  WordsCounted'
<1>1. Len(queue) <= EVENT_QUEUE_PACKETS
  BY DEF WordTypes
<1>2. CASE Stays
  BY <1>2 DEF Stays, Inside, WordsCounted
<1>3. ASSUME NEW a \in Seq(Packets), NEW b \in Seq(Packets), Takes(a, b)
      PROVE  WordsCounted'
  <2>1. Inside' = Inside
    BY <1>3, InsideTaken
  <2>2. UNCHANGED <<stream, stats, evicted>>
    BY <1>3 DEF Takes
  <2>3. QED
    BY <2>1, <2>2 DEF WordsCounted
<1>4. ASSUME NEW a \in Seq(Packets), NEW b \in Seq(Packets),
             NEW u \in Packets, NEW v \in Packets, TakesPart(a, b, u, v)
      PROVE  WordsCounted'
  <2>1. PICK o \in Seq(Words), t \in Seq(Words) :
            /\ t = Concat[b] /\ o = out'
            /\ Inside = o \o (v \o t) /\ Inside' = o \o (t \o v)
    BY <1>4, InsideCut, Zenon
  <2>2. v \in Seq(Words)
    BY DEF Packets
  <2>3. /\ Len(o \o (v \o t)) = Len(o) + (Len(v) + Len(t))
        /\ Len(o \o (t \o v)) = Len(o) + (Len(t) + Len(v))
        /\ Len(v) \in Nat /\ Len(t) \in Nat
    BY <2>2, LenOfThree
  <2>4. Len(Inside') = Len(Inside)
    BY <2>1, <2>3
  <2>5. UNCHANGED <<stream, stats, evicted>>
    BY <1>4 DEF TakesPart
  <2>6. QED
    BY <2>4, <2>5 DEF WordsCounted
<1>5. ASSUME NEW a \in Seq(Packets), NEW b \in Seq(Packets), NEW n \in Sizes,
             Accepts(a, b, n)
      PROVE  WordsCounted'
  <2>1. PICK x \in Seq(Words), y \in Seq(Words), z \in Seq(Words) :
            /\ x = Concat[a] /\ y = Concat[b] /\ z = Payload(accepted + 1, n)
            /\ Inside = out \o (x \o y) /\ Inside' = out \o (y \o z)
    BY <1>5, InsideAccepted, Zenon
  <2>2. out \in Seq(Words) /\ accepted + 1 \in Nat /\ n \in Nat \ {0}
    BY Constants, CountersTyped, OutTyped
  <2>3. Len(z) = n
    BY <2>1, <2>2, PayloadWords
  <2>4. /\ Len(out \o (x \o y)) = Len(out) + (Len(x) + Len(y))
        /\ Len(out \o (y \o z)) = Len(out) + (Len(y) + Len(z))
        /\ Len(out) \in Nat /\ Len(x) \in Nat /\ Len(y) \in Nat
    BY <2>2, LenOfThree
  <2>5. /\ evicted' = evicted + Len(x) /\ stream' = stream
        /\ stream = "result" => stats'.words = stats.words + n
    BY <1>5, <2>1 DEF Accepts
  <2>6. evicted \in Nat
    BY DEF ArrivalTypes
  <2>7. Len(Inside) = Len(out) + (Len(x) + Len(y))
    BY <2>1, <2>4
  <2>8. Len(Inside') = Len(out) + (Len(y) + n)
    BY <2>1, <2>3, <2>4
  <2>9. SUFFICES ASSUME stream = "result"
                 PROVE  stats'.words = Len(Inside') + evicted'
    BY <2>5 DEF WordsCounted
  <2>10. stats.words = Len(Inside) + evicted
    BY <2>9 DEF WordsCounted
  <2>11. QED
    BY <2>2, <2>4, <2>5, <2>6, <2>7, <2>8, <2>9, <2>10
<1>6. QED
  BY <1>1, <1>2, <1>3, <1>4, <1>5, QueueMoves

-----------------------------------------------------------------------------
(***************************************************************************)
(* What a client has.  s is the part of o behind the first k words.        *)
(***************************************************************************)
Part(o, k, s) == k + Len(s) <= Len(o) /\ s = SubSeq(o, k + 1, k + Len(s))

\* No words are a part at every place.
LEMMA PartEmpty ==
    ASSUME NEW o \in Seq(Words), NEW k \in 0 .. Len(o)
    PROVE  Part(o, k, << >>)
<1>1. Len(o) \in Nat /\ Len(<< >>) = 0
  BY LenProperties
<1>2. k \in Int /\ k + 1 \in Int /\ k < k + 1 /\ k + 0 = k
  BY <1>1
<1>3. SubSeq(o, k + 1, k) = << >>
  BY <1>2, SubSeqEmpty
<1>4. QED
  BY <1>1, <1>2, <1>3 DEF Part

\* The words of a part, one by one.
LEMMA PartElements ==
    ASSUME NEW o \in Seq(Words), NEW k \in Nat, NEW s \in Seq(Words), Part(o, k, s)
    PROVE  \A i \in 1 .. Len(s) : k + i \in 1 .. Len(o) /\ s[i] = o[k + i]
<1>1. Len(o) \in Nat /\ Len(s) \in Nat /\ k + Len(s) <= Len(o)
  BY LenProperties DEF Part
<1>2. PICK m \in Int, n \in Int : m = k + 1 /\ n = k + Len(s)
  BY <1>1
<1>3. \A i \in m .. n : i \in 1 .. Len(o)
  BY <1>1, <1>2
<1>4. \A i \in m .. n : o[i] \in Words
  BY <1>3, ElementOfSeq
<1>5. \A i \in 1 .. n - m + 1 : SubSeq(o, m, n)[i] = o[m + i - 1]
  BY <1>4, SubSeqProperties
<1>6. s = SubSeq(o, m, n)
  BY <1>2 DEF Part
<1>7. ASSUME NEW i \in 1 .. Len(s)
      PROVE  k + i \in 1 .. Len(o) /\ s[i] = o[k + i]
  <2>1. i \in 1 .. n - m + 1 /\ m + i - 1 = k + i
    BY <1>1, <1>2
  <2>2. k + i \in 1 .. Len(o)
    BY <1>1
  <2>3. QED
    BY <1>5, <1>6, <2>1, <2>2
<1>8. QED
  BY <1>7

\* A part stays one when more is sent.
LEMMA PartGrows ==
    ASSUME NEW o \in Seq(Words), NEW t \in Seq(Words), NEW k \in Nat,
           NEW s \in Seq(Words), Part(o, k, s)
    PROVE  Part(o \o t, k, s)
<1>1. /\ Len(o) \in Nat /\ Len(t) \in Nat /\ Len(s) \in Nat
      /\ Len(o \o t) = Len(o) + Len(t) /\ k + Len(s) <= Len(o)
  BY LenProperties, ConcatProperties DEF Part
<1>2. CASE Len(s) = 0
  <2>1. s = << >>
    BY <1>2, EmptySeq
  <2>2. k \in 0 .. Len(o \o t) /\ o \o t \in Seq(Words)
    BY <1>1, ConcatProperties
  <2>3. QED
    BY <2>1, <2>2, PartEmpty
<1>3. CASE Len(s) # 0
  <2>1. k + 1 \in 1 .. Len(o) /\ k + Len(s) \in 1 .. Len(o)
    BY <1>1, <1>3
  <2>2. SubSeq(o \o t, k + 1, k + Len(s)) = SubSeq(o, k + 1, k + Len(s))
    BY <2>1, SubSeqOfConcat1
  <2>3. QED
    BY <1>1, <2>2 DEF Part
<1>4. QED
  BY <1>2, <1>3

\* The end of o, as long as t.
IsEnd(o, t) == Len(t) <= Len(o) /\ t = SubSeq(o, Len(o) - Len(t) + 1, Len(o))

\* What was added last is the end.
LEMMA EndOfConcat ==
    ASSUME NEW o \in Seq(Words), NEW t \in Seq(Words)
    PROVE  IsEnd(o \o t, t)
<1>1. PICK p \in Seq(Words) : p = o \o t
  BY ConcatProperties
<1>2. /\ Len(o) \in Nat /\ Len(t) \in Nat /\ Len(p) = Len(o) + Len(t)
      /\ \A i \in 1 .. Len(o) + Len(t) : p[i] = IF i <= Len(o) THEN o[i]
                                               ELSE t[i - Len(o)]
  BY <1>1, LenProperties, ConcatProperties
<1>3. PICK m \in Int, n \in Int : m = Len(o) + 1 /\ n = Len(p)
  BY <1>2
<1>4. \A i \in m .. n : i \in 1 .. Len(p)
  BY <1>2, <1>3
<1>5. \A i \in m .. n : p[i] \in Words
  BY <1>4, ElementOfSeq
<1>6. PICK e \in Seq(Words) :
          /\ e = SubSeq(p, m, n) /\ Len(e) = IF m <= n THEN n - m + 1 ELSE 0
          /\ \A i \in 1 .. n - m + 1 : e[i] = p[m + i - 1]
  <2>1. /\ SubSeq(p, m, n) \in Seq(Words)
        /\ Len(SubSeq(p, m, n)) = IF m <= n THEN n - m + 1 ELSE 0
        /\ \A i \in 1 .. n - m + 1 : SubSeq(p, m, n)[i] = p[m + i - 1]
    BY <1>5, SubSeqProperties
  <2>2. QED
    BY <2>1
<1>7. Len(e) = Len(t)
  BY <1>2, <1>3, <1>6
<1>8. ASSUME NEW i \in 1 .. Len(t)
      PROVE  e[i] = t[i]
  <2>1. /\ i \in 1 .. n - m + 1 /\ m + i - 1 = Len(o) + i
        /\ Len(o) + i \in 1 .. Len(o) + Len(t) /\ ~(Len(o) + i <= Len(o))
        /\ (Len(o) + i) - Len(o) = i
    BY <1>2, <1>3
  <2>2. QED
    BY <1>2, <1>6, <2>1
<1>9. e = t
  BY <1>7, <1>8, SeqEqual
<1>10. Len(p) - Len(t) + 1 = m
  BY <1>2, <1>3
<1>11. QED
  BY <1>1, <1>2, <1>3, <1>6, <1>9, <1>10 DEF IsEnd

\* A part up to the end t, and then t, is a part.
LEMMA PartJoins ==
    ASSUME NEW o \in Seq(Words), NEW k \in Nat, NEW s \in Seq(Words),
           NEW t \in Seq(Words), Part(o, k, s), IsEnd(o, t),
           k + Len(s) = Len(o) - Len(t)
    PROVE  Part(o, k, s \o t) /\ k + Len(s \o t) = Len(o)
<1>1. /\ Len(o) \in Nat /\ Len(s) \in Nat /\ Len(t) \in Nat /\ Len(t) <= Len(o)
      /\ Len(s \o t) = Len(s) + Len(t)
  BY LenProperties, ConcatProperties DEF IsEnd
<1>2. PICK m \in 1 .. Len(o) + 1 : m = k + 1
  BY <1>1
<1>3. PICK j \in m - 1 .. Len(o) : j = k + Len(s) /\ j + 1 = Len(o) - Len(t) + 1
  <2>1. k + Len(s) \in m - 1 .. Len(o)
    BY <1>1, <1>2
  <2>2. (k + Len(s)) + 1 = Len(o) - Len(t) + 1
    BY <1>1
  <2>3. QED
    BY <2>1, <2>2
<1>4. Len(o) \in j .. Len(o)
  BY <1>1, <1>3
<1>5. SubSeq(o, m, j) \o SubSeq(o, j + 1, Len(o)) = SubSeq(o, m, Len(o))
  BY <1>4, ConcatAdjacentSubSeq
<1>6. s = SubSeq(o, m, j) /\ t = SubSeq(o, j + 1, Len(o))
  BY <1>2, <1>3 DEF Part, IsEnd
<1>7. k + Len(s \o t) = Len(o)
  BY <1>1
<1>8. s \o t = SubSeq(o, k + 1, k + Len(s \o t))
  BY <1>2, <1>5, <1>6, <1>7
<1>9. QED
  BY <1>1, <1>7, <1>8 DEF Part

\* A new batch is sent to all who subscribe, and none has failed.
LEMMA BatchFilled ==
    ASSUME SenderTypes, WordTypes, FillBatch
    PROVE  /\ sending' \in Seq(Words) /\ sending' # << >> /\ out' = out \o sending'
           /\ todo' = sockets /\ dead' = {} /\ sending = << >>
           /\ UNCHANGED <<sockets, got, since>>
<1>1. /\ queue # << >> /\ sending' = NextBatch(queue) /\ out' = out \o sending'
      /\ queue \in Seq(Packets) /\ Len(queue) <= EVENT_QUEUE_PACKETS
      /\ \A i \in DOMAIN queue : queue[i] # << >>
  BY DEF FillBatch, SenderTypes, WordTypes, Packets
<1>2. ASSUME NEW a \in Seq(Packets), NEW b \in Seq(Packets), Batched(queue, a, b)
      PROVE  NextBatch(queue) \in Seq(Words) /\ NextBatch(queue) # << >>
  <2>1. queue = a \o b /\ a # << >> /\ NextBatch(queue) = Concat[a]
    BY <1>2 DEF Batched
  <2>2. Head(a) # << >>
    <3>1. Head(queue) = Head(a)
      BY <2>1, Appended
    <3>2. 1 \in DOMAIN queue /\ Head(queue) = queue[1]
      BY <1>1, EmptySeq, LenProperties
    <3>3. QED
      BY <1>1, <3>1, <3>2
  <2>3. PICK h \in Seq(Words), t \in Seq(Words) : h = Head(a) /\ t = Concat[Tail(a)]
    BY <2>1, TailOfQueue, ConcatType DEF Packets
  <2>4. Concat[a] = h \o t
    BY <2>1, <2>3, ConcatEquation
  <2>5. h \o t # << >> /\ h \o t \in Seq(Words)
    BY <2>2, <2>3, ConcatProperties, ConcatEqualIffEmpty
  <2>6. QED
    BY <2>1, <2>4, <2>5
<1>3. ASSUME NEW a \in Seq(Packets), NEW b \in Seq(Packets),
             NEW u \in Packets, NEW v \in Packets, Cut(queue, a, b, u, v)
      PROVE  NextBatch(queue) \in Seq(Words) /\ NextBatch(queue) # << >>
  <2>1. PICK x \in Seq(Words) : x = Concat[a]
    BY ConcatType DEF Packets
  <2>2. x \o u \in Seq(Words) /\ x \o u # << >>
    BY <1>3, ConcatProperties, ConcatEqualIffEmpty DEF Cut, Packets
  <2>3. QED
    BY <1>3, <2>1, <2>2 DEF Cut
<1>4. NextBatch(queue) \in Seq(Words) /\ NextBatch(queue) # << >>
  BY <1>1, <1>2, <1>3, BatchCases
<1>5. todo' = sockets /\ dead' = {} /\ sending = << >> /\ UNCHANGED <<sockets, got, since>>
  BY DEF FillBatch
<1>6. QED
  BY <1>1, <1>4, <1>5

\* The steps that are not about clients.
Rest == UNCHANGED <<sending, todo, dead, sockets, out, got, since>>

\* The steps that are, and these.
LEMMA SenderCases ==
    ASSUME [StreamNext]_streamVars
    PROVE  \/ FillBatch \/ Sent \/ Rest
           \/ \E c \in Clients : \/ SendTo(c) \/ SendFails(c)
                                 \/ Subscribe(c) \/ Unsubscribe(c)
  BY NextCases
  DEF Transfer, TransferFails, Renumber, Lose, Reorder, Duplicate,
      DatagramReceived, streamVars, sender, streamRecord, Rest

\* BatchIsLast in these words.
BatchEnds == /\ IsEnd(out, sending)
             /\ sending = << >> => todo = {} /\ dead = {}
             /\ todo \cap dead = {}

\* It is the same.
LEMMA BatchEndsIs == BatchIsLast <=> BatchEnds
  BY DEF BatchIsLast, BatchEnds, IsEnd

\* Every step keeps it: the batch being sent is the end of what was.
LEMMA BatchStep ==
    ASSUME SenderTypes, WordTypes, BatchEnds, [StreamNext]_streamVars
    PROVE  BatchEnds'
<1>1. out \in Seq(Words) /\ Len(out) \in Nat
  BY LenProperties DEF SenderTypes
<1>2. CASE FillBatch
  <2>1. PICK s \in Seq(Words) : s = sending' /\ s # << >> /\ out' = out \o s
    BY <1>2, BatchFilled
  <2>2. IsEnd(out \o s, s)
    BY <1>1, EndOfConcat
  <2>3. IsEnd(out', sending')
    BY <2>1, <2>2
  <2>4. QED
    BY <1>2, <2>1, <2>3, BatchFilled DEF BatchEnds
<1>3. CASE Sent
  <2>1. sending' = << >> /\ out' = out /\ todo = {} /\ todo' = todo /\ dead' = {}
    BY <1>3 DEF Sent
  <2>2. IsEnd(out, << >>)
    <3>1. Len(<< >>) = 0 /\ Len(out) - 0 + 1 \in Int /\ Len(out) < Len(out) - 0 + 1
      BY <1>1
    <3>2. SubSeq(out, Len(out) - 0 + 1, Len(out)) = << >>
      BY <1>1, <3>1, SubSeqEmpty
    <3>3. QED
      BY <1>1, <3>1, <3>2 DEF IsEnd
  <2>3. IsEnd(out', sending')
    BY <2>1, <2>2
  <2>4. QED
    BY <2>1, <2>3 DEF BatchEnds
<1>4. CASE \E c \in Clients : SendTo(c) \/ SendFails(c)
  <2>1. PICK c \in Clients : SendTo(c) \/ SendFails(c)
    BY <1>4
  <2>2. /\ sending # << >> /\ sending' = sending /\ out' = out
        /\ todo' = todo \ {c} /\ dead' \in {dead, dead \cup {c}}
    BY <2>1 DEF SendTo, SendFails, streamRecord
  <2>3. IsEnd(out', sending')
    BY <2>2 DEF BatchEnds
  <2>4. QED
    BY <2>2, <2>3 DEF BatchEnds
<1>5. CASE UNCHANGED <<sending, todo, dead, out>>
  <2>1. IsEnd(out', sending')
    BY <1>5 DEF BatchEnds
  <2>2. QED
    BY <1>5, <2>1 DEF BatchEnds
<1>6. QED
  BY <1>2, <1>3, <1>4, <1>5, SenderCases DEF Subscribe, Unsubscribe, Rest, sender

\* The words of the present batch that c has still to receive.
Due(c) == IF c \in todo THEN Len(sending) ELSE 0

\* Received in these words.
Has(c) ==
    /\ Part(out, since[c], got[c])
    /\ c \notin sockets => got[c] = << >> /\ since[c] = 0
    /\ c \in sockets \ dead => since[c] + Len(got[c]) = Len(out) - Due(c)

\* It is the same.
LEMMA ReceivedHas == \A c : Received(c) <=> Has(c)
  BY DEF Received, Has, Part, Due

\* Every step keeps it: a client that leaves and comes back in the middle of
\* a batch included, and one whose send fails.
LEMMA HasStep ==
    ASSUME SenderTypes, WordTypes, BatchEnds, NEW c \in Clients, Has(c),
           [StreamNext]_streamVars
    PROVE  Has(c)'
<1>1. /\ out \in Seq(Words) /\ Len(out) \in Nat /\ since[c] \in Nat
      /\ got[c] \in Seq(Words) /\ Len(got[c]) \in Nat
      /\ sending \in Seq(Words) /\ Len(sending) \in Nat
      /\ got \in [Clients -> Seq(Words)] /\ since \in [Clients -> Nat]
      /\ Len(sending) <= Len(out)
  <2>1. /\ out \in Seq(Words) /\ since[c] \in Nat
        /\ got[c] \in Seq(Words) /\ sending \in Seq(Words)
        /\ got \in [Clients -> Seq(Words)] /\ since \in [Clients -> Nat]
    BY DEF SenderTypes
  <2>2. QED
    BY <2>1, LenProperties DEF BatchEnds, IsEnd
<1>2. Len(<< >>) = 0 /\ Part(out, 0, << >>)
  BY <1>1, PartEmpty
<1>3. CASE FillBatch
  <2>1. PICK s \in Seq(Words) : s = sending' /\ out' = out \o s
    BY <1>3, BatchFilled
  <2>2. /\ todo' = sockets /\ dead' = {} /\ sending = << >>
        /\ sockets' = sockets /\ got' = got /\ since' = since
    BY <1>3, BatchFilled
  <2>3. Part(out \o s, since[c], got[c])
    BY <1>1, PartGrows DEF Has
  <2>4. Part(out', since'[c], got'[c])
    BY <2>1, <2>2, <2>3
  <2>5. Len(out') = Len(out) + Len(s) /\ Len(s) \in Nat
    BY <1>1, <2>1, ConcatProperties, LenProperties
  <2>6. c \in sockets => since[c] + Len(got[c]) = Len(out)
    BY <1>1, <1>2, <2>2 DEF Has, BatchEnds, Due
  <2>7. c \in sockets' \ dead' => since'[c] + Len(got'[c]) = Len(out') - Due(c)'
    BY <1>1, <2>1, <2>2, <2>5, <2>6 DEF Due
  <2>8. QED
    BY <2>2, <2>4, <2>7 DEF Has
<1>4. CASE Sent
  <2>1. /\ sending # << >> /\ todo = {} /\ sending' = << >> /\ dead' = {}
        /\ sockets' = sockets \ dead /\ out' = out /\ todo' = todo
        /\ got'[c] = IF c \in sockets \ sockets' THEN << >> ELSE got[c]
        /\ since'[c] = IF c \in sockets \ sockets' THEN 0 ELSE since[c]
    BY <1>4 DEF Sent, StillSubscribed, Forget
  <2>2. CASE c \in sockets \ sockets'
    BY <1>2, <2>1, <2>2 DEF Has
  <2>3. CASE c \notin sockets \ sockets'
    BY <1>1, <2>1, <2>3 DEF Has, Due
  <2>4. QED
    BY <2>2, <2>3
<1>5. CASE SendTo(c)
  <2>1. /\ sending # << >> /\ c \in todo /\ todo' = todo \ {c}
        /\ UNCHANGED <<sending, dead, sockets, out, since>>
        /\ got'[c] = IF c \in sockets THEN got[c] \o sending ELSE got[c]
    BY <1>1, <1>5 DEF SendTo
  <2>2. c \notin dead
    BY <2>1 DEF BatchEnds
  <2>3. CASE c \in sockets
    <3>1. since[c] + Len(got[c]) = Len(out) - Len(sending)
      BY <2>1, <2>2, <2>3 DEF Has, Due
    <3>2. PICK k \in Nat, g \in Seq(Words), t \in Seq(Words), o \in Seq(Words) :
              k = since[c] /\ g = got[c] /\ t = sending /\ o = out
      BY <1>1
    <3>3. Part(o, k, g) /\ IsEnd(o, t) /\ k + Len(g) = Len(o) - Len(t)
      BY <3>1, <3>2 DEF Has, BatchEnds
    <3>4. Part(o, k, g \o t) /\ k + Len(g \o t) = Len(o)
      BY <3>3, PartJoins
    <3>5. Part(out, k, g \o sending) /\ k + Len(g \o sending) = Len(out)
      BY <3>2, <3>4
    <3>6. /\ got'[c] = g \o sending /\ since'[c] = k /\ out' = out
          /\ c \in sockets' /\ c \notin todo'
      BY <2>1, <2>3, <3>2
    <3>7. QED
      BY <1>1, <3>5, <3>6 DEF Has, Due
  <2>4. CASE c \notin sockets
    <3>1. got'[c] = got[c] /\ since'[c] = since[c] /\ out' = out /\ sockets' = sockets
      BY <2>1, <2>4
    <3>2. QED
      BY <2>4, <3>1 DEF Has
  <2>5. QED
    BY <2>3, <2>4
<1>6. CASE \E d \in Clients : d # c /\ SendTo(d)
  <2>1. PICK d \in Clients : d # c /\ SendTo(d)
    BY <1>6
  <2>2. /\ todo' = todo \ {d} /\ got'[c] = got[c]
        /\ UNCHANGED <<sending, dead, sockets, out, since>>
    BY <1>1, <2>1 DEF SendTo
  <2>3. QED
    BY <2>1, <2>2 DEF Has, Due
<1>7. CASE \E d \in Clients : SendFails(d)
  <2>1. PICK d \in Clients : SendFails(d)
    BY <1>7
  <2>2. /\ todo' = todo \ {d} /\ dead' = dead \cup {d}
        /\ UNCHANGED <<sending, sockets, out, got, since>>
    BY <2>1 DEF SendFails, streamRecord
  <2>3. QED
    BY <2>2 DEF Has, Due
<1>8. CASE Subscribe(c)
  <2>1. /\ c \notin sockets /\ got' = got
        /\ since'[c] = Len(out) - (IF c \in todo THEN Len(sending) ELSE 0)
        /\ UNCHANGED <<sending, todo, dead, out>>
    BY <1>1, <1>8 DEF Subscribe, sender
  <2>2. c \in sockets'
    BY <1>8 DEF Subscribe
  <2>3. got'[c] = << >> /\ since'[c] = Len(out) - Due(c) /\ since'[c] \in 0 .. Len(out)
    BY <1>1, <2>1 DEF Has, Due
  <2>4. Part(out, since'[c], << >>)
    BY <1>1, <2>3, PartEmpty
  <2>5. Due(c)' = Due(c) /\ out' = out
    BY <2>1 DEF Due
  <2>6. QED
    BY <1>1, <1>2, <2>2, <2>3, <2>4, <2>5 DEF Has
<1>9. CASE Unsubscribe(c)
  <2>1. got'[c] = << >> /\ since'[c] = 0 /\ out' = out /\ c \notin sockets'
    BY <1>9 DEF Unsubscribe, Forget
  <2>2. QED
    BY <1>2, <2>1 DEF Has
<1>10. CASE \E d \in Clients : d # c /\ (Subscribe(d) \/ Unsubscribe(d))
  <2>1. PICK d \in Clients : d # c /\ (Subscribe(d) \/ Unsubscribe(d))
    BY <1>10
  <2>2. /\ got'[c] = got[c] /\ since'[c] = since[c] /\ (c \in sockets' <=> c \in sockets)
        /\ UNCHANGED <<sending, todo, dead, out>>
    BY <1>1, <2>1 DEF Subscribe, Unsubscribe, Forget, sender
  <2>3. QED
    BY <2>2 DEF Has, Due
<1>11. CASE Rest
  BY <1>11 DEF Rest, Has, Due
<1>12. QED
  BY <1>3, <1>4, <1>5, <1>6, <1>7, <1>8, <1>9, <1>10, <1>11, SenderCases

-----------------------------------------------------------------------------
(***************************************************************************)
(* The inductive invariant of a stream.                                    *)
(***************************************************************************)
InvNow == StreamTypeOK /\ StreamInv /\ WordsCounted

\* It holds at the start.
LEMMA InvInit == StreamInit => InvNow
<1> SUFFICES ASSUME StreamInit
             PROVE  InvNow
  OBVIOUS
<1> USE DEF StreamInit
<1>1. Inside = << >> /\ << >> \in Seq(Words) /\ << >> \in Seq(Packets) /\ Len(<< >>) = 0
  <2>1. << >> \in Seq(Words) /\ << >> \in Seq(Packets) /\ Len(<< >>) = 0
    BY EmptySeq
  <2>2. << >> \o << >> = << >>
    BY <2>1, ConcatEmptySeq
  <2>3. QED
    BY <2>1, <2>2, ConcatNone DEF Inside
<1>2. BoardTypes
  <2>1. net \in Seq(Datagram)
    BY EmptySeq
  <2>2. seq \in 0 .. SeqMod - 1 /\ made \in 0 .. MaxTransfers /\ sent \in 0 .. made
    BY Constants
  <2>3. QED
    BY <2>1, <2>2 DEF BoardTypes, Datagram
<1>3. ArrivalTypes
  <2>1. stats \in [words : Nat, packets : Nat, dropped : Nat,
                   sequence : {NoSeq} \cup 0 .. SeqMod - 1]
    OBVIOUS
  <2>2. /\ stream \in {"result", "raw"} /\ disturbed \in BOOLEAN
        /\ accepted \in Nat /\ evicted \in Nat
    OBVIOUS
  <2>3. span \in [first : Nat, last : Nat]
    OBVIOUS
  <2>4. QED
    BY <2>1, <2>2, <2>3 DEF ArrivalTypes
<1>4. SenderTypes
  BY <1>1 DEF SenderTypes, Packets
<1>5. WordTypes
  BY <1>1, Constants DEF WordTypes, Range
<1>6. Apart(queue) /\ InOrder(Inside, split)
  BY <1>1 DEF Apart, InOrder
<1>7. Part(<< >>, 0, << >>) /\ IsEnd(<< >>, << >>)
  <2>1. 0 \in 0 .. Len(<< >>) /\ << >> \in Seq(Words)
    BY <1>1
  <2>2. Part(<< >>, 0, << >>)
    BY <2>1, PartEmpty
  <2>3. << >> = SubSeq(<< >>, 1, 0)
    BY SubSeqEmpty
  <2>4. QED
    BY <1>1, <2>2, <2>3 DEF IsEnd
<1>8. BatchIsLast
  BY <1>7, BatchEndsIs DEF BatchEnds
<1>9. \A c \in Clients : Received(c)
  BY <1>7, ReceivedHas DEF Has
<1>10. WordsCounted
  BY <1>1 DEF WordsCounted
<1>11. QED
  BY <1>2, <1>3, <1>4, <1>5, <1>6, <1>8, <1>9, <1>10
  DEF InvNow, StreamTypeOK, StreamInv

\* Every step keeps it.
LEMMA InvStep == InvNow /\ [StreamNext]_streamVars => InvNow'
<1> SUFFICES ASSUME InvNow, [StreamNext]_streamVars
             PROVE  InvNow'
  OBVIOUS
<1>1. /\ BoardTypes /\ ArrivalTypes /\ SenderTypes /\ WordTypes /\ WordsCounted
      /\ Apart(queue) /\ InOrder(Inside, split) /\ BatchIsLast
      /\ \A c \in Clients : Received(c)
  BY DEF InvNow, StreamTypeOK, StreamInv
<1>2. Len(queue) <= EVENT_QUEUE_PACKETS
  BY <1>1 DEF WordTypes
<1>3. BoardTypes'
  BY <1>1, BoardTypesStep
<1>4. ArrivalTypes'
  BY <1>1, ArrivalTypesStep
<1>5. SenderTypes'
  BY <1>1, <1>2, SenderTypesStep
<1>6. WordTypes'
  BY <1>1, WordTypesStep
<1>7. Apart(queue)' /\ InOrder(Inside, split)'
  BY <1>1, OrderStep
<1>8. BatchIsLast'
  <2>1. BatchEnds'
    BY <1>1, BatchEndsIs, BatchStep
  <2>2. QED
    BY <2>1 DEF BatchIsLast, BatchEnds, IsEnd
<1>9. ASSUME NEW c \in Clients
      PROVE  Received(c)'
  <2>1. Has(c)'
    BY <1>1, BatchEndsIs, ReceivedHas, HasStep
  <2>2. QED
    BY <2>1 DEF Received, Has, Part, Due
<1>10. WordsCounted'
  BY <1>1, CountedStep
<1>11. QED
  BY <1>3, <1>4, <1>5, <1>6, <1>7, <1>8, <1>9, <1>10
  DEF InvNow, StreamTypeOK, StreamInv

\* It gives what the theorems say.
LEMMA InvGives == InvNow => StreamTypeOK /\ Accounted /\ NoGaps /\ OvertakesOnlyCut
<1> SUFFICES ASSUME InvNow
             PROVE  StreamTypeOK /\ Accounted /\ NoGaps /\ OvertakesOnlyCut
  OBVIOUS
<1>1. /\ StreamTypeOK /\ SenderTypes /\ WordsCounted
      /\ InOrder(Inside, split) /\ \A c \in Clients : Received(c)
  BY DEF InvNow, StreamTypeOK, StreamInv
<1>2. Inside \in Seq(Words) /\ out \in Seq(Words) /\ queue \in Seq(Packets)
  BY <1>1, InsideType
<1>3. Accounted
  <2>1. Cardinality(Range(Inside)) = Len(Inside)
    BY <1>1, <1>2, OrderDistinct
  <2>2. QED
    BY <1>1, <2>1 DEF Accounted, WordsCounted
<1>4. NoGaps
  BY <1>1 DEF NoGaps, Received, SenderTypes
<1>5. InOrder(out, split)
  <2>1. Concat[queue] \in Seq(Words)
    BY <1>2, ConcatType DEF Packets
  <2>2. QED
    BY <1>1, <1>2, <2>1, InOrderConcat DEF Inside
<1>6. ASSUME NEW c \in Clients
      PROVE  InOrder(got[c], split)
  <2>1. PICK k \in Nat, g \in Seq(Words) : k = since[c] /\ g = got[c]
    BY <1>1 DEF SenderTypes
  <2>2. Part(out, k, g)
    BY <1>1, <2>1, ReceivedHas DEF Has
  <2>3. \A i \in 1 .. Len(g) : k + i \in 1 .. Len(out) /\ g[i] = out[k + i]
    BY <1>2, <2>2, PartElements
  <2>4. DOMAIN g = 1 .. Len(g) /\ DOMAIN out = 1 .. Len(out) /\ Len(g) \in Nat
    BY <1>2, LenProperties
  <2>5. ASSUME NEW i \in 1 .. Len(g), NEW j \in 1 .. Len(g), i < j
        PROVE  MayFollow(g[j], g[i], split)
    <3>1. k + i < k + j
      BY <2>4, <2>5
    <3>2. QED
      BY <1>5, <2>3, <2>4, <3>1 DEF InOrder
  <2>6. QED
    BY <2>1, <2>4, <2>5 DEF InOrder
<1>7. QED
  BY <1>1, <1>3, <1>4, <1>6 DEF OvertakesOnlyCut

(***************************************************************************)
(* The invariant holds in every reachable state of a stream.               *)
(***************************************************************************)
THEOREM StreamCorrect == StreamSpec => []InvNow
<1>1. QED
  BY InvInit, InvStep, PTL DEF StreamSpec

(***************************************************************************)
(* A stream is type correct: its queue has room (dashboard.py:77-84), no   *)
(* packet in it is empty, and dropped never falls below zero.              *)
(***************************************************************************)
THEOREM StreamTyped == StreamSpec => []StreamTypeOK
  BY StreamCorrect, InvGives, PTL

(***************************************************************************)
(* No word is lost or there twice: those counted are those sent, those     *)
(* queued and those dropped with their packet, whatever is cut when a batch *)
(* is full (dashboard.py:92-103).                                          *)
(***************************************************************************)
THEOREM StreamAccounted == StreamSpec => []Accounted
  BY StreamCorrect, InvGives, PTL

(***************************************************************************)
(* A client receives the words in order, but for those that overtake the   *)
(* rest of a packet that was cut (dashboard.py:102).                       *)
(***************************************************************************)
THEOREM StreamOrdered == StreamSpec => []OvertakesOnlyCut
  BY StreamCorrect, InvGives, PTL

(***************************************************************************)
(* What a client has received is without a gap, from the word it started   *)
(* at, also when another client's send fails in the same batch or it leaves *)
(* and comes back (dashboard.py:64-74).                                    *)
(***************************************************************************)
THEOREM StreamComplete == StreamSpec => []NoGaps
  BY StreamCorrect, InvGives, PTL

-----------------------------------------------------------------------------
(***************************************************************************)
(* The numbers of the datagrams.  Arithmetic modulo 2^32 first: what the   *)
(* remainder is.                                                           *)
(***************************************************************************)
LEMMA ModIs ==
    ASSUME NEW m \in Nat \ {0}, NEW a \in Int, NEW k \in Int, NEW r \in 0 .. m - 1,
           a = m * k + r
    PROVE  a % m = r
  OBVIOUS

\* Every number has a quotient and a remainder.
LEMMA Quotient ==
    ASSUME NEW m \in Nat \ {0}, NEW a \in Nat
    PROVE  \E k \in Nat, r \in 0 .. m - 1 : a = m * k + r /\ r = a % m
<1> DEFINE T == {b \in Nat : \E k \in Nat, r \in 0 .. m - 1 : b = m * k + r}
<1>1. 0 \in T
  <2>1. 0 \in Nat /\ 0 \in 0 .. m - 1 /\ 0 = m * 0 + 0
    OBVIOUS
  <2>2. QED
    BY <2>1
<1>2. ASSUME NEW b \in Nat, b \in T
      PROVE  b + 1 \in T
  <2>1. PICK k \in Nat, r \in 0 .. m - 1 : b = m * k + r
    BY <1>2
  <2>2. CASE r + 1 < m
    <3>1. b + 1 = m * k + (r + 1) /\ r + 1 \in 0 .. m - 1 /\ b + 1 \in Nat
      BY <2>1, <2>2
    <3>2. QED
      BY <3>1
  <2>3. CASE r + 1 = m
    <3>1. m * (k + 1) = m * k + m
      OBVIOUS
    <3>2. b + 1 = m * (k + 1) + 0 /\ 0 \in 0 .. m - 1 /\ k + 1 \in Nat /\ b + 1 \in Nat
      BY <2>1, <2>3, <3>1
    <3>3. QED
      BY <3>2
  <2>4. QED
    BY <2>2, <2>3
<1> HIDE DEF T
<1>3. a \in T
  BY <1>1, <1>2, Induction
<1>4. PICK k \in Nat, r \in 0 .. m - 1 : a = m * k + r
  BY <1>3 DEF T
<1>5. r = a % m
  BY <1>4, ModIs
<1>6. QED
  BY <1>4, <1>5

\* Counting on and wrapping, once or at each step.
LEMMA ModNext ==
    ASSUME NEW m \in Nat \ {0}, NEW a \in Nat
    PROVE  ((a % m) + 1) % m = (a + 1) % m
<1>1. PICK k \in Nat, r \in 0 .. m - 1 : a = m * k + r /\ r = a % m
  BY Quotient
<1>2. CASE r + 1 < m
  <2>1. PICK q \in 0 .. m - 1, b \in Int : q = r + 1 /\ b = a + 1 /\ b = m * k + q
    BY <1>1, <1>2
  <2>2. (a + 1) % m = r + 1
    <3>1. k \in Int
      OBVIOUS
    <3>2. b % m = q
      BY <2>1, <3>1, ModIs, Zenon
    <3>3. QED
      BY <2>1, <3>2
  <2>3. (r + 1) % m = r + 1
    BY <1>2
  <2>4. QED
    BY <1>1, <2>2, <2>3
<1>3. CASE r + 1 = m
  <2>1. m * (k + 1) = m * k + m
    OBVIOUS
  <2>2. a + 1 = m * (k + 1) + 0 /\ 0 \in 0 .. m - 1 /\ k + 1 \in Int /\ a + 1 \in Int
    BY <1>1, <1>3, <2>1
  <2>3. (a + 1) % m = 0
    BY <2>2, ModIs
  <2>4. m % m = 0
    OBVIOUS
  <2>5. QED
    BY <1>1, <1>3, <2>3, <2>4
<1>4. QED
  BY <1>2, <1>3

\* A remainder under a name.
IsMod(x, a, m) == x = a % m

\* The wrapped difference of two remainders is the difference, if that is
\* smaller than the modulus.
LEMMA ModDifference ==
    ASSUME NEW m \in Nat \ {0}, NEW a \in Nat, NEW b \in Nat, b <= a, a < b + m,
           NEW x \in Int, NEW y \in Int, IsMod(x, a, m), IsMod(y, b, m)
    PROVE  IsMod(a - b, x - y, m)
<1> SUFFICES ASSUME x = a % m, y = b % m
             PROVE  (x - y) % m = a - b
  BY DEF IsMod
<1>1. PICK k \in Nat, r \in 0 .. m - 1 : b = m * k + r
  BY Quotient
<1>2. y = r
  <2>1. b \in Int /\ k \in Int
    OBVIOUS
  <2>2. r = b % m
    BY <1>1, <2>1, ModIs, Zenon
  <2>3. QED
    BY <2>2, Zenon
<1>3. PICK w \in Int : w = m * k /\ b = w + r
  BY <1>1
<1>4. PICK d \in 0 .. m - 1 : a = b + d /\ d = a - b
  OBVIOUS
<1>5. a = w + (r + d)
  BY <1>3, <1>4
<1>6. CASE r + d < m
  <2>1. PICK q \in 0 .. m - 1 : q = r + d /\ a = w + q
    BY <1>5, <1>6
  <2>2. a = m * k + q
    BY <1>3, <2>1, Zenon
  <2>3. x = q
    <3>1. a \in Int /\ k \in Int
      OBVIOUS
    <3>2. q = a % m
      BY <2>2, <3>1, ModIs, Zenon
    <3>3. QED
      BY <3>2, Zenon
  <2>4. x - y = d
    BY <1>2, <2>1, <2>3
  <2>5. d % m = d
    OBVIOUS
  <2>6. QED
    BY <1>4, <2>4, <2>5
<1>7. CASE r + d >= m
  <2>1. PICK q \in 0 .. m - 1 : q = r + d - m /\ a = (w + m) + q
    BY <1>5, <1>7
  <2>2. PICK j \in Int : w + m = m * j
    <3>1. m * (k + 1) = m * k + m /\ k + 1 \in Int
      OBVIOUS
    <3>2. QED
      BY <1>3, <3>1
  <2>3. a = m * j + q
    BY <2>1, <2>2, Zenon
  <2>4. x = q
    <3>1. a \in Int
      OBVIOUS
    <3>2. q = a % m
      BY <2>3, <3>1, ModIs, Zenon
    <3>3. QED
      BY <3>2, Zenon
  <2>5. PICK e \in Int : e = d - m /\ -m < e /\ e < 0 /\ e = q - r
    BY <1>7, <2>1
  <2>6. e % m = e + m
    BY <2>5
  <2>7. x - y = e
    BY <1>2, <2>4, <2>5
  <2>8. e + m = d
    BY <2>5
  <2>9. QED
    BY <1>4, <2>6, <2>7, <2>8
<1>8. QED
  BY <1>6, <1>7

\* The datagrams N on their way, sn sent, pk received, the last of them last.
InNet(N, sn, pk, last) ==
    \A i \in DOMAIN N : /\ N[i].num \in 1 .. sn
                        /\ N[i].seq = (N[i].num - 1) % SeqMod
                        /\ \A j \in 1 .. i - 1 : N[j].num < N[i].num
                        /\ pk > 0 => last < N[i].num

\* What the counters say of the datagrams that arrived.
Counters == IF stats.packets = 0 THEN stats.sequence = NoSeq /\ stats.dropped = 0
            ELSE span.last \in 1 .. sent /\ stats.sequence = span.last % SeqMod

\* Numbered in these words.
LEMMA NumberedIs ==
    Numbered <=> ~disturbed => /\ seq = sent % SeqMod
                               /\ InNet(net, sent, stats.packets, span.last)
                               /\ Counters
  BY DEF Numbered, InNet, Counters

\* The datagrams still on their way when the first arrives or is lost.
LEMMA InNetTail ==
    ASSUME NEW N \in Seq(Datagram), N # << >>, NEW sn, NEW pk, NEW last,
           InNet(N, sn, pk, last), NEW pk2
    PROVE  /\ Head(N).num \in 1 .. sn
           /\ Head(N).seq = (Head(N).num - 1) % SeqMod
           /\ pk > 0 => last < Head(N).num
           /\ InNet(Tail(N), sn, pk, last)
           /\ InNet(Tail(N), sn, pk2, Head(N).num)
<1>1. /\ Len(N) \in Nat \ {0} /\ DOMAIN N = 1 .. Len(N)
      /\ Tail(N) \in Seq(Datagram) /\ Len(Tail(N)) = Len(N) - 1
      /\ DOMAIN Tail(N) = 1 .. Len(N) - 1
      /\ \A i \in 1 .. Len(N) - 1 : Tail(N)[i] = N[i + 1]
      /\ Head(N) = N[1] /\ 1 \in DOMAIN N
  BY EmptySeq, LenProperties, HeadTailProperties
<1>2. /\ Head(N).num \in 1 .. sn /\ Head(N).seq = (Head(N).num - 1) % SeqMod
      /\ pk > 0 => last < Head(N).num
  BY <1>1 DEF InNet
<1>3. ASSUME NEW i \in 1 .. Len(N) - 1
      PROVE  /\ Tail(N)[i].num \in 1 .. sn
             /\ Tail(N)[i].seq = (Tail(N)[i].num - 1) % SeqMod
             /\ \A j \in 1 .. i - 1 : Tail(N)[j].num < Tail(N)[i].num
             /\ pk > 0 => last < Tail(N)[i].num
             /\ Head(N).num < Tail(N)[i].num
  <2>1. i + 1 \in DOMAIN N /\ Tail(N)[i] = N[i + 1] /\ 1 \in 1 .. (i + 1) - 1
    BY <1>1
  <2>2. ASSUME NEW j \in 1 .. i - 1
        PROVE  Tail(N)[j].num < Tail(N)[i].num
    <3>1. j + 1 \in 1 .. (i + 1) - 1 /\ j \in 1 .. Len(N) - 1
      BY <1>1
    <3>2. Tail(N)[j] = N[j + 1]
      BY <1>1, <3>1
    <3>3. N[j + 1].num < N[i + 1].num
      BY <2>1, <3>1 DEF InNet
    <3>4. QED
      BY <2>1, <3>2, <3>3
  <2>3. /\ N[i + 1].num \in 1 .. sn /\ N[i + 1].seq = (N[i + 1].num - 1) % SeqMod
        /\ pk > 0 => last < N[i + 1].num
        /\ N[1].num < N[i + 1].num
    BY <2>1 DEF InNet
  <2>4. QED
    BY <1>1, <2>1, <2>2, <2>3
<1>4. InNet(Tail(N), sn, pk, last)
  BY <1>1, <1>3 DEF InNet
<1>5. InNet(Tail(N), sn, pk2, Head(N).num)
  BY <1>1, <1>3 DEF InNet
<1>6. QED
  BY <1>2, <1>4, <1>5

\* And when one more is sent.
LEMMA InNetAppend ==
    ASSUME NEW N \in Seq(Datagram), NEW sn \in Nat, NEW pk, NEW last,
           InNet(N, sn, pk, last), pk > 0 => last \in 1 .. sn, NEW d \in Datagram,
           d.num = sn + 1, d.seq = sn % SeqMod
    PROVE  InNet(Append(N, d), sn + 1, pk, last)
<1> DEFINE M == Append(N, d)
<1>1. /\ Len(N) \in Nat /\ DOMAIN N = 1 .. Len(N) /\ DOMAIN M = 1 .. Len(N) + 1
      /\ \A i \in 1 .. Len(N) : M[i] = N[i]
      /\ M[Len(N) + 1] = d
  BY LenProperties, AppendProperties
<1> HIDE DEF M
<1>2. ASSUME NEW i \in 1 .. Len(N)
      PROVE  /\ M[i].num \in 1 .. sn /\ M[i].num \in 1 .. sn + 1
             /\ M[i].seq = (M[i].num - 1) % SeqMod
             /\ \A j \in 1 .. i - 1 : M[j].num < M[i].num
             /\ pk > 0 => last < M[i].num
  <2>1. \A j \in 1 .. i - 1 : j \in 1 .. Len(N)
    BY <1>1
  <2>2. /\ N[i].num \in 1 .. sn /\ N[i].seq = (N[i].num - 1) % SeqMod
        /\ \A j \in 1 .. i - 1 : N[j].num < N[i].num
        /\ pk > 0 => last < N[i].num
    BY <1>1 DEF InNet
  <2>3. M[i] = N[i] /\ \A j \in 1 .. i - 1 : M[j] = N[j]
    BY <1>1, <2>1
  <2>4. N[i].num \in 1 .. sn + 1
    BY <2>2
  <2>5. QED
    BY <2>2, <2>3, <2>4
<1>3. /\ d.num \in 1 .. sn + 1 /\ d.seq = (d.num - 1) % SeqMod
      /\ \A j \in 1 .. Len(N) : M[j].num < d.num
      /\ pk > 0 => last < d.num
  <2>1. d.num - 1 = sn /\ d.num \in 1 .. sn + 1
    OBVIOUS
  <2>2. \A j \in 1 .. Len(N) : M[j].num < d.num
    BY <1>2
  <2>3. pk > 0 => last < d.num
    OBVIOUS
  <2>4. QED
    BY <2>1, <2>2, <2>3
<1>4. ASSUME NEW i \in 1 .. Len(N) + 1
      PROVE  /\ M[i].num \in 1 .. sn + 1
             /\ M[i].seq = (M[i].num - 1) % SeqMod
             /\ \A j \in 1 .. i - 1 : M[j].num < M[i].num
             /\ pk > 0 => last < M[i].num
  <2>1. CASE i \in 1 .. Len(N)
    BY <1>2, <2>1
  <2>2. CASE i = Len(N) + 1
    <3>1. M[i] = d /\ i - 1 = Len(N)
      BY <1>1, <2>2
    <3>2. QED
      BY <1>3, <3>1
  <2>3. QED
    BY <1>1, <2>1, <2>2
<1>5. QED
  BY <1>1, <1>4 DEF InNet, M

\* Every step keeps the numbering, while the order is kept.
LEMMA NumberedStep ==
    ASSUME BoardTypes, ArrivalTypes, Numbered, [StreamNext]_streamVars
    PROVE  Numbered'
<1> SUFFICES ASSUME ~disturbed'
             PROVE  /\ seq' = sent' % SeqMod
                    /\ InNet(net', sent', stats'.packets, span'.last)
                    /\ Counters'
  BY DEF Numbered, InNet, Counters
<1>1. /\ net \in Seq(Datagram) /\ sent \in Nat /\ SeqMod \in Nat \ {0}
      /\ stats.packets \in Nat /\ stats.dropped \in Nat /\ span.last \in Nat
      /\ stats.sequence \in {NoSeq} \cup 0 .. SeqMod - 1
  BY Constants DEF BoardTypes, ArrivalTypes, Datagram
<1>2. ~disturbed
  BY NextCases
  DEF Transfer, TransferFails, Renumber, Lose, Reorder, Duplicate, DatagramReceived,
      FillBatch, SendTo, SendFails, Sent, Subscribe, Unsubscribe, streamVars, arrival
<1>3. /\ seq = sent % SeqMod /\ InNet(net, sent, stats.packets, span.last)
      /\ Counters
  BY <1>2, NumberedIs
<1>4. CASE \E n \in Sizes : Transfer(n)
  <2>1. PICK n \in Sizes : Transfer(n)
    BY <1>4
  <2>2. PICK d \in Datagram : d = [num |-> sent + 1, seq |-> seq, count |-> n]
    <3>1. sent + 1 \in Nat /\ seq \in 0 .. SeqMod - 1
      BY <1>1 DEF BoardTypes
    <3>2. [num |-> sent + 1, seq |-> seq, count |-> n] \in Datagram
      BY <3>1 DEF Datagram
    <3>3. QED
      BY <3>2
  <2>3. /\ sent' = sent + 1 /\ net' = Append(net, d) /\ seq' = (seq + 1) % SeqMod
        /\ stats' = stats /\ span' = span
    BY <2>1, <2>2 DEF Transfer, arrival
  <2>4. ((sent % SeqMod) + 1) % SeqMod = (sent + 1) % SeqMod
    BY <1>1, ModNext
  <2>5. seq' = sent' % SeqMod
    BY <1>3, <2>3, <2>4
  <2>6. stats.packets > 0 => span.last \in 1 .. sent
    BY <1>1, <1>3 DEF Counters
  <2>7. d.num = sent + 1 /\ d.seq = sent % SeqMod
    BY <1>3, <2>2
  <2>8. InNet(Append(net, d), sent + 1, stats.packets, span.last)
    BY <1>1, <1>3, <2>6, <2>7, InNetAppend
  <2>9. Counters'
    BY <1>1, <1>3, <2>3 DEF Counters
  <2>10. QED
    BY <2>3, <2>5, <2>8, <2>9
<1>5. CASE /\ net # << >> /\ net' = Tail(net)
           /\ UNCHANGED <<seq, sent, stats, span>>
  <2>1. InNet(Tail(net), sent, stats.packets, span.last)
    BY <1>1, <1>3, <1>5, InNetTail
  <2>2. Counters'
    BY <1>3, <1>5 DEF Counters
  <2>3. QED
    BY <1>3, <1>5, <2>1, <2>2
<1>6. CASE /\ net # << >> /\ net' = Tail(net) /\ UNCHANGED <<seq, sent>>
           /\ stats' = Counted(Head(net)) /\ span'.last = Head(net).num
  <2>1. PICK num \in 1 .. sent :
            /\ num = Head(net).num
            /\ Head(net).seq = (num - 1) % SeqMod
            /\ InNet(Tail(net), sent, stats.packets + 1, num)
    <3>1. /\ Head(net).num \in 1 .. sent
          /\ Head(net).seq = (Head(net).num - 1) % SeqMod
          /\ InNet(Tail(net), sent, stats.packets + 1, Head(net).num)
      BY <1>1, <1>3, <1>6, InNetTail
    <3>2. QED
      BY <3>1
  <2>2. stats'.packets = stats.packets + 1 /\ stats'.packets # 0
    BY <1>1, <1>6 DEF Counted
  <2>3. stats'.sequence = (Head(net).seq + 1) % SeqMod
    BY <1>6 DEF Counted
  <2>4. num - 1 \in Nat /\ (num - 1) + 1 = num
    BY <2>1
  <2>5. (((num - 1) % SeqMod) + 1) % SeqMod = num % SeqMod
    BY <1>1, <2>4, ModNext
  <2>6. stats'.sequence = num % SeqMod
    BY <2>1, <2>3, <2>5
  <2>7. Counters'
    BY <1>6, <2>1, <2>2, <2>6 DEF Counters
  <2>8. QED
    BY <1>3, <1>6, <2>1, <2>2, <2>7
<1>7. CASE UNCHANGED <<seq, sent, net, stats, span>>
  BY <1>3, <1>7 DEF Counters
<1>8. DatagramReceived => \/ /\ net # << >> /\ net' = Tail(net)
                             /\ UNCHANGED <<seq, sent, stats, span>>
                          \/ /\ net # << >> /\ net' = Tail(net)
                             /\ UNCHANGED <<seq, sent>>
                             /\ stats' = Counted(Head(net))
                             /\ span'.last = Head(net).num
  BY DEF DatagramReceived
<1>9. QED
  BY <1>4, <1>5, <1>6, <1>7, <1>8, NextCases
  DEF TransferFails, Renumber, Lose, Reorder, Duplicate, FillBatch, SendTo, SendFails,
      Sent, Subscribe, Unsubscribe, streamVars, streamBoard, arrival

\* It holds at the start.
LEMMA NumberedInit == StreamInit => Numbered
<1> SUFFICES ASSUME StreamInit
             PROVE  /\ seq = sent % SeqMod
                    /\ InNet(net, sent, stats.packets, span.last)
                    /\ Counters
  BY DEF Numbered, InNet, Counters
<1>1. 0 % SeqMod = 0
  BY Constants
<1>2. seq = sent % SeqMod
  BY <1>1 DEF StreamInit
<1>3. Counters
  BY DEF StreamInit, Counters
<1>4. InNet(net, sent, stats.packets, span.last)
  BY DEF StreamInit, InNet
<1>5. QED
  BY <1>2, <1>3, <1>4

\* No more than SeqMod - 1 datagrams are lost in a row before the next one.
NoLongLoss == ~disturbed /\ net # << >> /\ stats.packets > 0 =>
                  Head(net).num - span.last <= SeqMod

\* Then every step keeps the count of those lost exact.
LEMMA DropsStep ==
    ASSUME BoardTypes, ArrivalTypes, Numbered, NoLongLoss, DropsCounted,
           [StreamNext]_streamVars
    PROVE  DropsCounted'
<1> SUFFICES ASSUME ~disturbed'
             PROVE  stats'.packets > 0 =>
                        stats'.dropped = (span'.last - span'.first + 1) - stats'.packets
  BY DEF DropsCounted
<1>1. /\ net \in Seq(Datagram) /\ sent \in Nat /\ SeqMod \in Nat \ {0}
      /\ stats.packets \in Nat /\ stats.dropped \in Nat
      /\ span.last \in Nat /\ span.first \in Nat
      /\ stats.sequence \in {NoSeq} \cup 0 .. SeqMod - 1
  BY Constants DEF BoardTypes, ArrivalTypes, Datagram
<1>2. ~disturbed
  BY NextCases
  DEF Transfer, TransferFails, Renumber, Lose, Reorder, Duplicate, DatagramReceived,
      FillBatch, SendTo, SendFails, Sent, Subscribe, Unsubscribe, streamVars, arrival
<1>3. /\ InNet(net, sent, stats.packets, span.last) /\ Counters
  BY <1>2, NumberedIs
<1>4. CASE UNCHANGED <<stats, span>>
  BY <1>2, <1>4 DEF DropsCounted
<1>5. CASE DatagramReceived /\ stream # "raw"
  <2>1. /\ net # << >> /\ stats' = Counted(Head(net))
        /\ span' = [first |-> IF stats.packets = 0 THEN Head(net).num
                              ELSE span.first,
                    last  |-> Head(net).num]
    BY <1>5 DEF DatagramReceived
  <2>2. PICK num \in 1 .. sent :
            /\ num = Head(net).num
            /\ Head(net).seq = (num - 1) % SeqMod
            /\ stats.packets > 0 => span.last < num
    <3>1. /\ Head(net).num \in 1 .. sent
          /\ Head(net).seq = (Head(net).num - 1) % SeqMod
          /\ stats.packets > 0 => span.last < Head(net).num
      BY <1>1, <1>3, <2>1, InNetTail
    <3>2. QED
      BY <3>1
  <2>3. stats'.packets = stats.packets + 1
    BY <2>1 DEF Counted
  <2>4. CASE stats.packets = 0
    <3>1. stats.sequence = NoSeq /\ stats.dropped = 0
      BY <1>3, <2>4 DEF Counters
    <3>2. stats'.dropped = 0
      BY <2>1, <3>1 DEF Counted, Missing
    <3>3. span'.last = num /\ span'.first = num
      BY <2>1, <2>2, <2>4
    <3>4. QED
      BY <2>3, <2>4, <3>2, <3>3
  <2>5. CASE stats.packets > 0
    <3>1. span.last \in 1 .. sent /\ stats.sequence = span.last % SeqMod
      BY <1>1, <1>3, <2>5 DEF Counters
    <3>2. PICK k \in Nat, l \in Nat : k = num - 1 /\ l = span.last
      BY <1>1, <2>2
    <3>3. k % SeqMod \in 0 .. SeqMod - 1 /\ l % SeqMod \in 0 .. SeqMod - 1
      BY ModRange
    <3>4. PICK x \in 0 .. SeqMod - 1, y \in 0 .. SeqMod - 1 :
              x = k % SeqMod /\ y = l % SeqMod
      BY <3>3
    <3>5. Head(net).seq = x /\ stats.sequence = y
      BY <2>2, <3>1, <3>2, <3>4
    <3>6. num - span.last <= SeqMod
      BY <1>2, <2>1, <2>2, <2>5 DEF NoLongLoss
    <3>7. l <= k /\ k < l + SeqMod
      <4>1. span.last < num /\ num \in Nat /\ span.last \in Nat
        BY <1>1, <2>2, <2>5
      <4>2. QED
        BY <1>1, <3>2, <3>6, <4>1
    <3>8. IsMod(k - l, x - y, SeqMod)
      <4>1. IsMod(x, k, SeqMod) /\ IsMod(y, l, SeqMod)
        BY <3>4 DEF IsMod
      <4>2. QED
        BY <1>1, <3>7, <4>1, ModDifference
    <3>9. y # NoSeq
      BY <1>1 DEF NoSeq
    <3>10. stats'.dropped = stats.dropped + Missing(Head(net))
      BY <2>1 DEF Counted
    <3>11. Missing(Head(net)) = k - l
      BY <3>5, <3>8, <3>9 DEF Missing, IsMod
    <3>12. stats'.dropped = stats.dropped + (k - l)
      BY <3>10, <3>11
    <3>13. stats.dropped = (span.last - span.first + 1) - stats.packets
      BY <1>2, <2>5 DEF DropsCounted
    <3>14. span'.last = num /\ span'.first = span.first
      BY <2>1, <2>2, <2>5
    <3>15. num \in Nat
      BY <1>1, <2>2
    <3>16. stats'.dropped = ((span.last - span.first + 1) - stats.packets)
                                + ((num - 1) - span.last)
      BY <3>2, <3>12, <3>13
    <3>17. PICK p \in Nat, fs \in Nat, ls \in Nat :
               p = stats.packets /\ fs = span.first /\ ls = span.last
      BY <1>1
    <3>18. stats'.dropped = ((ls - fs + 1) - p) + ((num - 1) - ls)
      BY <3>16, <3>17
    <3>19. (num - fs + 1) - (p + 1) = ((ls - fs + 1) - p) + ((num - 1) - ls)
      BY <3>15
    <3>20. QED
      BY <2>3, <3>14, <3>17, <3>18, <3>19
  <2>6. QED
    BY <1>1, <2>4, <2>5
<1>6. CASE DatagramReceived /\ stream = "raw"
  BY <1>4, <1>6 DEF DatagramReceived
<1>7. QED
  BY <1>4, <1>5, <1>6, NextCases
  DEF Transfer, TransferFails, Renumber, Lose, Reorder, Duplicate,
      FillBatch, SendTo, SendFails, Sent, Subscribe, Unsubscribe, streamVars, arrival

\* With so few datagrams, so many cannot be lost in a row.
LEMMA FewTransfers ==
    ASSUME BoardTypes, ArrivalTypes, Numbered, MaxTransfers <= SeqMod + 1
    PROVE  NoLongLoss
<1> SUFFICES ASSUME ~disturbed, net # << >>, stats.packets > 0
             PROVE  Head(net).num - span.last <= SeqMod
  BY DEF NoLongLoss
<1>1. /\ net \in Seq(Datagram) /\ sent \in Nat /\ sent <= MaxTransfers
      /\ stats.packets \in Nat /\ span.last \in Nat
      /\ MaxTransfers \in Nat /\ SeqMod \in Nat
  BY Constants DEF BoardTypes, ArrivalTypes, Datagram
<1>2. InNet(net, sent, stats.packets, span.last) /\ Counters
  BY NumberedIs
<1>3. span.last \in 1 .. sent
  BY <1>1, <1>2 DEF Counters
<1>4. Head(net).num \in 1 .. sent
  BY <1>1, <1>2, InNetTail
<1>5. QED
  BY <1>1, <1>3, <1>4

(***************************************************************************)
(* While the network keeps the order, the sequence numbers are those of the *)
(* datagrams, and what is expected next is one more than the last.         *)
(***************************************************************************)
THEOREM StreamNumbered == StreamSpec => []Numbered
<1>1. BoardTypes /\ ArrivalTypes /\ Numbered /\ [StreamNext]_streamVars => Numbered'
  BY NumberedStep
<1>2. InvNow => BoardTypes /\ ArrivalTypes
  BY DEF InvNow, StreamTypeOK
<1>3. QED
  BY <1>1, <1>2, NumberedInit, StreamCorrect, PTL DEF StreamSpec

(***************************************************************************)
(* Then the dashboard counts exactly the datagrams that were lost, across  *)
(* the wrap of the sequence number (dashboard.py:305-308), unless 2^32 or  *)
(* more are lost in a row: these it cannot see.                            *)
(***************************************************************************)
THEOREM StreamDrops == StreamSpec /\ []NoLongLoss => []DropsCounted
<1>1. StreamInit => DropsCounted
  BY DEF StreamInit, DropsCounted
<1>2. BoardTypes /\ ArrivalTypes /\ Numbered /\ NoLongLoss /\ DropsCounted
          /\ [StreamNext]_streamVars => DropsCounted'
  BY DropsStep
<1>3. InvNow => BoardTypes /\ ArrivalTypes
  BY DEF InvNow, StreamTypeOK
<1>4. QED
  BY <1>1, <1>2, <1>3, StreamCorrect, StreamNumbered, PTL DEF StreamSpec

(***************************************************************************)
(* And without that condition as long as no more than 2^32 + 1 are sent.   *)
(***************************************************************************)
THEOREM FewDrops == ASSUME MaxTransfers <= SeqMod + 1
                    PROVE  StreamSpec => []DropsCounted
<1>1. BoardTypes /\ ArrivalTypes /\ Numbered => NoLongLoss
  BY FewTransfers
<1>2. InvNow => BoardTypes /\ ArrivalTypes
  BY DEF InvNow, StreamTypeOK
<1>3. QED
  BY <1>1, <1>2, StreamCorrect, StreamNumbered, StreamDrops, PTL

-----------------------------------------------------------------------------
(***************************************************************************)
(* The two queues together.  A step of the pair is a step of one.          *)
(***************************************************************************)
LEMMA QueuesSteps ==
    [QueuesNext]_queues => [FixedNext]_vars /\ [StreamNext]_streamVars
<1> SUFFICES ASSUME [QueuesNext]_queues
             PROVE  [FixedNext]_vars /\ [StreamNext]_streamVars
  OBVIOUS
<1>1. CASE Fifo_(FixedNext)
  BY <1>1 DEF Fifo_
<1>2. CASE Stream_(StreamNext)
  BY <1>2 DEF Stream_
<1>3. CASE UNCHANGED queues
  BY <1>3 DEF queues
<1>4. QED
  BY <1>1, <1>2, <1>3 DEF QueuesNext

(***************************************************************************)
(* So what the run of the pair checks holds for every size of either.      *)
(***************************************************************************)
THEOREM QueuesCorrect == QueuesSpec => []QueuesInv
<1>1. QueuesInit => Init /\ StreamInit
  BY DEF QueuesInit
<1>2. QueuesSpec => FixedSpec
  BY <1>1, QueuesSteps, PTL DEF QueuesSpec, FixedSpec
<1>3. FixedSpec => Spec
  BY FixedStepIsStep, PTL DEF FixedSpec, Spec
<1>4. QueuesSpec => []InvNow
  BY <1>1, QueuesSteps, InvInit, InvStep, PTL DEF QueuesSpec
<1>5. BoardTypes /\ ArrivalTypes /\ Numbered /\ [StreamNext]_streamVars => Numbered'
  BY NumberedStep
<1>6. InvNow => StreamTypeOK /\ StreamInv /\ BoardTypes /\ ArrivalTypes
  BY DEF InvNow, StreamTypeOK
<1>7. QueuesSpec => []Numbered
  BY <1>1, <1>4, <1>5, <1>6, QueuesSteps, NumberedInit, PTL DEF QueuesSpec
<1>8. TypeOK /\ RingConsistent /\ BatchCovered /\ InvNow /\ Numbered => QueuesInv
  BY <1>6 DEF QueuesInv
<1>9. QED
  BY <1>2, <1>3, <1>4, <1>7, <1>8, TypeCorrect, RingCorrect, BatchCorrect, PTL
=============================================================================
