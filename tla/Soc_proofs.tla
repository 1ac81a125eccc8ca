----------------------------- MODULE Soc_proofs -----------------------------
(***************************************************************************)
(* What both programs' proofs need of the chip they run on: the two FIFOs  *)
(* as sequences, and how their operations change these, for every capacity *)
(* and every set of words.                                                 *)
(***************************************************************************)
EXTENDS Soc, SequenceFacts

(***************************************************************************)
(* The registers of the input FIFO agree and its occupied slots hold       *)
(* pushed words; the same for the output FIFO, which has not failed.       *)
(***************************************************************************)
InputOrder == FI!RingType /\ FI!RingConsistent

OutputFifo == FO!FifoOutTypeOK /\ fo_st # "failed"

OutputRing == FO!RingConsistent

(***************************************************************************)
(* What may happen to the words of the one, and to the other.              *)
(***************************************************************************)
InputWords == \/ UNCHANGED <<fi_buf, fi_head, fi_tail, fi_count>>
              \/ fi_count > 0 /\ FI!Read
              \/ \E d \in Data : FI!Push(d)

OutputMove == UNCHANGED fifoOut \/ FO!Pop \/ \E r \in Results : FO!CpuAccess("W", r)

-----------------------------------------------------------------------------
(***************************************************************************)
(* The registers.                                                          *)
(***************************************************************************)
\* An occupied FIFO has a pushed word at its front.
LEMMA FrontTyped ==
    ASSUME InputOrder, fi_count > 0
    PROVE  FI!Front \in Data
BY CapacityAssumption
   DEF InputOrder, FI!RingType, FI!RingConsistent, FI!Offset, FI!Index, FI!Front

\* What a load does to the registers of an occupied input FIFO.
LEMMA ReadTakes ==
    ASSUME InputOrder, fi_count > 0, FI!Read
    PROVE  /\ fi_head' = FI!Wrap(fi_head) /\ fi_count' = fi_count - 1
           /\ UNCHANGED <<fi_buf, fi_tail>>
<1>1. fi_count # 0
  BY CapacityAssumption DEF InputOrder, FI!RingType
<1>2. QED
  BY <1>1, Zenon DEF FI!Read

\* The registers of the input FIFO stay in their ranges.
LEMMA InputRanges ==
    ASSUME InputOrder, InputWords
    PROVE  FI!RingType'
<1> USE CapacityAssumption DEF InputOrder, FI!RingType, FI!Index
<1>1. CASE fi_count > 0 /\ FI!Read
  BY <1>1, ReadTakes DEF FI!Wrap
<1>2. ASSUME NEW d \in Data, FI!Push(d)
      PROVE  FI!RingType'
  BY <1>2 DEF FI!Push, FI!Wrap
<1>3. CASE UNCHANGED <<fi_buf, fi_head, fi_tail, fi_count>>
  BY <1>3
<1>4. QED
  BY <1>1, <1>2, <1>3 DEF InputWords

\* Its occupied slots stay pushed words.
LEMMA InputAgrees ==
    ASSUME InputOrder, InputWords
    PROVE  FI!RingConsistent'
<1> USE CapacityAssumption DEF InputOrder, FI!RingType
<1>1. CASE fi_count > 0 /\ FI!Read
  <2>1. ASSUME NEW i \in FI!Index, i < fi_count'
        PROVE  fi_buf'[FI!Offset(i)'] \in Data
    <3>1. /\ fi_head' = FI!Wrap(fi_head) /\ fi_count' = fi_count - 1
          /\ fi_buf' = fi_buf
      BY <1>1, ReadTakes
    <3>2. /\ DEPTH_IN \in Nat \ {0} /\ fi_head \in 0 .. DEPTH_IN - 1
          /\ fi_count \in 0 .. DEPTH_IN /\ i \in 0 .. DEPTH_IN - 1
      BY DEF FI!Index
    <3>3. i + 1 \in FI!Index /\ i + 1 < fi_count
      BY <2>1, <3>1, <3>2 DEF FI!Index
    <3>4. FI!Offset(i)' = FI!Offset(i + 1)
      BY <3>1, <3>2 DEF FI!Wrap, FI!Offset
    <3>5. QED
      BY <3>1, <3>3, <3>4 DEF FI!RingConsistent
  <2>2. fi_tail' = IF fi_head' + fi_count' < DEPTH_IN THEN fi_head' + fi_count'
                   ELSE fi_head' + fi_count' - DEPTH_IN
    BY <1>1, ReadTakes DEF FI!RingConsistent, FI!Index, FI!Wrap
  <2>3. QED
    BY <2>1, <2>2 DEF FI!RingConsistent, FI!Index
<1>2. ASSUME NEW d \in Data, FI!Push(d)
      PROVE  FI!RingConsistent'
  <2>1. ASSUME NEW i \in FI!Index, i < fi_count'
        PROVE  fi_buf'[FI!Offset(i)'] \in Data
    <3>1. fi_tail = FI!Offset(fi_count) /\ FI!Offset(i) \in FI!Index
      BY <1>2 DEF FI!RingConsistent, FI!Index, FI!Offset
    <3>2. FI!Offset(i)' = FI!Offset(i)
      BY <1>2 DEF FI!Push, FI!Offset
    <3>3. CASE i = fi_count
      BY <1>2, <3>1, <3>2, <3>3 DEF FI!Push
    <3>4. CASE i # fi_count
      <4>1. i < fi_count
        BY <1>2, <2>1, <3>4 DEF FI!Push, FI!Index
      <4>2. FI!Offset(i) # fi_tail
        BY <1>2, <3>1, <4>1 DEF FI!Push, FI!Index, FI!Offset
      <4>3. QED
        BY <1>2, <3>1, <3>2, <4>1, <4>2 DEF FI!Push, FI!RingConsistent
    <3>5. QED
      BY <3>3, <3>4
  <2>2. fi_tail' = IF fi_head' + fi_count' < DEPTH_IN THEN fi_head' + fi_count'
                   ELSE fi_head' + fi_count' - DEPTH_IN
    <3>1. /\ fi_head \in 0 .. DEPTH_IN - 1 /\ fi_count \in Nat
          /\ DEPTH_IN \in Nat \ {0} /\ fi_tail \in Nat
      BY DEF FI!Index
    <3>4. /\ fi_count < DEPTH_IN /\ fi_head' = fi_head /\ fi_count' = fi_count + 1
          /\ fi_tail' = FI!Wrap(fi_tail)
      BY <1>2, Zenon DEF FI!Push
    <3>2. fi_tail = IF fi_head + fi_count < DEPTH_IN THEN fi_head + fi_count
                    ELSE fi_head + fi_count - DEPTH_IN
      BY DEF FI!RingConsistent
    <3>3. QED
      BY <3>1, <3>2, <3>4 DEF FI!Wrap
  <2>3. QED
    BY <2>1, <2>2 DEF FI!RingConsistent, FI!Index
<1>3. CASE UNCHANGED <<fi_buf, fi_head, fi_tail, fi_count>>
  BY <1>3 DEF FI!RingConsistent, FI!Index, FI!Offset
<1>4. QED
  BY <1>1, <1>2, <1>3 DEF InputWords

\* So they keep their order.
LEMMA InputKept == InputOrder /\ InputWords => InputOrder'
BY InputRanges, InputAgrees DEF InputOrder

\* The output FIFO only ever takes stores.
LEMMA OutputKept == OutputFifo /\ OutputMove => OutputFifo'
<1> SUFFICES ASSUME OutputFifo, OutputMove PROVE OutputFifo'
  OBVIOUS
<1> USE CapacityAssumption DEF OutputFifo, FO!FifoOutTypeOK, FO!Index
<1>1. CASE UNCHANGED fifoOut
  BY <1>1 DEF fifoOut
<1>2. CASE FO!Pop
  BY <1>2 DEF FO!Pop, FO!Wrap
<1>3. ASSUME NEW r \in Results, FO!CpuAccess("W", r)
      PROVE  OutputFifo'
  BY <1>3 DEF FO!CpuAccess, FO!Room, FO!Wrap
<1>4. QED
  BY <1>1, <1>2, <1>3 DEF OutputMove

-----------------------------------------------------------------------------
(***************************************************************************)
(* What the two FIFOs hold, and how their operations change it.            *)
(***************************************************************************)
\* The words of the input FIFO are a window of its buffer.
LEMMA InputWindow == FI!Contents = Window(fi_buf, fi_head, fi_count, DEPTH_IN)
BY DEF FI!Contents, FI!Offset, Window, Slot

\* So are the results of the output FIFO.
LEMMA OutputWindow == FO!Contents = Window(fo_buf, fo_head, fo_count, DEPTH_OUT)
BY DEF FO!Contents, FO!Offset, Window, Slot

\* The registers of the input FIFO as those of a window.
LEMMA InputRegisters ==
    ASSUME InputOrder
    PROVE  /\ DEPTH_IN \in Nat /\ fi_head \in 0 .. DEPTH_IN - 1
           /\ fi_count \in 0 .. DEPTH_IN
           /\ fi_buf \in [0 .. DEPTH_IN - 1 -> Data \cup {NoData}]
           /\ fi_tail = Slot(fi_head, fi_count, DEPTH_IN)
           /\ Holds(fi_buf, fi_head, fi_count, DEPTH_IN, Data)
BY CapacityAssumption
   DEF InputOrder, FI!RingType, FI!RingConsistent, FI!Offset, FI!Index, Slot, Holds

\* And those of the output FIFO.
LEMMA OutputRegisters ==
    ASSUME OutputFifo, OutputRing
    PROVE  /\ DEPTH_OUT \in Nat /\ fo_head \in 0 .. DEPTH_OUT - 1
           /\ fo_count \in 0 .. DEPTH_OUT
           /\ fo_buf \in [0 .. DEPTH_OUT - 1 -> Results \cup {NoData}]
           /\ fo_tail = Slot(fo_head, fo_count, DEPTH_OUT)
           /\ Holds(fo_buf, fo_head, fo_count, DEPTH_OUT, Results)
BY CapacityAssumption
   DEF OutputFifo, OutputRing, FO!FifoOutTypeOK, FO!RingConsistent, FO!Offset,
       FO!Index, Slot, Holds

\* The input FIFO holds words.
LEMMA InputSeq == InputOrder => FI!Contents \in Seq(Data)
BY InputRegisters, InputWindow, WindowSeq

\* The output FIFO holds results.
LEMMA OutputSeq == OutputFifo /\ OutputRing => FO!Contents \in Seq(Results)
BY OutputRegisters, OutputWindow, WindowSeq

\* A read takes the oldest word.
LEMMA InputGets ==
    ASSUME InputOrder, fi_count > 0, FI!Read
    PROVE  /\ FI!Contents # << >> /\ FI!Front = Head(FI!Contents)
           /\ FI!Contents' = Tail(FI!Contents)
<1>1. /\ fi_head' = IF fi_head + 1 = DEPTH_IN THEN 0 ELSE fi_head + 1
      /\ fi_count' = fi_count - 1 /\ fi_buf' = fi_buf
  BY ReadTakes DEF FI!Wrap
<1>2. FI!Contents' = Window(fi_buf', fi_head', fi_count', DEPTH_IN)
  BY DEF FI!Contents, FI!Offset, Window, Slot
<1>3. LET w == Window(fi_buf, fi_head, fi_count, DEPTH_IN)
          next == IF fi_head + 1 = DEPTH_IN THEN 0 ELSE fi_head + 1
      IN  /\ w # << >> /\ Head(w) = fi_buf[fi_head]
          /\ Window(fi_buf, next, fi_count - 1, DEPTH_IN) = Tail(w)
  BY InputRegisters, WindowGet
<1>4. QED
  BY <1>1, <1>2, <1>3, InputWindow DEF FI!Front

\* A push appends one.
LEMMA InputPuts ==
    ASSUME InputOrder, NEW d \in Data, FI!Push(d)
    PROVE  FI!Contents' = Append(FI!Contents, d)
<1>1. /\ fi_count < DEPTH_IN /\ fi_count' = fi_count + 1 /\ fi_head' = fi_head
      /\ fi_buf' = [fi_buf EXCEPT ![fi_tail] = d]
  BY DEF FI!Push
<1>2. FI!Contents' = Window(fi_buf', fi_head', fi_count', DEPTH_IN)
  BY DEF FI!Contents, FI!Offset, Window, Slot
<1>3. Window(fi_buf', fi_head, fi_count', DEPTH_IN)
          = Append(Window(fi_buf, fi_head, fi_count, DEPTH_IN), d)
  <2>1. /\ DEPTH_IN \in Nat /\ fi_head \in 0 .. DEPTH_IN - 1 /\ fi_count \in 0 .. DEPTH_IN - 1
        /\ fi_count' = fi_count + 1
    BY <1>1, InputRegisters
  <2>2. fi_buf' = [fi_buf EXCEPT ![Slot(fi_head, fi_count, DEPTH_IN)] = d]
        /\ DOMAIN fi_buf = 0 .. DEPTH_IN - 1
    BY <1>1, InputRegisters
  <2>3. Puts(fi_buf, fi_buf', fi_head, fi_count, DEPTH_IN, d)
    BY <2>1, <2>2, SlotsApart DEF Puts
  <2>4. Holds(fi_buf, fi_head, fi_count, DEPTH_IN, Data)
    BY InputRegisters
  <2>5. QED
    BY <2>1, <2>3, <2>4, WindowPut
<1>4. QED
  BY <1>1, <1>2, <1>3, InputWindow

\* A step that leaves these registers leaves the words.
LEMMA InputKeeps ==
    ASSUME UNCHANGED <<fi_buf, fi_head, fi_count>>
    PROVE  FI!Contents' = FI!Contents
BY DEF FI!Contents, FI!Offset

\* A pop takes the oldest result.
LEMMA OutputGets ==
    ASSUME OutputFifo, OutputRing, FO!Pop
    PROVE  FO!Contents # << >> /\ FO!Contents' = Tail(FO!Contents)
<1>1. /\ fo_count > 0 /\ fo_count' = fo_count - 1 /\ fo_buf' = fo_buf
      /\ fo_head' = IF fo_head + 1 = DEPTH_OUT THEN 0 ELSE fo_head + 1
  BY DEF FO!Pop, FO!Wrap
<1>2. FO!Contents' = Window(fo_buf', fo_head', fo_count', DEPTH_OUT)
  BY DEF FO!Contents, FO!Offset, Window, Slot
<1>3. QED
  BY <1>1, <1>2, OutputRegisters, OutputWindow, WindowGet

\* A store appends one.
LEMMA OutputPuts ==
    ASSUME OutputFifo, OutputRing, NEW r \in Results, FO!CpuAccess("W", r)
    PROVE  FO!Contents' = Append(FO!Contents, r)
<1>1. /\ fo_count < DEPTH_OUT /\ fo_count' = fo_count + 1 /\ fo_head' = fo_head
      /\ fo_buf' = [fo_buf EXCEPT ![fo_tail] = r]
  BY DEF FO!CpuAccess, FO!Room
<1>2. FO!Contents' = Window(fo_buf', fo_head', fo_count', DEPTH_OUT)
  BY DEF FO!Contents, FO!Offset, Window, Slot
<1>3. Window(fo_buf', fo_head, fo_count', DEPTH_OUT)
          = Append(Window(fo_buf, fo_head, fo_count, DEPTH_OUT), r)
  <2>1. /\ DEPTH_OUT \in Nat /\ fo_head \in 0 .. DEPTH_OUT - 1 /\ fo_count \in 0 .. DEPTH_OUT - 1
        /\ fo_count' = fo_count + 1
    BY <1>1, OutputRegisters
  <2>2. fo_buf' = [fo_buf EXCEPT ![Slot(fo_head, fo_count, DEPTH_OUT)] = r]
        /\ DOMAIN fo_buf = 0 .. DEPTH_OUT - 1
    BY <1>1, OutputRegisters
  <2>3. Puts(fo_buf, fo_buf', fo_head, fo_count, DEPTH_OUT, r)
    BY <2>1, <2>2, SlotsApart DEF Puts
  <2>4. Holds(fo_buf, fo_head, fo_count, DEPTH_OUT, Results)
    BY OutputRegisters
  <2>5. QED
    BY <2>1, <2>3, <2>4, WindowPut
<1>4. QED
  BY <1>1, <1>2, <1>3, OutputWindow

\* And the results.
LEMMA OutputKeeps ==
    ASSUME UNCHANGED fifoOut
    PROVE  FO!Contents' = FO!Contents
BY DEF FO!Contents, FO!Offset, fifoOut

\* The indices of the output FIFO agree with its count at the start.
LEMMA OutputRingInit == Init => OutputRing
BY CapacityAssumption
   DEF Init, FO!FifoOutInit, OutputRing, FO!RingConsistent, FO!Index

\* Every move of the FIFO keeps them so.
LEMMA OutputRingKept ==
    ASSUME OutputFifo, OutputRing, OutputMove
    PROVE  OutputRing'
<1> USE CapacityAssumption DEF OutputFifo, OutputRing, FO!FifoOutTypeOK
<1>1. CASE FO!Pop
  <2>1. /\ fo_head' = FO!Wrap(fo_head) /\ fo_count' = fo_count - 1 /\ fo_count > 0
        /\ fo_buf' = fo_buf /\ fo_tail' = fo_tail
    BY <1>1 DEF FO!Pop
  <2>2. ASSUME NEW i \in FO!Index, i < fo_count'
        PROVE  fo_buf'[FO!Offset(i)'] \in Results
    <3>1. i + 1 \in FO!Index /\ i + 1 < fo_count
      BY <2>1, <2>2 DEF FO!Index
    <3>2. FO!Offset(i)' = FO!Offset(i + 1)
      BY <2>1, <2>2 DEF FO!Wrap, FO!Offset, FO!Index
    <3>3. QED
      BY <2>1, <3>1, <3>2 DEF FO!RingConsistent
  <2>3. fo_tail' = IF fo_head' + fo_count' < DEPTH_OUT THEN fo_head' + fo_count'
                   ELSE fo_head' + fo_count' - DEPTH_OUT
    BY <2>1 DEF FO!RingConsistent, FO!Index, FO!Wrap
  <2>4. QED
    BY <2>2, <2>3 DEF FO!RingConsistent, FO!Index
<1>2. ASSUME NEW r \in Results, FO!CpuAccess("W", r)
      PROVE  OutputRing'
  <2>1. /\ fo_count < DEPTH_OUT /\ fo_count' = fo_count + 1 /\ fo_head' = fo_head
        /\ fo_buf' = [fo_buf EXCEPT ![fo_tail] = r] /\ fo_tail' = FO!Wrap(fo_tail)
    BY <1>2 DEF FO!CpuAccess, FO!Room
  <2>2. ASSUME NEW i \in FO!Index, i < fo_count'
        PROVE  fo_buf'[FO!Offset(i)'] \in Results
    <3>1. fo_tail = FO!Offset(fo_count) /\ FO!Offset(i) \in FO!Index
      BY <2>1 DEF FO!RingConsistent, FO!Index, FO!Offset
    <3>2. FO!Offset(i)' = FO!Offset(i)
      BY <2>1 DEF FO!Offset
    <3>3. CASE i = fo_count
      BY <2>1, <3>1, <3>2, <3>3
    <3>4. CASE i # fo_count
      <4>1. i < fo_count
        BY <2>1, <2>2, <3>4 DEF FO!Index
      <4>2. FO!Offset(i) # fo_tail
        BY <2>1, <3>1, <4>1 DEF FO!Index, FO!Offset
      <4>3. QED
        BY <2>1, <3>1, <3>2, <4>1, <4>2 DEF FO!RingConsistent
    <3>5. QED
      BY <3>3, <3>4
  <2>3. fo_tail' = IF fo_head' + fo_count' < DEPTH_OUT THEN fo_head' + fo_count'
                   ELSE fo_head' + fo_count' - DEPTH_OUT
    <3>1. /\ DEPTH_OUT \in Nat \ {0} /\ fo_head \in 0 .. DEPTH_OUT - 1
          /\ fo_count \in 0 .. DEPTH_OUT /\ fo_count < DEPTH_OUT
          /\ fo_count' = fo_count + 1 /\ fo_head' = fo_head
          /\ fo_tail = IF fo_head + fo_count < DEPTH_OUT THEN fo_head + fo_count
                       ELSE fo_head + fo_count - DEPTH_OUT
          /\ fo_tail' = IF fo_tail + 1 = DEPTH_OUT THEN 0 ELSE fo_tail + 1
      BY <2>1 DEF FO!RingConsistent, FO!Index, FO!Wrap
    <3>2. QED
      BY <3>1
  <2>4. QED
    BY <2>2, <2>3 DEF FO!RingConsistent, FO!Index
<1>3. CASE UNCHANGED fifoOut
  BY <1>3 DEF FO!RingConsistent, FO!Index, FO!Offset, fifoOut
<1>4. QED
  BY <1>1, <1>2, <1>3 DEF OutputMove
=============================================================================
