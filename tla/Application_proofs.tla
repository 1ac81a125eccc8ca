------------------------- MODULE Application_proofs -------------------------
(***************************************************************************)
(* The chip running the batch program, for every capacity, batch size and  *)
(* filter.  The invariant IInv survives warm resets at any time; ColdInv   *)
(* adds what holds when the chip boots once, DrainedInv what holds when it *)
(* is reset as the server does it.  The last part shows that the chip is   *)
(* the queue of EventPath.                                                 *)
(***************************************************************************)
EXTENDS Application, Soc_proofs

(***************************************************************************)
(* Every request the program can have in flight.                           *)
(***************************************************************************)
VectorReq  == [op |-> "W", base |-> 1, off |-> 0, val |-> Handler]
TriggerReq == [op |-> "W", base |-> 5, off |-> 0, val |-> BATCH]
EnableReq  == [op |-> "W", base |-> 1, off |-> 4 * NVectors, val |-> 1]
LoadReq    == [op |-> "R", base |-> 5, off |-> 0, val |-> 0]
ResultReqs == {[op |-> "W", base |-> 6, off |-> 0, val |-> r] : r \in Results}

Stores      == {VectorReq, TriggerReq, EnableReq} \cup ResultReqs
OuterStores == {TriggerReq} \cup ResultReqs

(***************************************************************************)
(* The routers carry stores, or the one load the CPU waits for.            *)
(***************************************************************************)
CoreStoring  == mmu_st = "idle" \/ (mmu_st = "route" /\ mmu_req \in Stores)
OuterStoring == dmx_st = "idle" \/ (dmx_st = "route" /\ dmx_req \in OuterStores)

LoadEntering == mmu_st = "route" /\ mmu_req = LoadReq /\ OuterStoring

LoadOutside == /\ mmu_st = "await" /\ mmu_req = LoadReq
               /\ dmx_req = LoadReq
               /\ dmx_st = "route" \/ (dmx_st = "reply" /\ dmx_rdata \in Data)

LoadBack == /\ mmu_st = "reply" /\ mmu_req = LoadReq /\ mmu_rdata \in Data
            /\ dmx_st = "idle"

RoutersFollow == IF cst = "load" THEN LoadEntering \/ LoadOutside \/ LoadBack
                                 ELSE CoreStoring /\ OuterStoring

RouterType == /\ mmu_req \in Requests \cup {NoRequest}
              /\ dmx_req \in Requests \cup {NoRequest}
              /\ mmu_rdata \in Data \cup {NoData}
              /\ dmx_rdata \in Data \cup {NoData}

(***************************************************************************)
(* Where the CPU is and what the program then holds.                       *)
(***************************************************************************)
CpuType == /\ pc \in Addresses
           /\ cst \in {"cold", "relay", "top", "fetch", "load", "wfi"}
           /\ v \in Seq(Data)

PcFollows == /\ cst \in {"cold", "relay"} => pc = ADDR_RESET
             /\ cst = "wfi" => pc = Idle
             /\ cst = "load" => pc \in Loads

Held == Len(v) = IF pc \in Loads THEN pc - Handler
                 ELSE IF pc \in Emits THEN LastEmit + 1 - pc
                 ELSE 0

Control == CpuType /\ PcFollows /\ Held

Traffic == RouterType /\ RoutersFollow

(***************************************************************************)
(* From main()'s second store on, the handler is installed.                *)
(***************************************************************************)
IntcType == /\ vectors \in [IC!Vectors -> Addresses]
            /\ enable_mask \in {0, 1}
            /\ holding \in {0, NoLine}

VectorPosted == pc = 2 /\ mmu_st = "route" /\ mmu_req = VectorReq

VectorSet == pc \in 2 .. LastEmit => vectors[0] = Handler \/ VectorPosted

(***************************************************************************)
(* The input FIFO: only ever configured to BATCH, and its watermark.       *)
(***************************************************************************)
Watermark ==
    /\ ~configured => fi_count = 0 /\ armed /\ fi_st = "select"
    /\ configured => trigger_level = BATCH
    /\ fi_st = "fire" => armed /\ fi_count >= BATCH
    /\ fi_st = "select" /\ armed => fi_count < BATCH
    /\ ~armed => fi_count + reads_since_fire >= BATCH

InputFifo == /\ FI!TypeOK /\ fi_st # "failed"
             /\ FI!RingConsistent
             /\ Watermark

(***************************************************************************)
(* The reads of the handler are those the FIFO counts.                     *)
(***************************************************************************)
Taken == pc - Handler + (IF "reply" \in {mmu_st, dmx_st} THEN 1 ELSE 0)

Unfinished == pc \in Loads /\ Taken < BATCH

BatchOwed == /\ Unfinished => /\ ~armed /\ holding = NoLine
                              /\ reads_since_fire = Taken
             /\ holding # NoLine => ~armed /\ reads_since_fire = 0

IInv == /\ Control /\ Traffic
        /\ IntcType /\ VectorSet
        /\ InputFifo /\ OutputFifo
        /\ BatchOwed
        /\ reset_ext \in BOOLEAN

(***************************************************************************)
(* With a single boot, nothing is under way until the relay is over, the   *)
(* trigger level is only written once the handler is installed, and every  *)
(* edge is either held for the CPU or being served.                        *)
(***************************************************************************)
TriggerSent == \/ configured
               \/ mmu_st = "route" /\ mmu_req = TriggerReq
               \/ dmx_st = "route" /\ dmx_req = TriggerReq

Booting == cst \in {"cold", "relay"}

BootQuiet == Booting => mmu_st = "idle" /\ dmx_st = "idle" /\ ~configured

InstalledFirst == TriggerSent => vectors[0] = Handler

EdgePending == ~armed => holding # NoLine \/ Unfinished

HeldEnabled == holding # NoLine => IC!Enabled(holding)

ColdInv == BootQuiet /\ InstalledFirst /\ EdgePending /\ HeldEnabled

-----------------------------------------------------------------------------
(***************************************************************************)
(* The program.                                                            *)
(***************************************************************************)
\* The program's regions are disjoint and cover its addresses.
LEMMA Regions ==
    /\ Addresses = 0 .. LastEmit \cup {ADDR_RESET}
    /\ BATCH \in Nat \ {0} /\ FirstEmit = 5 + BATCH /\ LastEmit = 4 + 2 * BATCH
    /\ ADDR_RESET \in Nat /\ ADDR_RESET \notin 0 .. LastEmit
    /\ Handler = 5 /\ Idle = 4
BY BatchAssumption, CodeAssumption
   DEF Addresses, AppCode, FirstEmit, LastEmit, Handler, Idle

\* The instruction at each address.
LEMMA CodeAt ==
    ASSUME NEW a \in Addresses
    PROVE  /\ a = ADDR_RESET => Code[a] = Bootloader
           /\ a = 0 => Code[a] = Instr("local", 0, 0, 0, 1)
           /\ a = 1 => Code[a] = Instr("store", 1, 0, Handler, 2)
           /\ a = 2 => Code[a] = Instr("store", 5, 0, BATCH, 3)
           /\ a = 3 => Code[a] = Instr("store", 1, 4 * NVectors, 1, 4)
           /\ a = Idle => Code[a] = Instr("wfi", 0, 0, 0, Idle)
           /\ a \in Loads => Code[a] = Instr("load", 5, 0, 0, a + 1)
           /\ a \in Emits => Code[a] = Instr("emit", 6, 0, 0,
                                       IF a = LastEmit THEN Idle ELSE a + 1)
<1>1. Code[a] = InstrAt(a)
  BY CodeAssumption, Zenon DEF AppCode, Addresses
<1>2. /\ a # ADDR_RESET \/ (a # 0 /\ a \notin 1 .. 3 /\ a # Idle
                             /\ a \notin Loads /\ a \notin Emits)
      /\ a # 0 \/ (a \notin 1 .. 3 /\ a # Idle /\ a \notin Loads /\ a \notin Emits)
      /\ a \notin 1 .. 3 \/ (a # Idle /\ a \notin Loads /\ a \notin Emits)
      /\ a # Idle \/ (a \notin Loads /\ a \notin Emits)
      /\ a \notin Loads \/ a \notin Emits
  BY Regions DEF Loads, Emits
<1>3. a \in 1 .. 3 => Code[a] = Main[a]
  BY <1>1, <1>2, Zenon DEF InstrAt
<1>4. a \in 1 .. 3 <=> a = 1 \/ a = 2 \/ a = 3
  BY Regions
<1>5. /\ Main[1] = Instr("store", 1, 0, Handler, 2)
      /\ Main[2] = Instr("store", 5, 0, BATCH, 3)
      /\ Main[3] = Instr("store", 1, 4 * NVectors, 1, 4)
  BY DEF Main, ADDR_INT_CTRL, ADDR_FIFO_IN
<1>6. /\ a = 1 => Code[a] = Instr("store", 1, 0, Handler, 2)
      /\ a = 2 => Code[a] = Instr("store", 5, 0, BATCH, 3)
      /\ a = 3 => Code[a] = Instr("store", 1, 4 * NVectors, 1, 4)
  BY <1>3, <1>4, <1>5, Zenon
<1>7. QED
  BY <1>1, <1>2, <1>6, Zenon
     DEF InstrAt, ADDR_MEM, ADDR_FIFO_IN, ADDR_FIFO_OUT

\* Its operation and its successor.
LEMMA OpAt ==
    ASSUME NEW a \in Addresses
    PROVE  /\ a = ADDR_RESET => Code[a].op = "local" /\ Code[a].next = 0
           /\ a = 0 => Code[a].op = "local" /\ Code[a].next = 1
           /\ a \in 1 .. 3 => Code[a].op = "store" /\ Code[a].next = a + 1
           /\ a = Idle => Code[a].op = "wfi"
           /\ a \in Loads => Code[a].op = "load" /\ Code[a].next = a + 1
           /\ a \in Emits => /\ Code[a].op = "emit" /\ Code[a].image = Image
                             /\ Code[a].next = IF a = LastEmit THEN Idle ELSE a + 1
<1>1. CASE a = ADDR_RESET
  <2>1. Code[a] = Bootloader
    BY <1>1, CodeAt
  <2>2. Code[a].op = "local" /\ Code[a].next = 0
    BY <2>1 DEF Bootloader
  <2>3. QED
    BY <1>1, <2>2, Regions DEF Loads, Emits
<1>2. CASE a = 0
  <2>1. Code[a] = Instr("local", 0, 0, 0, 1)
    BY <1>2, CodeAt
  <2>2. Code[a].op = "local" /\ Code[a].next = 1
    BY <2>1 DEF Instr
  <2>3. QED
    BY <1>2, <2>2, Regions DEF Loads, Emits
<1>3. CASE a = 1
  <2>1. Code[a] = Instr("store", 1, 0, Handler, 2)
    BY <1>3, CodeAt
  <2>2. Code[a].op = "store" /\ Code[a].next = 2
    BY <2>1 DEF Instr
  <2>3. QED
    BY <1>3, <2>2, Regions DEF Loads, Emits
<1>4. CASE a = 2
  <2>1. Code[a] = Instr("store", 5, 0, BATCH, 3)
    BY <1>4, CodeAt
  <2>2. Code[a].op = "store" /\ Code[a].next = 3
    BY <2>1 DEF Instr
  <2>3. QED
    BY <1>4, <2>2, Regions DEF Loads, Emits
<1>5. CASE a = 3
  <2>1. Code[a] = Instr("store", 1, 4 * NVectors, 1, 4)
    BY <1>5, CodeAt
  <2>2. Code[a].op = "store" /\ Code[a].next = 4
    BY <2>1 DEF Instr
  <2>3. QED
    BY <1>5, <2>2, Regions DEF Loads, Emits
<1>6. CASE a = Idle
  <2>1. Code[a] = Instr("wfi", 0, 0, 0, Idle)
    BY <1>6, CodeAt
  <2>2. Code[a].op = "wfi"
    BY <2>1 DEF Instr
  <2>3. QED
    BY <1>6, <2>2, Regions DEF Loads, Emits
<1>7. CASE a \in Loads
  <2>1. Code[a] = Instr("load", 5, 0, 0, a + 1)
    BY <1>7, CodeAt
  <2>2. Code[a].op = "load" /\ Code[a].next = a + 1
    BY <2>1 DEF Instr
  <2>3. QED
    BY <1>7, <2>2, Regions DEF Loads, Emits
<1>8. CASE a \in Emits
  <2> DEFINE n == IF a = LastEmit THEN Idle ELSE a + 1
  <2>1. Code[a] = Instr("emit", 6, 0, 0, n)
    BY <1>8, CodeAt
  <2>2. Code[a].op = "emit" /\ Code[a].image = Image /\ Code[a].next = n
    <3> HIDE DEF n
    <3>1. QED
      BY <2>1 DEF Instr
  <2>3. a # ADDR_RESET /\ a # 0 /\ a \notin 1 .. 3 /\ a # Idle /\ a \notin Loads
    BY <1>8, Regions DEF Loads, Emits
  <2>4. QED
    BY <2>2, <2>3
<1>9. QED
  BY <1>1, <1>2, <1>3, <1>4, <1>5, <1>6, <1>7, <1>8, Regions DEF Loads, Emits

\* The fields of the requests that tell them apart.
LEMMA RequestFields ==
    /\ VectorReq.op = "W" /\ VectorReq.base = 1 /\ VectorReq.off = 0
    /\ VectorReq.val = Handler
    /\ TriggerReq.op = "W" /\ TriggerReq.base = 5 /\ TriggerReq.val = BATCH
    /\ EnableReq.op = "W" /\ EnableReq.base = 1 /\ EnableReq.off = 4 * NVectors
    /\ EnableReq.val = 1
    /\ LoadReq.op = "R" /\ LoadReq.base = 5
    /\ \A r \in ResultReqs : r.op = "W" /\ r.base = 6 /\ r.val \in Results
BY DEF VectorReq, TriggerReq, EnableReq, LoadReq, ResultReqs

\* They are typed.
LEMMA RequestsTyped == Stores \cup {LoadReq} \subseteq Requests
<1>1. Handler \in Values /\ BATCH \in Values /\ 1 \in Values /\ 0 \in Values
  BY Regions DEF Values
<1>2. Results \subseteq Values
  BY DEF Values
<1>3. 4 * NVectors \in Nat
  BY LinesAssumption
<1>4. QED
  BY <1>1, <1>2, <1>3
     DEF Stores, VectorReq, TriggerReq, EnableReq, LoadReq, ResultReqs, Requests

\* What the store at each address sends, and a load.
LEMMA Sends ==
    ASSUME pc \in Addresses
    PROVE  /\ pc = 1 => CPU!Request = VectorReq
           /\ pc = 2 => CPU!Request = TriggerReq
           /\ pc = 3 => CPU!Request = EnableReq
           /\ pc \in Loads => CPU!Request = LoadReq
           /\ pc \in Emits =>
                CPU!Request = [op |-> "W", base |-> 6, off |-> 0,
                               val |-> Image[Head(v)]]
<1>1. CASE pc \in {1, 2, 3}
  <2>1. pc \notin Loads /\ pc \notin Emits
    BY <1>1, Regions DEF Loads, Emits
  <2>2. CASE pc = 1
    <3>1. Code[pc] = Instr("store", 1, 0, Handler, 2)
      BY <2>2, CodeAt
    <3>2. CPU!Request = VectorReq
      BY <3>1 DEF CPU!Request, Instr, VectorReq
    <3>3. QED
      BY <2>1, <2>2, <3>2
  <2>3. CASE pc = 2
    <3>1. Code[pc] = Instr("store", 5, 0, BATCH, 3)
      BY <2>3, CodeAt
    <3>2. CPU!Request = TriggerReq
      BY <3>1 DEF CPU!Request, Instr, TriggerReq
    <3>3. QED
      BY <2>1, <2>3, <3>2
  <2>4. CASE pc = 3
    <3>1. Code[pc] = Instr("store", 1, 4 * NVectors, 1, 4)
      BY <2>4, CodeAt
    <3>2. CPU!Request = EnableReq
      BY <3>1 DEF CPU!Request, Instr, EnableReq
    <3>3. QED
      BY <2>1, <2>4, <3>2
  <2>5. QED
    BY <1>1, <2>2, <2>3, <2>4
<1>2. CASE pc \in Loads
  <2>1. Code[pc] = Instr("load", 5, 0, 0, pc + 1)
    BY <1>2, CodeAt
  <2>2. pc \notin {1, 2, 3} /\ pc \notin Emits
    BY <1>2, Regions DEF Loads, Emits
  <2>3. QED
    BY <1>2, <2>1, <2>2 DEF CPU!Request, Instr, LoadReq
<1>3. CASE pc \in Emits
  <2> DEFINE n == IF pc = LastEmit THEN Idle ELSE pc + 1
  <2>1. Code[pc] = Instr("emit", 6, 0, 0, n)
    BY <1>3, CodeAt
  <2>2. pc \notin {1, 2, 3} /\ pc \notin Loads
    BY <1>3, Regions DEF Loads, Emits
  <2> HIDE DEF n
  <2>3. QED
    BY <1>3, <2>1, <2>2 DEF CPU!Request, Instr
<1>4. QED
  BY <1>1, <1>2, <1>3, Zenon

\* Which instructions there are where.
LEMMA OpRegion ==
    ASSUME pc \in Addresses
    PROVE  /\ Code[pc].op = "local" => pc \in {0, ADDR_RESET}
           /\ Code[pc].op = "store" => pc \in 1 .. 3
           /\ Code[pc].op = "wfi" => pc = Idle
           /\ Code[pc].op = "load" => pc \in Loads
           /\ Code[pc].op = "emit" => pc \in Emits
<1>1. \/ pc \in {0, ADDR_RESET} \/ pc \in 1 .. 3 \/ pc = Idle
      \/ pc \in Loads \/ pc \in Emits
  BY Regions DEF Loads, Emits
<1>2. QED
  BY <1>1, OpAt

-----------------------------------------------------------------------------
(***************************************************************************)
(* Every step under warm resets.  A step that keeps the CPU's registers is *)
(* one of the routers, of the FIFOs or of the environment.                 *)
(***************************************************************************)
Step == Next \/ WarmReset \/ AssertReset

CpuMove == \/ \E from \in {"cold", "top", "wfi"} : CPU!TakeReset(from)
           \/ CPU!Relayed \/ CPU!Proceed
           \/ CPU!ExecLocal \/ CPU!ExecStore
           \/ CPU!ExecSkip \/ CPU!ExecEmit
           \/ CPU!ExecLoad \/ CPU!ExecWfi
           \/ cst = "load" /\ CPU!Loaded(mmu_rdata) /\ mmu_st = "reply"
           \/ CPU!Wake(IC!Target) /\ holding # NoLine
           \/ UNCHANGED cpu

\* Every step is one of the CPU's moves.
LEMMA CpuMoves == [Step]_vars => CpuMove
<1> SUFFICES ASSUME [Step]_vars PROVE CpuMove
  OBVIOUS
<1>1. CASE UNCHANGED vars
  BY <1>1 DEF vars, CpuMove
<1>2. CASE CpuStep
  BY <1>2, Zenon DEF CpuStep, Probe, Execute, Access, LoadReply, CpuMove, MMU!Reply,
     CPU!Loaded
<1>3. CASE BusStep
  BY <1>3, Zenon DEF BusStep, WriteIntCtrl, ToDemux, ToFifoIn, ToFifoOut, DemuxReply,
     CpuMove
<1>4. CASE ColdBoot \/ ProbeReset \/ IdleReset
  BY <1>4 DEF ColdBoot, ProbeReset, IdleReset, Reset, CpuMove
<1>5. CASE Relay \/ FifoEvent \/ Wake
  BY <1>5, Zenon DEF Relay, FifoEvent, Wake, CpuMove, IC!Deliver, IC!Selecting
<1>6. CASE AssertReset \/ Ports
  BY <1>6, Zenon DEF AssertReset, Ports, Pop, Push, CpuMove
<1>7. QED
  BY <1>1, <1>2, <1>3, <1>4, <1>5, <1>6
     DEF Step, Next, Chip, PowerOn, WarmReset

\* The words held as the handler's program counter moves.
LEMMA HeldAt ==
    ASSUME Control
    PROVE  /\ pc \in Loads => pc \notin Emits /\ Len(v) = pc - Handler
           /\ pc \in Emits => pc \notin Loads /\ Len(v) = LastEmit + 1 - pc
           /\ pc \notin Loads /\ pc \notin Emits => Len(v) = 0
           /\ Len(v) \in 0 .. BATCH
<1>1. pc \in Loads => pc \notin Emits
  BY Regions DEF Loads, Emits
<1>2. QED
  BY <1>1, Regions DEF Control, Held, Loads, Emits

\* The CPU follows the program.
LEMMA ControlKept ==
    ASSUME Control, Traffic, IntcType, VectorSet, CpuMove
    PROVE  Control'
<1> USE DEF Control
<1> USE Regions
<1>1. ASSUME NEW from \in {"cold", "top", "wfi"}, CPU!TakeReset(from)
      PROVE  Control'
  <2>1. pc' = ADDR_RESET /\ cst' = "relay" /\ v' = << >>
    BY <1>1 DEF CPU!TakeReset
  <2>2. ADDR_RESET \notin Loads /\ ADDR_RESET \notin Emits
    BY DEF Loads, Emits
  <2>3. QED
    BY <2>1, <2>2 DEF CpuType, PcFollows, Held
<1>2. CASE CPU!Relayed \/ CPU!Proceed \/ UNCHANGED cpu
  BY <1>2 DEF CPU!Relayed, CPU!Proceed, cpu, CpuType, PcFollows, Held
<1>3. CASE CPU!ExecWfi \/ CPU!ExecLoad
  BY <1>3, OpRegion DEF CPU!ExecWfi, CPU!ExecLoad, CPU!At, CpuType, PcFollows, Held
<1>4. CASE CPU!ExecLocal \/ CPU!ExecStore
  <2>1. /\ v' = v /\ cst' = "top" /\ pc' \in 0 .. 4
        /\ pc \in 0 .. 3 \cup {ADDR_RESET}
    BY <1>4, OpRegion, OpAt
       DEF CPU!ExecLocal, CPU!ExecStore, CPU!At, CPU!Step, CpuType
  <2>2. Len(v) = 0
    BY <2>1 DEF Held, Loads, Emits
  <2>3. pc' \in Addresses /\ pc' \notin Loads /\ pc' \notin Emits
    BY <2>1 DEF Loads, Emits
  <2>4. QED
    BY <2>1, <2>2, <2>3 DEF CpuType, PcFollows, Held
<1>5. CASE CPU!ExecSkip \/ CPU!ExecEmit
  <2>1. /\ pc \in Emits /\ cst' = "top"
        /\ pc' = IF pc = LastEmit THEN Idle ELSE pc + 1
        /\ v' = Tail(v)
    BY <1>5, OpRegion, OpAt
       DEF CPU!ExecSkip, CPU!ExecEmit, CPU!Filtered, CPU!At, CPU!Step, CpuType
  <2>2. Len(v) = LastEmit + 1 - pc /\ v \in Seq(Data)
    BY <2>1, HeldAt DEF CpuType
  <2>3. Len(v) >= 1
    BY <2>1, <2>2 DEF Emits
  <2>4. v' \in Seq(Data) /\ Len(v') = Len(v) - 1
    BY <2>1, <2>2, <2>3
  <2>5. pc' \in Addresses /\ pc' \notin Loads
    BY <2>1 DEF Loads, Emits
  <2>6. Len(v') = IF pc' \in Emits THEN LastEmit + 1 - pc' ELSE 0
    <3>1. CASE pc = LastEmit
      <4>1. Len(v) = 1 /\ Len(v') = 0
        BY <2>2, <2>4, <3>1
      <4>2. pc' \notin Emits
        BY <2>1, <3>1 DEF Emits
      <4>3. QED
        BY <4>1, <4>2
    <3>2. CASE pc # LastEmit
      BY <2>1, <2>2, <2>4, <3>2 DEF Emits
    <3>3. QED
      BY <3>1, <3>2
  <2>7. QED
    BY <2>1, <2>4, <2>5, <2>6 DEF CpuType, PcFollows, Held
<1>6. CASE cst = "load" /\ CPU!Loaded(mmu_rdata) /\ mmu_st = "reply"
  <2>1. pc \in Loads /\ mmu_rdata \in Data
    BY <1>6 DEF PcFollows, Traffic, RoutersFollow, LoadEntering, LoadOutside, LoadBack
  <2>2. pc' = pc + 1 /\ cst' = "top" /\ v' = Append(v, mmu_rdata)
    BY <1>6, <2>1, OpAt DEF CPU!Loaded, CPU!Step, CpuType
  <2>3. Len(v) = pc - Handler /\ v \in Seq(Data)
    BY <2>1, HeldAt DEF CpuType
  <2>4. v' \in Seq(Data) /\ Len(v') = Len(v) + 1
    BY <2>1, <2>2, <2>3
  <2>5. QED
    BY <2>1, <2>2, <2>3, <2>4 DEF CpuType, PcFollows, Held, Loads, Emits
<1>7. CASE CPU!Wake(IC!Target) /\ holding # NoLine
  <2>1. pc = Idle /\ cst' = "top" /\ v' = v
    BY <1>7 DEF CPU!Wake, PcFollows
  <2>2. pc' = Handler
    BY <1>7, <2>1 DEF CPU!Wake, VectorSet, VectorPosted, IC!Target, IntcType
  <2>3. Len(v) = 0
    BY <2>1 DEF Held, Loads, Emits
  <2>4. QED
    BY <2>1, <2>2, <2>3 DEF CpuType, PcFollows, Held, Loads, Emits
<1>8. QED
  BY <1>1, <1>2, <1>3, <1>4, <1>5, <1>6, <1>7 DEF CpuMove

\* What an instruction that leaves the core posts.
LEMMA Posts ==
    ASSUME Control, Access
    PROVE  /\ cst = "fetch" /\ mmu_st = "idle" /\ mmu_st' = "route"
           /\ mmu_rdata' = mmu_rdata
           /\ \/ /\ pc \in 1 .. 3 /\ pc' = pc + 1 /\ cst' = "top"
                 /\ mmu_req' = IF pc = 1 THEN VectorReq
                               ELSE IF pc = 2 THEN TriggerReq ELSE EnableReq
              \/ /\ pc \in Emits /\ cst' = "top"
                 /\ pc' = IF pc = LastEmit THEN Idle ELSE pc + 1
                 /\ mmu_req' \in ResultReqs
              \/ /\ pc \in Loads /\ pc' = pc /\ cst' = "load"
                 /\ mmu_req' = LoadReq
<1>1. /\ cst = "fetch" /\ mmu_st = "idle" /\ mmu_st' = "route"
      /\ mmu_rdata' = mmu_rdata /\ mmu_req' = CPU!Request
  BY DEF Access, MMU!Take, CPU!ExecStore, CPU!ExecEmit, CPU!ExecLoad, CPU!At
<1>2. pc \in Addresses
  BY DEF Control, CpuType
<1>3. CASE CPU!ExecStore
  <2>1. pc \in 1 .. 3 /\ pc' = pc + 1 /\ cst' = "top"
    BY <1>2, <1>3, OpRegion, OpAt DEF CPU!ExecStore, CPU!At, CPU!Step
  <2>2. QED
    BY <1>1, <1>2, <2>1, Sends
<1>4. CASE CPU!ExecEmit
  <2>1. pc \in Emits
    BY <1>2, <1>4, OpRegion DEF CPU!ExecEmit, CPU!At
  <2>2. /\ Code[pc].image = Image
        /\ Code[pc].next = IF pc = LastEmit THEN Idle ELSE pc + 1
    BY <1>2, <2>1, OpAt
  <2>3. cst' = "top" /\ pc' = IF pc = LastEmit THEN Idle ELSE pc + 1
    BY <1>4, <2>2 DEF CPU!ExecEmit, CPU!Step
  <2>4. Image[Head(v)] # Dropped
    BY <1>4, <2>2 DEF CPU!ExecEmit, CPU!Filtered
  <2>5. v \in Seq(Data) /\ Len(v) >= 1
    BY <2>1, HeldAt, Regions DEF Control, CpuType, Emits
  <2>6. Image[Head(v)] \in Results
    BY <2>4, <2>5, ImageAssumption
  <2>7. CPU!Request \in ResultReqs
    BY <1>2, <2>1, <2>6, Sends DEF ResultReqs
  <2>8. QED
    BY <1>1, <2>1, <2>3, <2>7
<1>5. CASE CPU!ExecLoad
  BY <1>1, <1>2, <1>5, OpRegion, Sends DEF CPU!ExecLoad, CPU!At
<1>6. QED
  BY <1>3, <1>4, <1>5 DEF Access

\* The input FIFO keeps its order.
LEMMA InputOrdered == InputFifo => InputOrder
BY DEF InputFifo, InputOrder, FI!TypeOK

\* A load that reaches the input FIFO finds a word there.
LEMMA LoadCovered ==
    ASSUME Control, Traffic, InputFifo, BatchOwed, ToFifoIn, dmx_req.op = "R"
    PROVE  /\ cst = "load" /\ LoadOutside /\ dmx_st = "route"
           /\ ~armed /\ fi_count > 0 /\ reads_since_fire = pc - Handler
<1>1. dmx_st = "route" /\ dmx_req \notin OuterStores
  BY RequestFields DEF ToFifoIn, Demux!Exchange, OuterStores
<1>2. cst = "load" /\ LoadOutside
  BY <1>1 DEF Traffic, RoutersFollow, LoadEntering, LoadBack, OuterStoring
<1>3. pc \in Loads /\ Taken = pc - Handler
  BY <1>1, <1>2, Regions DEF Control, PcFollows, LoadOutside, Taken, Loads
<1>4. Unfinished
  BY <1>3, Regions DEF Unfinished, Loads
<1>5. ~armed /\ reads_since_fire = Taken
  BY <1>4 DEF BatchOwed
<1>6. fi_count + reads_since_fire >= BATCH
  BY <1>5 DEF InputFifo, Watermark
<1>7. reads_since_fire < BATCH /\ reads_since_fire \in Nat
  BY <1>3, <1>5, Regions DEF Loads
<1>8. fi_count > 0
  BY <1>6, <1>7, Regions, CapacityAssumption DEF InputFifo, FI!TypeOK, FI!RingType
<1>9. QED
  BY <1>1, <1>2, <1>3, <1>5, <1>8

(***************************************************************************)
(* Every other step leaves the routers alone and starts or ends no load.   *)
(***************************************************************************)
Quiet == /\ UNCHANGED <<mmu, demux>>
         /\ cst' = "load" <=> cst = "load"

\* The steps that touch the routers, and the rest.
LEMMA QuietSteps ==
    ASSUME [Step]_vars
    PROVE  \/ Access \/ LoadReply \/ WriteIntCtrl \/ ToDemux
           \/ ToFifoIn \/ ToFifoOut \/ DemuxReply
           \/ Quiet
<1> USE DEF Quiet
<1>1. CASE UNCHANGED vars
  BY <1>1 DEF vars, cpu
<1>2. CASE ColdBoot \/ ProbeReset \/ IdleReset
  BY <1>2 DEF ColdBoot, ProbeReset, IdleReset, Reset, CPU!TakeReset
<1>3. CASE Relay \/ Probe \/ Wake
  BY <1>3 DEF Relay, Probe, Wake, CPU!Relayed, CPU!Proceed, CPU!Wake
<1>4. CASE Execute
  BY <1>4 DEF Execute, CPU!ExecLocal, CPU!ExecSkip, CPU!Filtered, CPU!ExecWfi, CPU!Step,
              CPU!At
<1>5. CASE FifoEvent \/ AssertReset \/ Ports
  BY <1>5 DEF FifoEvent, AssertReset, Ports, Pop, Push, cpu
<1>6. QED
  BY <1>1, <1>2, <1>3, <1>4, <1>5
     DEF Step, Next, Chip, PowerOn, WarmReset, CpuStep, BusStep

\* What the program's requests look like to a router.
LEMMA StoreOrLoad ==
    /\ \A r \in Stores : ~MMU!IsRead(r) /\ ~Demux!IsRead(r) /\ r # LoadReq
    /\ \A r \in Stores : r.base >= 4 => r \in OuterStores
    /\ \A r \in OuterStores : ~Demux!IsRead(r) /\ r # LoadReq /\ r.base \in {5, 6}
    /\ MMU!IsRead(LoadReq) /\ Demux!IsRead(LoadReq)
    /\ Stores \cup OuterStores \cup {LoadReq} \subseteq Requests
BY RequestFields, RequestsTyped DEF Stores, OuterStores, MMU!IsRead, Demux!IsRead

\* Requests travel outwards one by one and answers come back to their load.
LEMMA TrafficKept ==
    ASSUME Control, Traffic, InputFifo, BatchOwed, [Step]_vars
    PROVE  Traffic'
<1> USE DEF Traffic
<1>1. CASE Access
  <2>1. /\ mmu_st' = "route" /\ mmu_rdata' = mmu_rdata
        /\ \/ cst' = "top" /\ mmu_req' \in Stores
           \/ cst' = "load" /\ mmu_req' = LoadReq
    BY <1>1, Posts DEF Stores
  <2>2. OuterStoring /\ UNCHANGED demux
    BY <1>1, Posts DEF RoutersFollow, Access
  <2>3. QED
    BY <2>1, <2>2, StoreOrLoad
       DEF RouterType, RoutersFollow, LoadEntering, CoreStoring, OuterStoring, demux
<1>2. CASE LoadReply
  <2>1. LoadBack
    BY <1>2 DEF LoadReply, CPU!Loaded, MMU!Reply, RoutersFollow, LoadEntering,
                LoadOutside
  <2>2. /\ mmu_st' = "idle" /\ mmu_req' = mmu_req /\ mmu_rdata' = mmu_rdata
        /\ UNCHANGED demux /\ cst' = "top"
    BY <1>2 DEF LoadReply, CPU!Loaded, CPU!Step, MMU!Reply
  <2>3. QED
    BY <2>1, <2>2 DEF RouterType, RoutersFollow, LoadBack, CoreStoring, OuterStoring,
                      demux
<1>3. CASE WriteIntCtrl
  <2>1. /\ mmu_st = "route" /\ mmu_req.base = 1 /\ UNCHANGED <<cst, demux>>
        /\ mmu_st' = IF MMU!IsRead(mmu_req) THEN "await" ELSE "idle"
        /\ mmu_req' = mmu_req /\ mmu_rdata' = mmu_rdata
    BY <1>3 DEF WriteIntCtrl, MMU!Send, ADDR_INT_CTRL, cpu
  <2>2. mmu_req \in Stores /\ OuterStoring /\ cst # "load"
    BY <2>1, RequestFields
       DEF RoutersFollow, LoadEntering, LoadOutside, LoadBack, CoreStoring
  <2>3. QED
    BY <2>1, <2>2, StoreOrLoad
       DEF RouterType, RoutersFollow, CoreStoring, OuterStoring, demux
<1>4. CASE ToDemux
  <2>1. /\ mmu_st = "route" /\ mmu_req.base >= 4
        /\ mmu_st' = IF MMU!IsRead(mmu_req) THEN "await" ELSE "idle"
        /\ mmu_req' = mmu_req /\ mmu_rdata' = mmu_rdata
        /\ dmx_st' = "route" /\ dmx_req' = mmu_req /\ dmx_rdata' = dmx_rdata
        /\ cst' = cst
    BY <1>4 DEF ToDemux, MMU!Send, Demux!Take, ADDR_EXT_MIN, cpu
  <2>2. CASE cst = "load"
    <3>1. mmu_req = LoadReq
      BY <2>1, <2>2 DEF RoutersFollow, LoadEntering, LoadOutside, LoadBack
    <3>2. QED
      BY <2>1, <2>2, <3>1, StoreOrLoad DEF RouterType, RoutersFollow, LoadOutside
  <2>3. CASE cst # "load"
    <3>1. mmu_req \in Stores
      BY <2>1, <2>3 DEF RoutersFollow, CoreStoring
    <3>2. QED
      BY <2>1, <2>3, <3>1, StoreOrLoad
         DEF RouterType, RoutersFollow, CoreStoring, OuterStoring
  <2>4. QED
    BY <2>2, <2>3
<1>5. CASE ToFifoIn
  <2>1. /\ dmx_st = "route" /\ UNCHANGED <<cst, mmu>> /\ dmx_req' = dmx_req
        /\ dmx_st' = IF Demux!IsRead(dmx_req) THEN "reply" ELSE "idle"
        /\ dmx_rdata' = IF Demux!IsRead(dmx_req) THEN FI!Front ELSE dmx_rdata
    BY <1>5 DEF ToFifoIn, Demux!Exchange, cpu
  <2>2. CASE dmx_req.op = "R"
    <3>1. cst = "load" /\ LoadOutside /\ FI!Front \in Data
      BY <1>5, <2>2, LoadCovered, InputOrdered, FrontTyped
    <3>2. Demux!IsRead(dmx_req)
      BY <2>2 DEF Demux!IsRead
    <3>3. QED
      BY <2>1, <3>1, <3>2 DEF RouterType, RoutersFollow, LoadOutside, mmu
  <2>3. CASE dmx_req.op # "R"
    <3>1. dmx_req \in OuterStores
      BY <2>1, <2>3, RequestFields
         DEF RoutersFollow, LoadEntering, LoadOutside, LoadBack, OuterStoring
    <3>2. dmx_st' = "idle" /\ dmx_rdata' = dmx_rdata
      BY <2>1, <3>1, StoreOrLoad
    <3>3. LoadEntering \/ (cst # "load" /\ CoreStoring)
      BY <2>1, <3>1, StoreOrLoad DEF RoutersFollow, LoadOutside, LoadBack
    <3>4. QED
      BY <2>1, <3>2, <3>3
         DEF RouterType, RoutersFollow, LoadEntering, CoreStoring, OuterStoring, mmu
  <2>4. QED
    BY <2>2, <2>3
<1>6. CASE ToFifoOut
  <2>1. /\ dmx_st = "route" /\ dmx_req.base = 6 /\ UNCHANGED <<cst, mmu>>
        /\ dmx_st' = IF Demux!IsRead(dmx_req) THEN "await" ELSE "idle"
        /\ dmx_req' = dmx_req /\ dmx_rdata' = dmx_rdata
    BY <1>6 DEF ToFifoOut, Demux!Send, ADDR_FIFO_OUT, cpu
  <2>2. dmx_req \in OuterStores
    BY <2>1, RequestFields
       DEF RoutersFollow, LoadEntering, LoadOutside, LoadBack, OuterStoring
  <2>3. dmx_st' = "idle"
    BY <2>1, <2>2, StoreOrLoad
  <2>4. LoadEntering \/ (cst # "load" /\ CoreStoring)
    BY <2>1, <2>2, StoreOrLoad DEF RoutersFollow, LoadOutside, LoadBack
  <2>5. QED
    BY <2>1, <2>3, <2>4
       DEF RouterType, RoutersFollow, LoadEntering, CoreStoring, OuterStoring, mmu
<1>7. CASE DemuxReply
  <2>1. /\ dmx_st = "reply" /\ dmx_st' = "idle" /\ dmx_req' = dmx_req
        /\ dmx_rdata' = dmx_rdata
        /\ mmu_st = "await" /\ mmu_st' = "reply" /\ mmu_req' = mmu_req
        /\ mmu_rdata' = dmx_rdata /\ cst' = cst
    BY <1>7 DEF DemuxReply, Demux!Reply, MMU!Answer, cpu
  <2>2. cst = "load" /\ LoadOutside
    BY <2>1 DEF RoutersFollow, LoadEntering, LoadBack, CoreStoring
  <2>3. QED
    BY <2>1, <2>2 DEF RouterType, RoutersFollow, LoadOutside, LoadBack
<1>8. CASE Quiet
  BY <1>8, Zenon
     DEF Quiet, mmu, demux, RouterType, RoutersFollow, LoadEntering, LoadOutside,
         LoadBack, CoreStoring, OuterStoring
<1>9. QED
  BY <1>1, <1>2, <1>3, <1>4, <1>5, <1>6, <1>7, <1>8, QuietSteps

-----------------------------------------------------------------------------
(***************************************************************************)
(* The FIFOs.                                                              *)
(***************************************************************************)
InputMove == \/ UNCHANGED fifoIn
             \/ fi_count > 0 /\ ~armed /\ FI!Read
             \/ FI!SetTrigger(BATCH)
             \/ FI!Fire
             \/ \E d \in Data : FI!Push(d)

\* What the program and the environment do to them.
LEMMA FifoMoves ==
    ASSUME Control, Traffic, InputFifo, BatchOwed, [Step]_vars
    PROVE  InputMove /\ OutputMove
<1> USE DEF InputMove, OutputMove
<1>1. CASE ToFifoIn
  <2>1. UNCHANGED fifoOut
    BY <1>1 DEF ToFifoIn
  <2>2. CASE dmx_req.op = "R"
    BY <1>1, <2>1, <2>2, LoadCovered DEF ToFifoIn
  <2>3. CASE dmx_req.op # "R"
    <3>1. dmx_st = "route" /\ dmx_req.base = 5 /\ FI!SetTrigger(dmx_req.val)
      BY <1>1, <2>3 DEF ToFifoIn, Demux!Exchange, ADDR_FIFO_IN
    <3>2. dmx_req = TriggerReq
      BY <2>3, <3>1, RequestFields
         DEF Traffic, RoutersFollow, LoadEntering, LoadOutside, LoadBack,
             OuterStoring, OuterStores
    <3>3. QED
      BY <2>1, <3>1, <3>2, RequestFields
  <2>4. QED
    BY <2>2, <2>3
<1>2. CASE ToFifoOut
  <2>1. dmx_st = "route" /\ dmx_req.base = 6 /\ UNCHANGED fifoIn
    BY <1>2 DEF ToFifoOut, Demux!Send, ADDR_FIFO_OUT
  <2>2. dmx_req \in ResultReqs
    BY <2>1, RequestFields
       DEF Traffic, RoutersFollow, LoadEntering, LoadOutside, LoadBack,
           OuterStoring, OuterStores
  <2>3. dmx_req.op = "W" /\ dmx_req.val \in Results
    BY <2>2, RequestFields
  <2>4. QED
    BY <1>2, <2>1, <2>3 DEF ToFifoOut
<1>3. CASE FifoEvent \/ Ports
  BY <1>3 DEF FifoEvent, Ports, Push, Pop
<1>4. CASE UNCHANGED vars
  BY <1>4 DEF vars
<1>5. CASE CpuStep \/ WriteIntCtrl \/ ToDemux \/ DemuxReply
  BY <1>5 DEF CpuStep, Probe, Execute, Access, LoadReply, WriteIntCtrl, ToDemux,
              DemuxReply
<1>6. CASE ColdBoot \/ WarmReset \/ Relay \/ Wake \/ AssertReset
  BY <1>6 DEF ColdBoot, WarmReset, ProbeReset, IdleReset, Reset, Relay, Wake,
              AssertReset
<1>7. QED
  BY <1>1, <1>2, <1>3, <1>4, <1>5, <1>6 DEF Step, Next, Chip, PowerOn, BusStep

\* What a covered load does to the input FIFO.
LEMMA ReadEffect ==
    ASSUME FI!TypeOK, fi_count > 0, ~armed, FI!Read
    PROVE  /\ fi_st = "select"
           /\ fi_head' = FI!Wrap(fi_head) /\ fi_count' = fi_count - 1
           /\ UNCHANGED <<fi_buf, fi_tail, trigger_level, configured>>
           /\ reads_since_fire' = reads_since_fire + 1
           /\ armed' \in BOOLEAN
           /\ armed' <=> reads_since_fire' >= trigger_level
           /\ fi_st' = FI!NextState(armed', fi_count')
<1>1. fi_count # 0
  BY CapacityAssumption DEF FI!TypeOK, FI!RingType
<1>2. armed' = FI!Rearmed(reads_since_fire')
  BY <1>1 DEF FI!Read
<1>3. armed' \in BOOLEAN /\ (armed' <=> reads_since_fire' >= trigger_level)
  BY <1>2, Zenon DEF FI!Rearmed
<1>4. QED
  BY <1>1, <1>3, Zenon DEF FI!Read

\* The input FIFO stays typed.
LEMMA InputTyped ==
    ASSUME FI!TypeOK, fi_st # "failed", InputMove
    PROVE  FI!TypeOK' /\ fi_st' # "failed"
<1> USE CapacityAssumption, LevelsAssumption, BatchAssumption
        DEF FI!TypeOK, FI!RingType, FI!LevelType, FI!ControlType, FI!States, FI!Index
<1>1. CASE UNCHANGED fifoIn
  BY <1>1 DEF fifoIn
<1>2. CASE fi_count > 0 /\ ~armed /\ FI!Read
  <2>1. /\ fi_head' = FI!Wrap(fi_head) /\ fi_count' = fi_count - 1
        /\ UNCHANGED <<fi_buf, fi_tail, trigger_level, configured>>
        /\ reads_since_fire' = reads_since_fire + 1
        /\ armed' \in BOOLEAN /\ fi_st' = FI!NextState(armed', fi_count')
    BY <1>2, ReadEffect, Zenon
  <2>2. fi_head' \in FI!Index /\ fi_count' \in 0 .. DEPTH_IN
    BY <1>2, <2>1 DEF FI!Wrap
  <2>3. fi_st' \in {"select", "fire"}
    BY <2>1, Zenon DEF FI!NextState
  <2>4. QED
    BY <2>1, <2>2, <2>3
<1>3. CASE FI!SetTrigger(BATCH)
  BY <1>3 DEF FI!SetTrigger, FI!ring
<1>4. CASE FI!Fire
  BY <1>4 DEF FI!Fire, FI!ring
<1>5. ASSUME NEW d \in Data, FI!Push(d)
      PROVE  FI!TypeOK' /\ fi_st' # "failed"
  <2>1. FI!RingType' /\ FI!LevelType'
    <3>1. /\ fi_count < DEPTH_IN /\ fi_count' = fi_count + 1 /\ fi_head' = fi_head
          /\ fi_buf' = [fi_buf EXCEPT ![fi_tail] = d] /\ fi_tail' = FI!Wrap(fi_tail)
          /\ UNCHANGED <<trigger_level, reads_since_fire>>
      BY <1>5, Zenon DEF FI!Push
    <3>2. fi_count' \in 0 .. DEPTH_IN /\ fi_tail' \in FI!Index
      BY <3>1 DEF FI!Wrap
    <3>3. fi_buf' \in [FI!Index -> Data \cup {NoData}]
      BY <3>1
    <3>4. QED
      BY <3>1, <3>2, <3>3
  <2>2. configured' = configured /\ armed' = armed
    BY <1>5, Zenon DEF FI!Push
  <2>3. fi_st' \in {"select", "fire"}
    BY <1>5, Zenon DEF FI!Push, FI!NextState
  <2>4. QED
    BY <2>1, <2>2, <2>3
<1>6. QED
  BY <1>1, <1>2, <1>3, <1>4, <1>5 DEF InputMove

\* Its words move as in any program.
LEMMA InputMoves == InputMove => InputWords
BY DEF InputMove, InputWords, fifoIn, FI!SetTrigger, FI!Fire, FI!ring

\* It keeps its watermark at BATCH.
LEMMA InputWatermark ==
    ASSUME FI!TypeOK, fi_st # "failed", Watermark, InputMove
    PROVE  Watermark'
<1>1. fi_count \in Nat /\ reads_since_fire \in Nat /\ BATCH \in Nat \ {0}
  BY CapacityAssumption, BatchAssumption DEF FI!TypeOK, FI!RingType, FI!LevelType
<1>2. CASE UNCHANGED fifoIn
  BY <1>2 DEF fifoIn, Watermark
<1>3. CASE fi_count > 0 /\ ~armed /\ FI!Read
  <2>1. /\ configured /\ configured' /\ trigger_level = BATCH
        /\ trigger_level' = BATCH
        /\ fi_count' + reads_since_fire' = fi_count + reads_since_fire
        /\ fi_count + reads_since_fire >= BATCH
    BY <1>1, <1>3, ReadEffect DEF Watermark
  <2>2. fi_st' = FI!NextState(armed', fi_count')
    BY <1>3, ReadEffect
  <2>3. armed' /\ fi_count' >= BATCH => fi_st' = "fire"
    BY <2>1, <2>2, Zenon DEF FI!NextState
  <2>4. fi_st' = "fire" => armed' /\ fi_count' >= BATCH
    BY <2>1, <2>2 DEF FI!NextState
  <2>5. fi_count' < BATCH \/ fi_count' >= BATCH
    BY <1>1, <1>3, ReadEffect
  <2>6. QED
    BY <2>1, <2>3, <2>4, <2>5 DEF Watermark
<1>4. CASE FI!SetTrigger(BATCH)
  BY <1>1, <1>4 DEF FI!SetTrigger, FI!ring, Watermark
<1>5. CASE FI!Fire
  BY <1>1, <1>5 DEF FI!Fire, FI!ring, Watermark
<1>6. ASSUME NEW d \in Data, FI!Push(d)
      PROVE  Watermark'
  <2>1. /\ configured /\ configured' /\ trigger_level = BATCH
        /\ trigger_level' = BATCH /\ armed' = armed
        /\ reads_since_fire' = reads_since_fire
        /\ fi_count' = fi_count + 1
        /\ fi_st' = FI!NextState(armed, fi_count')
    BY <1>6 DEF FI!Push, Watermark
  <2>2. armed /\ fi_count' >= BATCH => fi_st' = "fire"
    BY <2>1, Zenon DEF FI!NextState
  <2>3. fi_st' = "fire" => armed /\ fi_count' >= BATCH
    BY <2>1 DEF FI!NextState
  <2>4. QED
    BY <1>1, <2>1, <2>2, <2>3 DEF Watermark
<1>7. QED
  BY <1>2, <1>3, <1>4, <1>5, <1>6 DEF InputMove

-----------------------------------------------------------------------------
(***************************************************************************)
(* The interrupt controller and the deliveries.                            *)
(***************************************************************************)
InstallVector == /\ holding = NoLine /\ holding' = NoLine
                 /\ mmu_st = "route" /\ mmu_req = VectorReq
                 /\ vectors' = [vectors EXCEPT ![0] = Handler]
                 /\ enable_mask' = enable_mask

EnableLine == /\ holding = NoLine /\ holding' = NoLine
              /\ mmu_st = "route" /\ mmu_req = EnableReq
              /\ vectors' = vectors
              /\ enable_mask' = 1

\* Offset 0 is the vector of line 0 and is not the enable register.
LEMMA VectorZero ==
    IC!VectorIndex(0) = 0 /\ IC!ADDR_INT_CTRL_ENABLE # 0 /\ 0 \in IC!Vectors
<1>1. 0 \div 4 = 0 /\ 0 % NVectors = 0
  BY LinesAssumption
<1>2. QED
  BY <1>1, LinesAssumption DEF IC!VectorIndex, IC!ADDR_INT_CTRL_ENABLE, IC!Vectors

\* The only stores it gets are the two of main().
LEMMA StoreSets ==
    ASSUME Traffic, WriteIntCtrl
    PROVE  InstallVector \/ EnableLine
<1>1. /\ mmu_st = "route" /\ mmu_req.base = 1
      /\ IC!WriteRegister(mmu_req.off, mmu_req.val)
  BY DEF WriteIntCtrl, MMU!Send, ADDR_INT_CTRL
<1>2. mmu_req = VectorReq \/ mmu_req = EnableReq
  BY <1>1, RequestFields
     DEF Traffic, RoutersFollow, LoadEntering, LoadOutside, LoadBack, CoreStoring,
         Stores
<1>3. CASE mmu_req = VectorReq
  <2>1. IC!WriteVector(0, Handler)
    BY <1>1, <1>3, RequestFields, VectorZero DEF IC!WriteRegister
  <2>2. QED
    BY <1>1, <1>3, <2>1, VectorZero DEF IC!WriteVector, IC!Selecting, InstallVector
<1>4. CASE mmu_req = EnableReq
  <2>1. IC!WriteEnable(1)
    BY <1>1, <1>4, RequestFields DEF IC!WriteRegister, IC!ADDR_INT_CTRL_ENABLE
  <2>2. QED
    BY <1>1, <1>4, <2>1 DEF IC!WriteEnable, IC!Selecting, EnableLine
<1>5. QED
  BY <1>2, <1>3, <1>4

\* What the other components do to it.
LEMMA IntcMoves ==
    ASSUME Traffic, [Step]_vars
    PROVE  WriteIntCtrl \/ UNCHANGED intc \/ Relay \/ FifoEvent \/ Wake
<1>1. CASE UNCHANGED vars
  BY <1>1 DEF vars
<1>2. CASE CpuStep \/ ToDemux \/ ToFifoIn \/ ToFifoOut \/ DemuxReply
  BY <1>2 DEF CpuStep, Probe, Execute, Access, LoadReply, ToDemux, ToFifoIn,
              ToFifoOut, DemuxReply
<1>3. CASE ColdBoot \/ WarmReset \/ AssertReset \/ Ports
  BY <1>3 DEF ColdBoot, WarmReset, ProbeReset, IdleReset, Reset, AssertReset, Ports,
              Push, Pop
<1>4. QED
  BY <1>1, <1>2, <1>3 DEF Step, Next, Chip, PowerOn, BusStep

\* Its registers stay typed.
LEMMA IntcTyped ==
    ASSUME Traffic, IntcType, [Step]_vars
    PROVE  IntcType'
<1> USE LinesAssumption, LineAssumption, Regions, VectorZero DEF IntcType
<1>1. CASE UNCHANGED intc
  BY <1>1 DEF intc
<1>2. CASE Relay
  BY <1>2 DEF Relay, IC!ResetIntCtrl
<1>3. CASE FifoEvent
  BY <1>3 DEF FifoEvent, IC!Accept
<1>4. CASE Wake
  BY <1>4 DEF Wake, IC!Deliver
<1>5. CASE WriteIntCtrl
  BY <1>5, StoreSets DEF InstallVector, EnableLine
<1>6. QED
  BY <1>1, <1>2, <1>3, <1>4, <1>5, IntcMoves

\* The CPU is only woken at the installed handler.
LEMMA WokenAtHandler ==
    ASSUME Control, IntcType, VectorSet, Wake
    PROVE  /\ cst = "wfi" /\ cst' = "top" /\ pc = Idle /\ pc' = Handler
           /\ IC!Target = Handler
<1>1. /\ cst = "wfi" /\ cst' = "top" /\ pc = Idle
      /\ holding = 0 /\ pc' = vectors[holding]
  BY DEF Wake, CPU!Wake, Control, PcFollows, IC!Deliver, IC!Selecting, IntcType,
         IC!Target
<1>2. vectors[0] = Handler
  BY <1>1, Regions DEF VectorSet, VectorPosted
<1>3. QED
  BY <1>1, <1>2 DEF IC!Target

\* Where a step may take the program counter.
LEMMA PcMoves ==
    ASSUME Control, Traffic, IntcType, VectorSet, [Step]_vars
    PROVE  \/ pc' = pc
           \/ pc' = ADDR_RESET
           \/ Execute /\ pc' \in {0, 1} /\ mmu_st = "idle"
           \/ Execute /\ mmu_st = "idle" /\ pc \in Emits
                /\ pc' = IF pc = LastEmit THEN Idle ELSE pc + 1
           \/ Access /\ mmu_st = "idle"
           \/ LoadReply /\ pc \in Loads /\ pc' = pc + 1
           \/ Wake /\ pc = Idle /\ pc' = Handler
<1>0. pc \in Addresses
  BY DEF Control, CpuType
<1>1. CASE Execute
  <2>1. mmu_st = "idle"
    BY <1>1 DEF Execute, Fetched
  <2>2. CASE CPU!ExecLocal
    BY <1>0, <1>1, <2>1, <2>2, OpRegion, OpAt, Regions
       DEF CPU!ExecLocal, CPU!At, CPU!Step
  <2>3. CASE CPU!ExecSkip
    BY <1>0, <1>1, <2>1, <2>3, OpRegion, OpAt
       DEF CPU!ExecSkip, CPU!Filtered, CPU!At, CPU!Step
  <2>4. CASE CPU!ExecWfi
    BY <2>4 DEF CPU!ExecWfi
  <2>5. QED
    BY <1>1, <2>2, <2>3, <2>4 DEF Execute
<1>2. CASE Access
  BY <1>2 DEF Access, Fetched
<1>3. CASE LoadReply
  <2>1. pc \in Loads /\ pc' = Code[pc].next
    BY <1>3 DEF LoadReply, CPU!Loaded, CPU!Step, Control, PcFollows
  <2>2. QED
    BY <1>0, <1>3, <2>1, OpAt
<1>4. CASE Wake
  BY <1>4, WokenAtHandler
<1>5. CASE ColdBoot \/ WarmReset
  BY <1>5 DEF ColdBoot, WarmReset, ProbeReset, IdleReset, Reset, CPU!TakeReset
<1>6. CASE Relay \/ Probe \/ BusStep
  BY <1>6 DEF Relay, Probe, BusStep, CPU!Relayed, CPU!Proceed, WriteIntCtrl, ToDemux,
              ToFifoIn, ToFifoOut, DemuxReply, cpu
<1>7. CASE FifoEvent \/ AssertReset \/ Ports \/ UNCHANGED vars
  BY <1>7 DEF FifoEvent, AssertReset, Ports, Push, Pop, vars, cpu
<1>8. QED
  BY <1>1, <1>2, <1>3, <1>4, <1>5, <1>6, <1>7
     DEF Step, Next, Chip, PowerOn, CpuStep

\* Once the handler is installed it stays so until the next reset.
LEMMA VectorKept ==
    ASSUME Traffic, IntcType, [Step]_vars
    PROVE  \/ Relay
           \/ vectors'[0] = vectors[0] /\ ~WriteIntCtrl
           \/ vectors'[0] = vectors[0] /\ WriteIntCtrl /\ mmu_req = EnableReq
           \/ vectors'[0] = Handler
<1>1. CASE WriteIntCtrl
  BY <1>1, StoreSets, VectorZero, Regions DEF InstallVector, EnableLine, IntcType
<1>2. CASE ~WriteIntCtrl
  BY <1>2, IntcMoves
     DEF intc, FifoEvent, IC!Accept, Wake, IC!Deliver
<1>3. QED
  BY <1>1, <1>2

\* The handler's vector is in place, or on its way, before main() goes on.
LEMMA VectorSetKept ==
    ASSUME Control, Traffic, IntcType, VectorSet, [Step]_vars
    PROVE  VectorSet'
<1> SUFFICES ASSUME pc' \in 2 .. LastEmit
             PROVE  vectors'[0] = Handler \/ VectorPosted'
  BY DEF VectorSet
<1>1. CASE Relay
  <2>1. pc' = ADDR_RESET
    BY <1>1 DEF Relay, CPU!Relayed, Control, PcFollows
  <2>2. QED
    BY <2>1, Regions
<1>2. CASE Access
  <2>1. vectors'[0] = vectors[0] /\ ~VectorPosted
    BY <1>2, Posts DEF Access, intc, VectorPosted
  <2>2. \/ pc = 1 /\ pc' = 2 /\ mmu_st' = "route" /\ mmu_req' = VectorReq
        \/ pc \in 2 .. LastEmit
    BY <1>2, Posts, Regions DEF Loads, Emits
  <2>3. QED
    BY <2>1, <2>2 DEF VectorSet, VectorPosted
<1>3. CASE ~Relay /\ ~Access
  <2>1. /\ pc \in 2 .. LastEmit
        /\ pc' # pc => ~VectorPosted
    BY <1>3, PcMoves, Regions DEF VectorPosted, Loads, Emits
  <2>2. CASE vectors[0] = Handler
    BY <1>3, <2>2, VectorKept
  <2>3. CASE VectorPosted
    <3>1. pc' = pc /\ mmu_st = "route" /\ mmu_req = VectorReq /\ pc = 2
      BY <2>1, <2>3 DEF VectorPosted
    <3>2. CASE WriteIntCtrl
      BY <1>3, <3>1, <3>2, VectorKept, RequestFields, LinesAssumption
    <3>3. CASE ~WriteIntCtrl
      <4>1. mmu_st' = mmu_st /\ mmu_req' = mmu_req
        BY <1>3, <3>1, <3>3, QuietSteps, RequestFields
           DEF Quiet, mmu, LoadReply, MMU!Reply, ToDemux, ADDR_EXT_MIN, ToFifoIn,
               ToFifoOut, DemuxReply, MMU!Answer
      <4>2. QED
        BY <3>1, <4>1 DEF VectorPosted
    <3>4. QED
      BY <3>2, <3>3
  <2>4. QED
    BY <2>1, <2>2, <2>3 DEF VectorSet
<1>4. QED
  BY <1>1, <1>2, <1>3

-----------------------------------------------------------------------------
(***************************************************************************)
(* The batch.                                                              *)
(***************************************************************************)
Replying == "reply" \in {mmu_st, dmx_st}

\* While the CPU is not loading, no word is on its way back.
LEMMA NoReply ==
    ASSUME Traffic, cst # "load"
    PROVE  ~Replying
BY DEF Traffic, RoutersFollow, CoreStoring, OuterStoring, Replying

\* Only the FIFO's answer puts a word on its way, and only the CPU ends that.
LEMMA ReplyingKept ==
    ASSUME Traffic, [Step]_vars,
           ~LoadReply, ~(ToFifoIn /\ dmx_req.op = "R")
    PROVE  Replying' <=> Replying
<1>1. CASE Access
  BY <1>1 DEF Access, MMU!Take, Replying, demux
<1>2. CASE WriteIntCtrl
  BY <1>2 DEF WriteIntCtrl, MMU!Send, Replying, demux
<1>3. CASE ToDemux
  BY <1>3 DEF ToDemux, MMU!Send, Demux!Take, Replying
<1>4. CASE ToFifoIn
  BY <1>4, RequestFields
     DEF ToFifoIn, Demux!Exchange, Demux!IsRead, Replying, mmu, Traffic,
         RoutersFollow, LoadEntering, LoadOutside, LoadBack, OuterStoring,
         OuterStores
<1>5. CASE ToFifoOut
  BY <1>5 DEF ToFifoOut, Demux!Send, Replying, mmu
<1>6. CASE DemuxReply
  BY <1>6 DEF DemuxReply, Demux!Reply, MMU!Answer, Replying
<1>7. CASE Quiet
  BY <1>7 DEF Quiet, mmu, demux, Replying
<1>8. QED
  BY <1>1, <1>2, <1>3, <1>4, <1>5, <1>6, <1>7, QuietSteps

\* A word counts as taken from the moment the FIFO gives it out.
LEMMA TakenKept ==
    ASSUME Control, Traffic, InputFifo, BatchOwed, IntcType, VectorSet, [Step]_vars,
           Unfinished'
    PROVE  \/ Unfinished /\ Taken' = Taken
              /\ ~Wake /\ ~(ToFifoIn /\ dmx_req.op = "R")
           \/ Wake /\ Taken' = 0
           \/ /\ ToFifoIn /\ dmx_req.op = "R"
              /\ Unfinished /\ Taken = pc - Handler /\ Taken' = Taken + 1
<1>1. pc' \in Loads
  BY DEF Unfinished
<1>2. CASE Wake
  <2>1. cst = "wfi" /\ cst' = "top" /\ pc' = Handler /\ UNCHANGED <<mmu, demux>>
    BY <1>2, WokenAtHandler DEF Wake
  <2>2. ~Replying'
    BY <2>1, NoReply DEF Replying, mmu, demux
  <2>3. QED
    BY <1>2, <2>1, <2>2, Regions DEF Taken, Replying
<1>3. CASE ToFifoIn /\ dmx_req.op = "R"
  <2>1. /\ LoadOutside /\ dmx_st = "route" /\ cst = "load"
        /\ dmx_st' = "reply" /\ UNCHANGED <<mmu, pc>>
    BY <1>3, LoadCovered DEF ToFifoIn, Demux!Exchange, Demux!IsRead, cpu
  <2>2. pc \in Loads
    BY <1>1, <2>1
  <2>3. Taken = pc - Handler /\ Taken' = pc - Handler + 1
    BY <2>1, <2>2, Regions DEF Taken, LoadOutside, mmu, Loads
  <2>4. Unfinished
    BY <2>2, <2>3, Regions DEF Unfinished, Loads
  <2>5. QED
    BY <1>3, <2>2, <2>3, <2>4, Regions DEF Loads
<1>4. CASE LoadReply
  <2>1. /\ mmu_st = "reply" /\ mmu_st' = "idle" /\ dmx_st = "idle" /\ dmx_st' = "idle"
        /\ pc \in Loads /\ pc' = pc + 1
    <3>1. mmu_st = "reply" /\ mmu_st' = "idle" /\ cst = "load" /\ UNCHANGED demux
      BY <1>4 DEF LoadReply, MMU!Reply, CPU!Loaded
    <3>2. LoadBack
      BY <3>1 DEF Traffic, RoutersFollow, LoadEntering, LoadOutside
    <3>3. pc \in Loads /\ pc' = Code[pc].next /\ pc \in Addresses
      BY <1>4, <3>1 DEF LoadReply, CPU!Loaded, CPU!Step, Control, PcFollows, CpuType
    <3>4. QED
      BY <3>1, <3>2, <3>3, OpAt DEF LoadBack, demux
  <2>2. Taken' = Taken
    BY <2>1, Regions DEF Taken, Loads
  <2>3. ~Wake /\ ~ToFifoIn
    BY <2>1 DEF Wake, mmu, ToFifoIn
  <2>4. QED
    BY <2>1, <2>2, <2>3 DEF Unfinished
<1>5. CASE ~Wake /\ ~(ToFifoIn /\ dmx_req.op = "R") /\ ~LoadReply
  <2>1. pc' = pc
    <3>1. CASE Access
      BY <1>1, <3>1, Posts, Regions DEF Loads, Emits
    <3>2. CASE ~Access
      BY <1>1, <1>5, <3>2, PcMoves, Regions DEF Loads, Emits
    <3>3. QED
      BY <3>1, <3>2
  <2>2. Replying' <=> Replying
    BY <1>5, ReplyingKept
  <2>3. Taken' = Taken
    BY <2>1, <2>2 DEF Taken, Replying
  <2>4. QED
    BY <1>5, <2>1, <2>3 DEF Unfinished
<1>6. QED
  BY <1>2, <1>3, <1>4, <1>5

\* Until the handler has all its words the edge stays owed to it.
LEMMA BatchOwedKept ==
    ASSUME Control, Traffic, InputFifo, BatchOwed, IntcType, VectorSet, [Step]_vars
    PROVE  BatchOwed'
<1> DEFINE Reading == ToFifoIn /\ dmx_req.op = "R"
<1>1. CASE Wake
  <2>1. ~armed /\ reads_since_fire = 0 /\ UNCHANGED fifoIn /\ holding' = NoLine
    BY <1>1 DEF Wake, IC!Deliver, IC!Selecting, BatchOwed
  <2>2. Unfinished' => Taken' = 0
    BY <1>1, TakenKept DEF Wake, ToFifoIn, cpu, CPU!Wake
  <2>3. QED
    BY <2>1, <2>2 DEF BatchOwed, fifoIn
<1>2. CASE FifoEvent
  <2>1. armed /\ ~armed' /\ reads_since_fire' = 0
    BY <1>2 DEF FifoEvent, FI!Fire, InputFifo, Watermark
  <2>2. ~Unfinished
    BY <2>1 DEF BatchOwed
  <2>3. ~Unfinished'
    BY <1>2, <2>2 DEF FifoEvent, cpu, mmu, demux, Unfinished, Taken
  <2>4. QED
    BY <2>1, <2>3 DEF BatchOwed
<1>3. CASE Reading
  <2>1. Unfinished /\ holding = NoLine /\ holding' = holding
    <3>1. pc \in Loads /\ Taken = pc - Handler
      BY <1>3, LoadCovered, Regions
         DEF Control, PcFollows, LoadOutside, Taken, Loads
    <3>2. Unfinished
      BY <3>1, Regions DEF Unfinished, Loads
    <3>3. QED
      BY <1>3, <3>2 DEF BatchOwed, ToFifoIn, intc
  <2>2. /\ configured /\ trigger_level = BATCH
        /\ reads_since_fire' = reads_since_fire + 1
        /\ armed' <=> reads_since_fire' >= BATCH
    BY <1>3, LoadCovered, ReadEffect DEF ToFifoIn, InputFifo, Watermark
  <2>3. ASSUME Unfinished'
        PROVE  ~armed' /\ reads_since_fire' = Taken'
    <3>1. Taken' = Taken + 1 /\ Taken' < BATCH /\ reads_since_fire = Taken
      BY <1>3, <2>1, <2>3, TakenKept DEF Unfinished, BatchOwed, Wake, ToFifoIn,
         demux, Demux!Exchange, Demux!IsRead
    <3>2. Taken \in Int
      BY <1>3, <2>1, Regions DEF Taken, Unfinished, Loads
    <3>3. QED
      BY <2>2, <3>1, <3>2, Regions
  <2>4. QED
    BY <2>1, <2>3 DEF BatchOwed
<1>4. CASE ~Wake /\ ~FifoEvent /\ ~Reading
  <2>1. holding' = holding
    BY <1>4, IntcMoves, StoreSets
       DEF intc, Relay, IC!ResetIntCtrl, InstallVector, EnableLine
  <2>2. armed' = armed /\ reads_since_fire' = reads_since_fire
    <3>1. CASE ToFifoIn
      BY <1>4, <3>1 DEF ToFifoIn, FI!SetTrigger
    <3>2. CASE Ports
      BY <3>2 DEF Ports, Pop, Push, FI!Push, fifoIn
    <3>3. CASE UNCHANGED vars
      BY <3>3 DEF vars, fifoIn
    <3>4. CASE CpuStep \/ WriteIntCtrl \/ ToDemux \/ ToFifoOut \/ DemuxReply
      BY <3>4 DEF CpuStep, Probe, Execute, Access, LoadReply, WriteIntCtrl, ToDemux,
                  ToFifoOut, DemuxReply, fifoIn
    <3>5. CASE ColdBoot \/ WarmReset \/ Relay \/ AssertReset
      BY <3>5 DEF ColdBoot, WarmReset, ProbeReset, IdleReset, Reset, Relay,
                  AssertReset, fifoIn
    <3>6. QED
      BY <1>4, <3>1, <3>2, <3>3, <3>4, <3>5
         DEF Step, Next, Chip, PowerOn, BusStep
  <2>3. Unfinished' => Unfinished /\ Taken' = Taken
    BY <1>4, TakenKept
  <2>4. QED
    BY <2>1, <2>2, <2>3 DEF BatchOwed
<1>5. QED
  BY <1>1, <1>2, <1>3, <1>4

-----------------------------------------------------------------------------
(***************************************************************************)
(* The invariant.                                                          *)
(***************************************************************************)
\* It holds when the power comes on.
LEMMA InitInv == Init => IInv
<1> SUFFICES ASSUME Init PROVE IInv
  OBVIOUS
<1> USE Regions
<1>1. Control
  <2>1. pc = ADDR_RESET /\ cst = "cold" /\ v = << >>
    BY DEF Init, CPU!Init
  <2>2. ADDR_RESET \notin Loads /\ ADDR_RESET \notin Emits
    BY DEF Loads, Emits
  <2>3. QED
    BY <2>1, <2>2 DEF Control, CpuType, PcFollows, Held
<1>2. Traffic
  BY <1>1 DEF Init, CPU!Init, Traffic, RouterType, RoutersFollow, CoreStoring,
              OuterStoring
<1>3. IntcType /\ VectorSet
  BY DEF Init, CPU!Init, IC!IntCtrlInit, IntcType, VectorSet
<1>4. InputFifo
  <2>1. /\ fi_buf = [i \in FI!Index |-> NoData] /\ fi_head = 0 /\ fi_tail = 0
        /\ fi_count = 0 /\ trigger_level = DEPTH_IN /\ configured = FALSE
        /\ armed = TRUE /\ reads_since_fire = 0 /\ fi_st = "select"
    BY DEF Init, FI!Init
  <2>2. FI!RingType
    BY <2>1, CapacityAssumption DEF FI!RingType, FI!Index
  <2>3. FI!LevelType
    BY <2>1 DEF FI!LevelType
  <2>4. FI!ControlType
    BY <2>1 DEF FI!ControlType, FI!States
  <2>5. FI!RingConsistent
    BY <2>1, CapacityAssumption DEF FI!RingConsistent, FI!Index
  <2>6. Watermark
    BY <2>1 DEF Watermark
  <2>7. QED
    BY <2>1, <2>2, <2>3, <2>4, <2>5, <2>6 DEF InputFifo, FI!TypeOK
<1>5. OutputFifo
  BY CapacityAssumption DEF Init, FO!FifoOutInit, OutputFifo, FO!FifoOutTypeOK, FO!Index
<1>6. BatchOwed
  <2>1. pc \notin Loads /\ holding = NoLine
    BY DEF Init, CPU!Init, IC!IntCtrlInit, Loads
  <2>2. QED
    BY <2>1 DEF BatchOwed, Unfinished
<1>7. reset_ext \in BOOLEAN
  BY DEF Init
<1>8. QED
  BY <1>1, <1>2, <1>3, <1>4, <1>5, <1>6, <1>7 DEF IInv

\* Every step keeps it.
LEMMA StepInv == IInv /\ [Step]_vars => IInv'
<1> SUFFICES ASSUME IInv, [Step]_vars PROVE IInv'
  OBVIOUS
<1> USE DEF IInv
<1>1. Control'
  BY CpuMoves, ControlKept
<1>2. Traffic'
  BY TrafficKept
<1>3. IntcType' /\ VectorSet'
  BY IntcTyped, VectorSetKept
<1>4. InputFifo'
  <2>1. InputMove /\ InputOrder
    BY FifoMoves, InputOrdered
  <2>2. FI!RingConsistent'
    BY <2>1, InputMoves, InputKept DEF InputOrder
  <2>3. QED
    BY <2>1, <2>2, InputTyped, InputWatermark DEF InputFifo
<1>5. OutputFifo'
  BY FifoMoves, OutputKept
<1>6. BatchOwed'
  BY BatchOwedKept
<1>7. reset_ext' \in BOOLEAN
  BY DEF Step, Next, Chip, PowerOn, Ports, WarmReset, ColdBoot, ProbeReset, IdleReset,
         Reset, Relay, CpuStep, Probe, Execute, Access, LoadReply, BusStep,
         WriteIntCtrl, ToDemux, ToFifoIn, ToFifoOut, DemuxReply, FifoEvent, Wake,
         AssertReset, Push, Pop, vars
<1>8. QED
  BY <1>1, <1>2, <1>3, <1>4, <1>5, <1>6, <1>7

(***************************************************************************)
(* The invariant holds whatever the resets.                                *)
(***************************************************************************)
THEOREM InvCorrect == WarmSpec => []IInv
BY InitInv, StepInv, PTL DEF WarmSpec, Step

\* The chip without warm resets behaves as one with them.
LEMMA ColdIsWarm == [Next]_vars => [Step]_vars
BY DEF Step

\* The invariant contains the types.
LEMMA InvTyped == IInv => TypeOK
<1> SUFFICES ASSUME IInv PROVE TypeOK
  OBVIOUS
<1>1. pc \in Addresses /\ v \in Seq(Data) /\ Len(v) <= BATCH
  BY HeldAt, Regions DEF IInv, Control, CpuType
<1>2. mmu_st \in RouterStates /\ dmx_st \in RouterStates
  BY DEF IInv, Traffic, RoutersFollow, LoadEntering, LoadOutside, LoadBack,
         CoreStoring, OuterStoring, RouterStates
<1>3. QED
  BY <1>1, <1>2, LineAssumption
     DEF TypeOK, IInv, Control, CpuType, Traffic, RouterType, IntcType, InputFifo,
         OutputFifo

(***************************************************************************)
(* Type correctness of the composed chip, for every BATCH, capacity and    *)
(* filter.                                                                 *)
(***************************************************************************)
THEOREM ChipTyped == Spec => []TypeOK
<1>1. WarmSpec => []TypeOK
  BY InvCorrect, InvTyped, PTL
<1>2. Spec => WarmSpec
  BY ColdIsWarm, PTL DEF Spec, WarmSpec, Step
<1>3. QED
  BY <1>1, <1>2, PTL

(***************************************************************************)
(* Neither FIFO's assertion ever fails, whatever the resets: the handler   *)
(* never loads a word that is not there.                                   *)
(***************************************************************************)
THEOREM AssertionsHold == WarmSpec => []NoAssertionFails
<1>1. IInv => NoAssertionFails
  BY DEF IInv, InputFifo, OutputFifo, NoAssertionFails
<1>2. QED
  BY <1>1, InvCorrect, PTL

(***************************************************************************)
(* No second edge exists while the handler still has words to load,        *)
(* whatever the resets.                                                    *)
(***************************************************************************)
THEOREM OneEdgePerBatch == WarmSpec => []SingleEdge
<1>1. IInv => SingleEdge
  <2> SUFFICES ASSUME IInv, Loading
               PROVE  fi_st = "select" /\ holding = NoLine
    BY DEF SingleEdge
  <2>1. Unfinished
    BY Regions DEF Loading, Unfinished, Taken, Loads
  <2>2. ~armed /\ holding = NoLine
    BY <2>1 DEF IInv, BatchOwed
  <2>3. fi_st \in {"select", "fire"}
    BY DEF IInv, InputFifo, FI!TypeOK, FI!ControlType, FI!States
  <2>4. QED
    BY <2>2, <2>3 DEF IInv, InputFifo, Watermark
<1>2. QED
  BY <1>1, InvCorrect, PTL

(***************************************************************************)
(* The idle CPU is only woken at the installed handler, whatever the       *)
(* resets.                                                                 *)
(***************************************************************************)
THEOREM WakesCorrect == WarmSpec => WakesAtHandler
<1>1. IInv /\ [Step]_vars => [cst = "wfi" /\ cst' = "top" => pc' = Handler]_vars
  <2> SUFFICES ASSUME IInv, [Step]_vars, cst = "wfi", cst' = "top"
               PROVE  pc' = Handler
    OBVIOUS
  <2>1. Wake
    <3>1. CASE ColdBoot \/ WarmReset \/ Relay
      BY <3>1 DEF ColdBoot, WarmReset, ProbeReset, IdleReset, Reset, CPU!TakeReset,
                  Relay, CPU!Relayed
    <3>2. CASE CpuStep
      BY <3>2 DEF CpuStep, Probe, CPU!Proceed, Execute, CPU!ExecLocal, CPU!ExecSkip,
                  CPU!Filtered, CPU!ExecWfi, Access, CPU!ExecStore, CPU!ExecEmit,
                  CPU!ExecLoad, CPU!At, LoadReply, CPU!Loaded
    <3>3. CASE BusStep \/ FifoEvent \/ AssertReset \/ Ports \/ UNCHANGED vars
      BY <3>3 DEF BusStep, WriteIntCtrl, ToDemux, ToFifoIn, ToFifoOut, DemuxReply,
                  FifoEvent, AssertReset, Ports, Push, Pop, vars, cpu
    <3>4. QED
      BY <3>1, <3>2, <3>3 DEF Step, Next, Chip, PowerOn
  <2>2. QED
    BY <2>1, WokenAtHandler DEF IInv
<1>2. QED
  BY <1>1, InvCorrect, PTL DEF WarmSpec, Step, WakesAtHandler

-----------------------------------------------------------------------------
(***************************************************************************)
(* A single boot.                                                          *)
(***************************************************************************)
\* Once booted the chip does not boot again, and until then nothing moves.
LEMMA BootQuietKept ==
    ASSUME IInv, BootQuiet, [Next]_vars
    PROVE  BootQuiet'
<1> SUFFICES ASSUME Booting'
             PROVE  mmu_st' = "idle" /\ dmx_st' = "idle" /\ ~configured'
  BY DEF BootQuiet
<1> USE DEF Booting, BootQuiet
<1>1. CASE ColdBoot
  BY <1>1 DEF ColdBoot, Reset, CPU!TakeReset, mmu, demux, fifoIn
<1>2. CASE Relay \/ CpuStep \/ Wake
  BY <1>2 DEF Relay, CPU!Relayed, CpuStep, Probe, CPU!Proceed, Execute, CPU!ExecLocal,
              CPU!ExecSkip, CPU!Filtered, CPU!ExecWfi, CPU!Step, Access, CPU!ExecStore,
              CPU!ExecEmit, CPU!ExecLoad, LoadReply, CPU!Loaded, Wake, CPU!Wake
<1>3. CASE BusStep
  BY <1>3 DEF BusStep, WriteIntCtrl, ToDemux, MMU!Send, ToFifoIn, Demux!Exchange,
              ToFifoOut, Demux!Send, DemuxReply, Demux!Reply, cpu
<1>4. CASE FifoEvent \/ PowerOn \/ Ports \/ UNCHANGED vars
  BY <1>4 DEF FifoEvent, FI!Fire, PowerOn, AssertReset, Ports, Push, FI!Push, Pop,
              vars, cpu, mmu, demux, fifoIn
<1>5. QED
  BY <1>1, <1>2, <1>3, <1>4 DEF Next, Chip

\* The trigger level is only written once the handler is installed.
LEMMA InstalledKept ==
    ASSUME IInv, BootQuiet, InstalledFirst, [Next]_vars
    PROVE  InstalledFirst'
<1> SUFFICES ASSUME TriggerSent'
             PROVE  vectors'[0] = Handler
  BY DEF InstalledFirst
<1> USE ColdIsWarm DEF IInv
<1>1. CASE Relay
  <2>1. mmu_st' = "idle" /\ dmx_st' = "idle" /\ ~configured'
    BY <1>1 DEF Relay, CPU!Relayed, BootQuiet, Booting, mmu, demux, fifoIn
  <2>2. QED
    BY <2>1 DEF TriggerSent
<1>2. CASE TriggerSent /\ ~Relay
  BY <1>2, VectorKept DEF InstalledFirst
<1>3. CASE Access
  <2>1. vectors' = vectors
    BY <1>3 DEF Access, intc
  <2>2. CASE mmu_req' = TriggerReq
    <3>1. pc = 2
      BY <1>3, <2>2, Posts, RequestFields
    <3>2. QED
      BY <1>3, <2>1, <3>1, Posts, Regions DEF VectorSet, VectorPosted
  <2>3. CASE mmu_req' # TriggerReq
    <3>1. TriggerSent /\ ~Relay
      BY <1>3, <2>3 DEF Access, TriggerSent, demux, fifoIn, Relay, mmu, MMU!Take
    <3>2. QED
      BY <1>2, <3>1
  <2>4. QED
    BY <2>2, <2>3
<1>4. CASE ~TriggerSent /\ ~Access
  <2>1. configured' => configured \/ (dmx_st = "route" /\ dmx_req = TriggerReq)
    <3>1. CASE ToFifoIn
      <4>1. CASE dmx_req.op = "R"
        BY <3>1, <4>1 DEF ToFifoIn, FI!Read
      <4>2. CASE dmx_req.op # "R"
        <5>1. dmx_st = "route" /\ dmx_req.base = 5
          BY <3>1 DEF ToFifoIn, Demux!Exchange, ADDR_FIFO_IN
        <5>2. QED
          BY <4>2, <5>1, RequestFields
             DEF Traffic, RoutersFollow, LoadEntering, LoadOutside, LoadBack,
                 OuterStoring, OuterStores
      <4>3. QED
        BY <4>1, <4>2
    <3>2. CASE ~ToFifoIn
      <4>1. CASE CpuStep \/ WriteIntCtrl \/ ToDemux \/ ToFifoOut \/ DemuxReply
        BY <4>1 DEF CpuStep, Probe, Execute, Access, LoadReply, WriteIntCtrl, ToDemux,
                    ToFifoOut, DemuxReply, fifoIn
      <4>2. CASE ColdBoot \/ Relay \/ Wake \/ PowerOn
        BY <4>2 DEF ColdBoot, Reset, Relay, Wake, PowerOn, AssertReset, fifoIn
      <4>3. CASE FifoEvent \/ Ports \/ UNCHANGED vars
        BY <4>3 DEF FifoEvent, FI!Fire, Ports, Push, FI!Push, Pop, vars, fifoIn
      <4>4. QED
        BY <3>2, <4>1, <4>2, <4>3 DEF Next, Chip, BusStep
    <3>3. QED
      BY <3>1, <3>2
  <2>2. ~TriggerSent'
    <3>1. ~configured'
      BY <1>4, <2>1 DEF TriggerSent
    <3>2. ~(mmu_st' = "route" /\ mmu_req' = TriggerReq)
      BY <1>4, QuietSteps
         DEF TriggerSent, Quiet, mmu, LoadReply, MMU!Reply, WriteIntCtrl, MMU!Send,
             ToDemux, ToFifoIn, ToFifoOut, DemuxReply, MMU!Answer
    <3>3. ~(dmx_st' = "route" /\ dmx_req' = TriggerReq)
      BY <1>4, QuietSteps
         DEF TriggerSent, Quiet, demux, LoadReply, WriteIntCtrl, MMU!Send, ToDemux,
             Demux!Take, ToFifoIn, Demux!Exchange, ToFifoOut, Demux!Send, DemuxReply,
             Demux!Reply
    <3>4. QED
      BY <3>1, <3>2, <3>3 DEF TriggerSent
  <2>3. QED
    BY <2>2
<1>5. QED
  BY <1>1, <1>2, <1>3, <1>4

\* Without a reset a batch once begun stays in hand until its last word.
LEMMA UnfinishedKept ==
    ASSUME IInv, [Next]_vars, Unfinished,
           ~Wake, ~(ToFifoIn /\ dmx_req.op = "R")
    PROVE  Unfinished'
<1> USE ColdIsWarm DEF IInv
<1>1. pc \in Loads /\ Taken < BATCH
  BY DEF Unfinished
<1>2. CASE LoadReply
  <2>1. pc' = pc + 1
    BY <1>1, <1>2, OpAt DEF LoadReply, CPU!Loaded, CPU!Step, Control, CpuType
  <2>2. mmu_st = "reply" /\ mmu_st' = "idle" /\ dmx_st = "idle" /\ dmx_st' = "idle"
    BY <1>2
       DEF LoadReply, MMU!Reply, CPU!Loaded, demux, Traffic, RoutersFollow,
           LoadEntering, LoadOutside, LoadBack
  <2>3. Taken' = pc + 1 - Handler /\ Taken = pc - Handler + 1
    BY <2>1, <2>2, <1>1, Regions DEF Taken, Loads
  <2>4. QED
    BY <1>1, <2>1, <2>3, Regions DEF Unfinished, Loads
<1>3. CASE ~LoadReply
  <2>1. pc' = pc
    <3>1. CASE Access
      BY <1>1, <3>1, Posts, Regions DEF Loads, Emits
    <3>2. CASE ColdBoot
      BY <1>1, <3>2, Regions
         DEF ColdBoot, Reset, CPU!TakeReset, Control, PcFollows, Loads
    <3>3. CASE Execute
      <4>1. pc \in Addresses /\ Code[pc].op = "load"
        BY <1>1, OpAt DEF Control, CpuType
      <4>2. QED
        BY <3>3, <4>1
           DEF Execute, CPU!ExecLocal, CPU!ExecSkip, CPU!Filtered, CPU!ExecWfi, CPU!At
    <3>4. CASE Relay \/ Probe \/ BusStep
      BY <3>4 DEF Relay, Probe, BusStep, CPU!Relayed, CPU!Proceed, WriteIntCtrl,
                  ToDemux, ToFifoIn, ToFifoOut, DemuxReply, cpu
    <3>5. CASE FifoEvent \/ PowerOn \/ Ports \/ UNCHANGED vars
      BY <3>5 DEF FifoEvent, PowerOn, AssertReset, Ports, Push, Pop, vars, cpu
    <3>6. QED
      BY <1>3, <3>1, <3>2, <3>3, <3>4, <3>5 DEF Next, Chip, CpuStep
  <2>2. Replying' <=> Replying
    BY <1>3, ReplyingKept
  <2>3. QED
    BY <1>1, <2>1, <2>2 DEF Unfinished, Taken, Replying
<1>4. QED
  BY <1>2, <1>3

\* Every edge is held for the CPU or being served.
LEMMA EdgePendingKept ==
    ASSUME IInv, EdgePending, [Next]_vars
    PROVE  EdgePending'
<1> SUFFICES ASSUME ~armed'
             PROVE  holding' # NoLine \/ Unfinished'
  BY DEF EdgePending
<1> USE ColdIsWarm DEF IInv
<1>1. CASE FifoEvent
  BY <1>1, LinesAssumption, LineAssumption DEF FifoEvent, IC!Accept
<1>2. CASE Wake
  <2>1. /\ pc' = Handler /\ cst # "load" /\ UNCHANGED <<mmu, demux>>
    BY <1>2, WokenAtHandler DEF Wake
  <2>2. ~Replying'
    BY <2>1, NoReply DEF Replying, mmu, demux
  <2>3. QED
    BY <2>1, <2>2, Regions DEF Unfinished, Taken, Replying, Loads
<1>3. CASE ToFifoIn /\ dmx_req.op = "R"
  <2>1. /\ pc \in Loads /\ pc' = pc /\ dmx_st' = "reply"
        /\ reads_since_fire = pc - Handler
        /\ ~armed /\ fi_count > 0 /\ FI!Read
    BY <1>3, LoadCovered
       DEF ToFifoIn, Demux!Exchange, Demux!IsRead, cpu, Control, PcFollows
  <2>2. reads_since_fire' = reads_since_fire + 1 /\ reads_since_fire' < BATCH
    <3>1. /\ reads_since_fire' = reads_since_fire + 1
          /\ ~(reads_since_fire' >= trigger_level) /\ trigger_level = BATCH
      BY <2>1, ReadEffect DEF InputFifo, Watermark
    <3>2. reads_since_fire \in Nat
      BY DEF InputFifo, FI!TypeOK, FI!LevelType
    <3>3. QED
      BY <3>1, <3>2, Regions
  <2>3. Taken' = pc - Handler + 1
    BY <2>1 DEF Taken
  <2>4. QED
    BY <2>1, <2>2, <2>3, Regions DEF Unfinished, Loads
<1>4. CASE ~FifoEvent /\ ~Wake /\ ~(ToFifoIn /\ dmx_req.op = "R")
  <2>1. ~armed /\ holding' = holding
    <3>1. holding' = holding
      BY <1>4, IntcMoves, StoreSets
         DEF intc, Relay, IC!ResetIntCtrl, InstallVector, EnableLine
    <3>2. armed' = armed
      <4>1. CASE ToFifoIn
        BY <1>4, <4>1 DEF ToFifoIn, FI!SetTrigger
      <4>2. CASE CpuStep \/ WriteIntCtrl \/ ToDemux \/ ToFifoOut \/ DemuxReply
        BY <4>2 DEF CpuStep, Probe, Execute, Access, LoadReply, WriteIntCtrl, ToDemux,
                    ToFifoOut, DemuxReply, fifoIn
      <4>3. CASE ColdBoot \/ Relay \/ PowerOn
        BY <4>3 DEF ColdBoot, Reset, Relay, PowerOn, AssertReset, fifoIn
      <4>4. CASE Ports \/ UNCHANGED vars
        BY <4>4 DEF Ports, Push, FI!Push, Pop, vars, fifoIn
      <4>5. QED
        BY <1>4, <4>1, <4>2, <4>3, <4>4 DEF Next, Chip, BusStep
    <3>3. QED
      BY <3>1, <3>2
  <2>2. Unfinished => Unfinished'
    BY <1>4, UnfinishedKept
  <2>3. QED
    BY <2>1, <2>2 DEF EdgePending
<1>5. QED
  BY <1>1, <1>2, <1>3, <1>4

\* An event stays enabled while it is held.
LEMMA HeldEnabledKept ==
    ASSUME IInv, HeldEnabled, [Next]_vars
    PROVE  HeldEnabled'
<1> USE ColdIsWarm DEF IInv, HeldEnabled
<1>1. CASE FifoEvent
  BY <1>1 DEF FifoEvent, IC!Accept, IC!Enabled
<1>2. CASE Relay
  BY <1>2 DEF Relay, IC!ResetIntCtrl, IC!Selecting
<1>3. CASE Wake
  BY <1>3 DEF Wake, IC!Deliver
<1>4. CASE WriteIntCtrl
  BY <1>4, StoreSets DEF InstallVector, EnableLine
<1>5. CASE UNCHANGED intc
  BY <1>5 DEF intc, IC!Enabled
<1>6. QED
  BY <1>1, <1>2, <1>3, <1>4, <1>5, IntcMoves

\* The chip starts with nothing sent, armed and holding no event.
LEMMA ColdInit == Init => ColdInv
BY DEF Init, CPU!Init, IC!IntCtrlInit, FI!Init, ColdInv, BootQuiet, InstalledFirst,
       TriggerSent, EdgePending, HeldEnabled

\* Every step without a warm reset keeps it.
LEMMA ColdStep == IInv /\ ColdInv /\ [Next]_vars => ColdInv'
BY BootQuietKept, InstalledKept, EdgePendingKept, HeldEnabledKept DEF ColdInv

(***************************************************************************)
(* Without warm resets both invariants hold.                               *)
(***************************************************************************)
THEOREM ColdCorrect == Spec => [](IInv /\ ColdInv)
<1>1. Init => IInv /\ ColdInv
  BY InitInv, ColdInit
<1>2. (IInv /\ ColdInv) /\ [Next]_vars => (IInv /\ ColdInv)'
  BY ColdIsWarm, StepInv, ColdStep
<1>3. QED
  BY <1>1, <1>2, PTL DEF Spec

(***************************************************************************)
(* An event is only ever in delivery to the handler that main() installed, *)
(* on an enabled line: the trigger level, without which the FIFO does not  *)
(* fire, is written after the vector.                                      *)
(***************************************************************************)
THEOREM VectorsConfigured == Spec => []NoUnconfiguredVector
<1>1. IInv /\ ColdInv => NoUnconfiguredVector
  <2> SUFFICES ASSUME IInv, ColdInv, holding # NoLine
               PROVE  IC!Enabled(holding) /\ IC!Target = Handler
    BY DEF NoUnconfiguredVector
  <2>1. IC!Enabled(holding)
    BY DEF ColdInv, HeldEnabled
  <2>2. holding = 0 /\ ~armed
    BY DEF IInv, IntcType, BatchOwed
  <2>3. configured
    BY <2>2 DEF IInv, InputFifo, Watermark
  <2>4. vectors[0] = Handler
    BY <2>3 DEF ColdInv, InstalledFirst, TriggerSent
  <2>5. QED
    BY <2>1, <2>2, <2>4 DEF IC!Target
<1>2. QED
  BY <1>1, ColdCorrect, PTL

\* An idle CPU with no event held means the FIFO is armed, and an armed FIFO
\* is below its level.
LEMMA RestIsShort == IInv /\ EdgePending => NoStrandedBatch
<1> SUFFICES ASSUME IInv, EdgePending, AtRest
             PROVE  fi_count < BATCH
  BY DEF NoStrandedBatch
<1>1. pc = Idle
  BY DEF AtRest, IInv, Control, PcFollows
<1>2. ~Unfinished
  BY <1>1, Regions DEF Unfinished, Loads
<1>3. armed
  BY <1>2 DEF AtRest, EdgePending
<1>4. QED
  BY <1>3 DEF AtRest, IInv, InputFifo, Watermark

(***************************************************************************)
(* When the chip has come to rest fewer than BATCH events wait.            *)
(***************************************************************************)
THEOREM NoBatchStranded == Spec => []NoStrandedBatch
<1>1. IInv /\ ColdInv => NoStrandedBatch
  BY RestIsShort DEF ColdInv
<1>2. QED
  BY <1>1, ColdCorrect, PTL

-----------------------------------------------------------------------------
(***************************************************************************)
(* Drained resets, as the server does them.  While one is asserted, and    *)
(* until it is relayed, nothing is under way.                              *)
(***************************************************************************)
AtPeace == BusIdle /\ holding = NoLine /\ fi_st = "select"

ColdQuiet == cst = "cold" => BusIdle /\ ~configured

ResetQuiet == reset_ext => cst \in {"cold", "wfi"} /\ AtPeace

RelayQuiet == cst = "relay" => AtPeace

\* A line is only enabled when the handler is installed and main() is over.
MaskInstalled == enable_mask = 1 => vectors[0] = Handler

EnableLast == mmu_st = "route" /\ mmu_req = EnableReq
                  => pc = Idle /\ cst \in {"top", "fetch"}

DrainedInv == /\ ColdQuiet /\ ResetQuiet /\ RelayQuiet
              /\ EdgePending /\ HeldEnabled
              /\ MaskInstalled /\ EnableLast /\ ResetClearsMask

\* A drained reset is a warm one.
LEMMA DrainedIsWarm == [DrainedNext]_vars => [Step]_vars
BY DEF DrainedNext, Step, Next, Ports

\* The chip that waits for its first reset has received nothing.
LEMMA ColdPeace == IInv /\ ColdQuiet /\ cst = "cold" => AtPeace
BY DEF IInv, InputFifo, Watermark, BatchOwed, ColdQuiet, AtPeace

\* While a reset is asserted or relayed, everything else only waits.
LEMMA PeaceKept ==
    ASSUME ResetQuiet, RelayQuiet, Resetting, [DrainedNext]_vars
    PROVE  /\ AtPeace'
           /\ \/ cst' = cst /\ reset_ext' = reset_ext
              \/ cst' = "relay" /\ ~reset_ext'
              \/ Relay /\ ~reset_ext'
<1>1. /\ mmu_st = "idle" /\ dmx_st = "idle" /\ holding = NoLine /\ fi_st = "select"
      /\ cst \in {"cold", "relay", "wfi"}
      /\ reset_ext => cst # "relay"
  BY DEF ResetQuiet, RelayQuiet, Resetting, AtPeace, BusIdle
<1>2. ~BusStep /\ ~FifoEvent /\ ~Wake
  BY <1>1
     DEF BusStep, WriteIntCtrl, MMU!Send, ToDemux, ToFifoIn, Demux!Exchange,
         ToFifoOut, Demux!Send, DemuxReply, Demux!Reply, FifoEvent, FI!Fire,
         Wake, IC!Deliver, IC!Selecting
<1>3. ~CpuStep
  BY <1>1
     DEF CpuStep, Probe, CPU!Proceed, Execute, CPU!ExecLocal, CPU!ExecSkip,
         CPU!Filtered, CPU!ExecWfi, CPU!At, Access, CPU!ExecStore, CPU!ExecEmit,
         CPU!ExecLoad, LoadReply, MMU!Reply
<1> USE DEF AtPeace, BusIdle
<1>4. CASE ColdBoot \/ WarmReset
  BY <1>1, <1>4 DEF ColdBoot, WarmReset, ProbeReset, IdleReset, Reset, CPU!TakeReset,
              mmu, demux, intc, fifoIn
<1>5. CASE Relay
  BY <1>1, <1>5 DEF Relay, CPU!Relayed, IC!ResetIntCtrl, mmu, demux, fifoIn
<1>6. CASE Pop \/ UNCHANGED vars
  BY <1>1, <1>6 DEF Pop, vars, cpu, mmu, demux, intc, fifoIn
<1>7. CASE AssertReset /\ cst \in {"cold", "wfi"}
  BY <1>7 DEF AssertReset, Resetting
<1>8. QED
  BY <1>2, <1>3, <1>4, <1>5, <1>6, <1>7 DEF DrainedNext, Chip, PowerOn, Drained

\* Until its first reset is asserted a cold chip only waits, too.
LEMMA ColdQuietKept ==
    ASSUME IInv, ColdQuiet, [DrainedNext]_vars
    PROVE  ColdQuiet'
<1> SUFFICES ASSUME cst' = "cold"
             PROVE  BusIdle' /\ ~configured'
  BY DEF ColdQuiet
<1>1. cst = "cold"
  BY DrainedIsWarm, CpuMoves
     DEF CpuMove, CPU!TakeReset, CPU!Relayed, CPU!Proceed, CPU!ExecLocal, CPU!ExecStore,
         CPU!ExecSkip, CPU!ExecEmit, CPU!ExecLoad, CPU!ExecWfi, CPU!Loaded, CPU!Wake,
         CPU!Step, cpu
<1>2. mmu_st = "idle" /\ dmx_st = "idle" /\ ~configured
  BY <1>1 DEF ColdQuiet, BusIdle
<1>3. ~BusStep /\ ~CpuStep
  BY <1>1, <1>2
     DEF BusStep, WriteIntCtrl, MMU!Send, ToDemux, ToFifoIn, Demux!Exchange,
         ToFifoOut, Demux!Send, DemuxReply, Demux!Reply, CpuStep, Probe, CPU!Proceed,
         Execute, CPU!ExecLocal, CPU!ExecSkip, CPU!Filtered, CPU!ExecWfi, CPU!At,
         Access, CPU!ExecStore, CPU!ExecEmit, CPU!ExecLoad, LoadReply, MMU!Reply
<1>4. mmu_st' = mmu_st /\ dmx_st' = dmx_st /\ configured' = configured
  <2>1. CASE ColdBoot \/ WarmReset \/ Relay
    BY <2>1 DEF ColdBoot, WarmReset, ProbeReset, IdleReset, Reset, Relay, mmu, demux,
                fifoIn
  <2>2. CASE FifoEvent \/ Wake
    BY <2>2 DEF FifoEvent, FI!Fire, Wake, mmu, demux, fifoIn
  <2>3. CASE AssertReset \/ Pop \/ \E d \in Data : Push(d)
    BY <2>3 DEF AssertReset, Pop, Push, FI!Push, mmu, demux, fifoIn
  <2>4. CASE UNCHANGED vars
    BY <2>4 DEF vars, mmu, demux, fifoIn
  <2>5. QED
    BY <1>3, <2>1, <2>2, <2>3, <2>4 DEF DrainedNext, Chip, PowerOn
<1>5. QED
  BY <1>2, <1>4 DEF BusIdle

\* A reset is asserted, and relayed, in peace.
LEMMA ResetQuietKept ==
    ASSUME IInv, ColdQuiet, ResetQuiet, RelayQuiet, [DrainedNext]_vars
    PROVE  ResetQuiet' /\ RelayQuiet'
<1>1. CASE Resetting
  <2>1. reset_ext' => reset_ext /\ cst' = cst
    BY <1>1, PeaceKept
  <2>2. QED
    BY <1>1, <2>1, PeaceKept DEF ResetQuiet, RelayQuiet
<1>2. CASE ~Resetting
  <2>1. ~reset_ext /\ cst # "relay"
    BY <1>2 DEF Resetting
  <2>2. CASE PowerOn \/ (Drained /\ AssertReset)
    <3>1. AtPeace /\ cst \in {"cold", "wfi"}
      BY <2>2, ColdPeace DEF Drained, AtPeace, PowerOn
    <3>2. AtPeace' /\ cst' = cst
      BY <2>2, <3>1 DEF PowerOn, AssertReset, AtPeace, BusIdle, cpu, mmu, demux, intc,
                        fifoIn
    <3>3. QED
      BY <3>1, <3>2 DEF ResetQuiet, RelayQuiet
  <2>3. CASE ~PowerOn /\ ~(Drained /\ AssertReset)
    <3>1. ~reset_ext'
      <4>1. CASE ColdBoot \/ WarmReset \/ Relay \/ Wake \/ FifoEvent
        BY <2>1, <4>1 DEF ColdBoot, WarmReset, ProbeReset, IdleReset, Reset, Relay,
                          Wake, FifoEvent
      <4>2. CASE CpuStep \/ BusStep
        BY <2>1, <4>2 DEF CpuStep, Probe, Execute, Access, LoadReply, BusStep,
                          WriteIntCtrl, ToDemux, ToFifoIn, ToFifoOut, DemuxReply
      <4>3. CASE Pop \/ (\E d \in Data : Push(d)) \/ UNCHANGED vars
        BY <2>1, <4>3 DEF Pop, Push, vars
      <4>4. QED
        BY <2>3, <4>1, <4>2, <4>3 DEF DrainedNext, Chip
    <3>2. cst' # "relay"
      <4>1. ~ColdBoot /\ ~WarmReset
        BY <2>1 DEF ColdBoot, WarmReset, ProbeReset, IdleReset, Reset
      <4>2. CASE Relay \/ CpuStep \/ Wake
        BY <2>1, <4>2
           DEF Relay, CPU!Relayed, CpuStep, Probe, CPU!Proceed, Execute,
               CPU!ExecLocal, CPU!ExecSkip, CPU!Filtered, CPU!ExecWfi, CPU!Step,
               CPU!At, Access, CPU!ExecStore, CPU!ExecEmit, CPU!ExecLoad, LoadReply,
               CPU!Loaded, Wake, CPU!Wake
      <4>3. CASE BusStep \/ FifoEvent \/ Pop \/ \E d \in Data : Push(d)
        BY <2>1, <4>3
           DEF BusStep, WriteIntCtrl, ToDemux, ToFifoIn, ToFifoOut, DemuxReply,
               FifoEvent, Pop, Push, cpu
      <4>4. CASE UNCHANGED vars
        BY <2>1, <4>4 DEF vars, cpu
      <4>5. QED
        BY <2>3, <4>1, <4>2, <4>3, <4>4 DEF DrainedNext, Chip
    <3>3. QED
      BY <3>1, <3>2 DEF ResetQuiet, RelayQuiet
  <2>4. QED
    BY <2>2, <2>3
<1>3. QED
  BY <1>1, <1>2

\* A step is one of a single boot, or a reset in peace.
LEMMA DrainedCases ==
    ASSUME ResetQuiet, [DrainedNext]_vars
    PROVE  \/ [Next]_vars
           \/ AssertReset
           \/ IdleReset /\ AtPeace
<1>1. ~ProbeReset
  BY DEF ProbeReset, Reset, CPU!TakeReset, ResetQuiet
<1>2. IdleReset => AtPeace
  BY DEF IdleReset, Reset, ResetQuiet
<1>3. QED
  BY <1>1, <1>2 DEF DrainedNext, WarmReset, Next, Ports

\* A reset in peace leaves no edge pending.
LEMMA EdgeDrained ==
    ASSUME IInv, ResetQuiet, EdgePending, [DrainedNext]_vars
    PROVE  EdgePending'
<1>1. CASE [Next]_vars
  BY <1>1, EdgePendingKept
<1>2. CASE AssertReset
  BY <1>2 DEF AssertReset, EdgePending, Unfinished, Taken, cpu, mmu, demux, intc, fifoIn
<1>3. CASE IdleReset /\ AtPeace
  <2>1. pc = Idle /\ holding = NoLine
    BY <1>3 DEF IdleReset, Reset, CPU!TakeReset, AtPeace, IInv, Control, PcFollows
  <2>2. armed
    BY <2>1, Regions DEF EdgePending, Unfinished, Loads
  <2>3. armed'
    BY <1>3, <2>2 DEF IdleReset, Reset, fifoIn
  <2>4. QED
    BY <2>3 DEF EdgePending
<1>4. QED
  BY <1>1, <1>2, <1>3, DrainedCases

\* The mask is as before when an event is held.
LEMMA HeldDrained ==
    ASSUME IInv, ResetQuiet, HeldEnabled, [DrainedNext]_vars
    PROVE  HeldEnabled'
<1>1. CASE [Next]_vars
  BY <1>1, HeldEnabledKept
<1>2. CASE AssertReset \/ IdleReset
  BY <1>2 DEF AssertReset, IdleReset, Reset, HeldEnabled, IC!Enabled, intc
<1>3. QED
  BY <1>1, <1>2, DrainedCases

\* The enabling store leaves the MMU before main() goes idle, and before any
\* reset.
LEMMA EnableLastKept ==
    ASSUME IInv, ColdQuiet, ResetQuiet, EnableLast, [DrainedNext]_vars
    PROVE  EnableLast'
<1> SUFFICES ASSUME mmu_st' = "route", mmu_req' = EnableReq
             PROVE  pc' = Idle /\ cst' \in {"top", "fetch"}
  BY DEF EnableLast
<1> USE DrainedIsWarm DEF IInv
<1>1. CASE Access
  <2>1. mmu_req' = EnableReq => pc = 3
    BY <1>1, Posts, RequestFields, Regions
  <2>2. QED
    BY <1>1, <2>1, Posts, Regions DEF Loads, Emits
<1>2. CASE ~Access
  <2>1. mmu_st = "route" /\ mmu_req = EnableReq
    BY <1>2, QuietSteps
       DEF Quiet, mmu, LoadReply, MMU!Reply, WriteIntCtrl, MMU!Send, ToDemux, ToFifoIn,
           ToFifoOut, DemuxReply, MMU!Answer
  <2>2. pc = Idle /\ cst \in {"top", "fetch"}
    BY <2>1 DEF EnableLast
  <2>3. ~Execute /\ ~LoadReply /\ ~Wake /\ ~Relay /\ ~ColdBoot /\ ~WarmReset
    <3>1. ~reset_ext
      BY <2>2 DEF ResetQuiet
    <3>2. QED
      BY <2>1, <2>2, <3>1
         DEF Execute, Fetched, LoadReply, MMU!Reply, Wake, CPU!Wake, Relay, CPU!Relayed,
             ColdBoot, WarmReset, ProbeReset, IdleReset, Reset
  <2>4. CASE Probe
    BY <2>2, <2>4 DEF Probe, CPU!Proceed
  <2>5. CASE BusStep \/ FifoEvent \/ AssertReset \/ Pop \/ \E d \in Data : Push(d)
    BY <2>2, <2>5 DEF BusStep, WriteIntCtrl, ToDemux, ToFifoIn, ToFifoOut, DemuxReply,
                      FifoEvent, AssertReset, Pop, Push, cpu
  <2>6. CASE UNCHANGED vars
    BY <2>2, <2>6 DEF vars, cpu
  <2>7. QED
    BY <1>2, <2>3, <2>4, <2>5, <2>6 DEF DrainedNext, Chip, PowerOn, CpuStep
<1>3. QED
  BY <1>1, <1>2

\* The line is only enabled with the handler installed.
LEMMA MaskInstalledKept ==
    ASSUME IInv, MaskInstalled, EnableLast, [DrainedNext]_vars
    PROVE  MaskInstalled'
<1> USE DrainedIsWarm DEF IInv, MaskInstalled
<1>1. CASE WriteIntCtrl
  <2>1. CASE InstallVector
    BY <2>1, VectorZero DEF InstallVector, IntcType
  <2>2. CASE EnableLine
    <3>1. pc = Idle
      BY <2>2 DEF EnableLine, EnableLast
    <3>2. vectors[0] = Handler
      BY <3>1, Regions DEF VectorSet, VectorPosted
    <3>3. QED
      BY <2>2, <3>2 DEF EnableLine
  <2>3. QED
    BY <1>1, <2>1, <2>2, StoreSets
<1>2. CASE Relay
  BY <1>2 DEF Relay, IC!ResetIntCtrl
<1>3. CASE UNCHANGED intc \/ FifoEvent \/ Wake
  BY <1>3 DEF intc, FifoEvent, IC!Accept, Wake, IC!Deliver
<1>4. QED
  BY <1>1, <1>2, <1>3, IntcMoves

\* Where a boot comes from.
LEMMA RebootMoves ==
    ASSUME Control, Traffic, IntcType, VectorSet, [Step]_vars, Rebooting'
    PROVE  Rebooting \/ Relay
<1> USE DEF Rebooting
<1>1. pc \in Addresses
  BY DEF Control, CpuType
<1>2. CASE ColdBoot \/ WarmReset
  BY <1>2 DEF ColdBoot, WarmReset, ProbeReset, IdleReset, Reset, CPU!TakeReset
<1>3. CASE Wake
  BY <1>3, WokenAtHandler, Regions
<1>4. CASE Probe
  BY <1>4 DEF Probe, CPU!Proceed
<1>5. CASE Execute \/ Access
  <2>1. cst = "fetch"
    BY <1>5
       DEF Execute, CPU!ExecLocal, CPU!ExecSkip, CPU!Filtered, CPU!ExecWfi, CPU!At,
           Access, CPU!ExecStore, CPU!ExecEmit, CPU!ExecLoad
  <2>2. pc \notin Emits
    <3>1. SUFFICES ASSUME pc \in Emits PROVE FALSE
      OBVIOUS
    <3>2. Code[pc].op = "emit" /\ Code[pc].next \in 4 .. LastEmit
      BY <1>1, <3>1, OpAt, Regions DEF Emits
    <3>3. pc' \in 4 .. LastEmit
      BY <1>5, <3>2
         DEF Execute, CPU!ExecLocal, CPU!ExecSkip, CPU!Filtered, CPU!ExecWfi, CPU!At,
             Access, CPU!ExecStore, CPU!ExecEmit, CPU!ExecLoad, CPU!Step
    <3>4. QED
      BY <3>3, Regions
  <2>3. pc \notin Loads /\ pc # Idle
    BY <1>1, <1>5, OpAt
       DEF Execute, CPU!ExecLocal, CPU!ExecSkip, CPU!Filtered, CPU!ExecWfi, CPU!At,
           Access, CPU!ExecStore, CPU!ExecEmit, CPU!ExecLoad
  <2>4. QED
    BY <1>1, <2>1, <2>2, <2>3, Regions DEF Loads, Emits
<1>6. CASE LoadReply
  <2>1. pc \in Loads /\ pc' = pc + 1
    BY <1>1, <1>6, OpAt DEF LoadReply, CPU!Loaded, CPU!Step, Control, PcFollows
  <2>2. QED
    BY <2>1, Regions DEF Loads
<1>7. CASE BusStep \/ FifoEvent \/ AssertReset \/ Ports \/ UNCHANGED vars
  BY <1>7 DEF BusStep, WriteIntCtrl, ToDemux, ToFifoIn, ToFifoOut, DemuxReply,
              FifoEvent, AssertReset, Ports, Pop, Push, vars, cpu
<1>8. QED
  BY <1>2, <1>3, <1>4, <1>5, <1>6, <1>7 DEF Step, Next, Chip, PowerOn, CpuStep

\* Nothing enables the line during a boot.
LEMMA MaskKept ==
    ASSUME IInv, EnableLast, ResetClearsMask, [DrainedNext]_vars
    PROVE  ResetClearsMask'
<1> SUFFICES ASSUME Rebooting'
             PROVE  enable_mask' = 0
  BY DEF ResetClearsMask
<1> USE DrainedIsWarm DEF IInv
<1>1. CASE Relay
  BY <1>1 DEF Relay, IC!ResetIntCtrl
<1>2. CASE ~Relay
  <2>1. Rebooting /\ enable_mask = 0
    BY <1>2, RebootMoves DEF ResetClearsMask
  <2>2. ~EnableLine
    BY <2>1, Regions DEF EnableLine, EnableLast, Rebooting
  <2>3. enable_mask' = enable_mask
    BY <1>2, <2>2, IntcMoves, StoreSets
       DEF InstallVector, intc, FifoEvent, IC!Accept, Wake, IC!Deliver
  <2>4. QED
    BY <2>1, <2>3
<1>3. QED
  BY <1>1, <1>2

\* The chip starts with nothing under way and the line disabled.
LEMMA DrainedInit == Init => DrainedInv
BY DEF Init, CPU!Init, IC!IntCtrlInit, FI!Init, DrainedInv, ColdQuiet, BusIdle,
       ResetQuiet, RelayQuiet, EdgePending, HeldEnabled, MaskInstalled, EnableLast,
       ResetClearsMask, Rebooting

\* Every step keeps it.
LEMMA DrainedStep == IInv /\ DrainedInv /\ [DrainedNext]_vars => DrainedInv'
BY ColdQuietKept, ResetQuietKept, EdgeDrained, HeldDrained, MaskInstalledKept,
   EnableLastKept, MaskKept DEF DrainedInv

(***************************************************************************)
(* With resets as the server does them both invariants hold.               *)
(***************************************************************************)
THEOREM DrainedCorrect == DrainedSpec => [](IInv /\ DrainedInv)
<1>1. Init => IInv /\ DrainedInv
  BY InitInv, DrainedInit
<1>2. (IInv /\ DrainedInv) /\ [DrainedNext]_vars => (IInv /\ DrainedInv)'
  BY DrainedIsWarm, StepInv, DrainedStep
<1>3. QED
  BY <1>1, <1>2, PTL DEF DrainedSpec

(***************************************************************************)
(* A reset clears the enable mask as a cold boot does (interrupt.act:22):  *)
(* after a drained reset no line is enabled until main() enables it.  The  *)
(* run app_reset_mask shows that this fails without the drain.             *)
(***************************************************************************)
THEOREM MaskCorrect == DrainedSpec => []ResetClearsMask
<1>1. IInv /\ DrainedInv => ResetClearsMask
  BY DEF DrainedInv
<1>2. QED
  BY <1>1, DrainedCorrect, PTL

(***************************************************************************)
(* An event is only ever in delivery to the handler that main() installed, *)
(* also after a reset that found events in the input FIFO: the line is     *)
(* enabled only behind the vector.                                         *)
(***************************************************************************)
THEOREM DrainedVectors == DrainedSpec => []NoUnconfiguredVector
<1>1. IInv /\ DrainedInv => NoUnconfiguredVector
  <2> SUFFICES ASSUME IInv, DrainedInv, holding # NoLine
               PROVE  IC!Enabled(holding) /\ IC!Target = Handler
    BY DEF NoUnconfiguredVector
  <2>1. holding = 0 /\ IC!Enabled(0) /\ enable_mask \in {0, 1}
    BY DEF DrainedInv, HeldEnabled, IInv, IntcType
  <2>2. enable_mask = 1
    <3>1. 2^0 = 1
      OBVIOUS
    <3>2. QED
      BY <2>1, <3>1 DEF IC!Enabled
  <2>3. vectors[0] = Handler
    BY <2>2 DEF DrainedInv, MaskInstalled
  <2>4. QED
    BY <2>1, <2>3 DEF IC!Target
<1>2. QED
  BY <1>1, DrainedCorrect, PTL

(***************************************************************************)
(* When the chip has come to rest fewer than BATCH events wait, also after *)
(* a reset.  The run app_reset_strands shows that this needs the drain.    *)
(***************************************************************************)
THEOREM DrainedBatches == DrainedSpec => []NoStrandedBatch
<1>1. IInv /\ EdgePending => NoStrandedBatch
  BY RestIsShort
<1>2. IInv /\ DrainedInv => EdgePending
  BY DEF DrainedInv
<1>3. QED
  BY <1>1, <1>2, DrainedCorrect, PTL
-----------------------------------------------------------------------------
(***************************************************************************)
(* The chip is a queue.  First the images of a sequence of words, a        *)
(* recursive function: it is what its equation says.                       *)
(***************************************************************************)

\* A word is filtered out, or it has a result.
LEMMA EmittedTyped ==
    ASSUME NEW d \in Data
    PROVE  /\ Emitted(d) \in Seq(Results)
           /\ Image[d] = Dropped => Emitted(d) = << >> /\ Len(Emitted(d)) = 0
           /\ Image[d] # Dropped => /\ Image[d] \in Results
                                    /\ Emitted(d) = <<Image[d]>> /\ Len(Emitted(d)) = 1
<1>1. CASE Image[d] = Dropped
  BY <1>1, EmptySeq DEF Emitted
<1>2. CASE Image[d] # Dropped
  <2>1. Image[d] \in Results
    BY <1>2, ImageAssumption
  <2>2. QED
    BY <1>2, <2>1 DEF Emitted
<1>3. QED
  BY <1>1, <1>2

\* The images are those of the first word, then those of the rest.
LEMMA ImagesEquation ==
    /\ Images \in [Seq(Data) -> Seq(Results)]
    /\ Images[<< >>] = << >>
    /\ \A q \in Seq(Data) :
           q # << >> => Images[q] = Emitted(Head(q)) \o Images[Tail(q)]
<1> DEFINE Out == Seq(Results)
           z == [q \in Seq(Data) |-> << >>]
           S == [p \in Seq(Data) \X Out |->
                   IF p[1] = << >> THEN << >> ELSE Emitted(Head(p[1])) \o p[2]]
<1>1. << >> \in Out /\ << >> \in Seq(Data)
  BY EmptySeq
<1>2. \A q \in Seq(Data) : q # << >> => Head(q) \in Data /\ Tail(q) \in Seq(Data)
  BY EmptyOrNot
<1>3. \A q \in Seq(Data), c \in Out : q # << >> => Emitted(Head(q)) \o c \in Out
  <2> SUFFICES ASSUME NEW q \in Seq(Data), NEW c \in Out, q # << >>
               PROVE  Emitted(Head(q)) \o c \in Out
    OBVIOUS
  <2>1. PICK e \in Seq(Results) : e = Emitted(Head(q))
    BY <1>2, EmittedTyped
  <2>2. e \o c \in Seq(Results)
    BY ConcatProperties
  <2>3. QED
    BY <2>1, <2>2
<1> HIDE DEF Out
<1>4. z \in [Seq(Data) -> Out] /\ S \in [Seq(Data) \X Out -> Out]
  BY <1>1, <1>3
<1>5. \A q \in Seq(Data), c \in Out :
          z[q] = << >> /\ (q # << >> => S[<<q, c>>] = Emitted(Head(q)) \o c)
  OBVIOUS
<1> HIDE DEF z, S
<1>6. PICK h \in [Seq(Data) -> Out] : Unrolls(h, Data, z, S)
  BY <1>4, Unrolling
<1>7. \A q \in Seq(Data) :
          h[q] = IF q = << >> THEN << >> ELSE Emitted(Head(q)) \o h[Tail(q)]
  BY <1>2, <1>5, <1>6 DEF Unrolls
<1>8. h = [q \in Seq(Data) |->
             IF q = << >> THEN << >> ELSE Emitted(Head(q)) \o h[Tail(q)]]
  BY <1>7
<1>9. Images = [q \in Seq(Data) |->
                  IF q = << >> THEN << >> ELSE Emitted(Head(q)) \o Images[Tail(q)]]
  BY <1>8 DEF Images
<1>10. \A q \in Seq(Data) :
          Images[q] = IF q = << >> THEN << >> ELSE Emitted(Head(q)) \o Images[Tail(q)]
  <2> DEFINE F == [q \in Seq(Data) |->
                  IF q = << >> THEN << >> ELSE Emitted(Head(q)) \o Images[Tail(q)]]
  <2>1. \A q \in Seq(Data) :
          F[q] = IF q = << >> THEN << >> ELSE Emitted(Head(q)) \o Images[Tail(q)]
    OBVIOUS
  <2>2. Images = F
    BY <1>9
  <2> HIDE DEF F
  <2>3. QED
    BY <2>1, <2>2
<1>11. DOMAIN Images = Seq(Data)
  BY <1>9
<1> DEFINE T == {q \in Seq(Data) : Images[q] \in Out}
<1>12. << >> \in T
  BY <1>1, <1>10
<1>13. ASSUME NEW q \in Seq(Data), q # << >>, Tail(q) \in T
       PROVE  q \in T
  <2>1. Emitted(Head(q)) \o Images[Tail(q)] \in Out
    BY <1>3, <1>13
  <2>2. QED
    BY <1>10, <1>13, <2>1
<1>14. T = Seq(Data)
  <2>1. T \subseteq Seq(Data)
    OBVIOUS
  <2> HIDE DEF T
  <2>2. QED
    BY <1>12, <1>13, <2>1, OverSequences
<1>15. Images \in [Seq(Data) -> Out]
  <2>1. \A q \in Seq(Data) : Images[q] \in Out
    BY <1>14
  <2>2. Images = [q \in Seq(Data) |-> Images[q]]
    BY <1>9, <1>11
  <2>3. QED
    BY <2>1, <2>2
<1>16. QED
  BY <1>1, <1>10, <1>15 DEF Out

\* The images of one sequence after another.
LEMMA ImagesOfBoth ==
    \A r \in Seq(Data) : \A q \in Seq(Data) : Images[q \o r] = Images[q] \o Images[r]
<1> SUFFICES ASSUME NEW r \in Seq(Data)
             PROVE  \A q \in Seq(Data) : Images[q \o r] = Images[q] \o Images[r]
  OBVIOUS
<1> DEFINE T == {q \in Seq(Data) : Images[q \o r] = Images[q] \o Images[r]}
<1>1. PICK ir \in Seq(Results) : ir = Images[r]
  BY ImagesEquation
<1>2. << >> \in T
  <2>1. << >> \in Seq(Data) /\ << >> \o r = r
    BY EmptySeq, ConcatEmptySeq
  <2>2. << >> \o ir = ir
    BY ConcatEmptySeq
  <2>3. QED
    BY <1>1, <2>1, <2>2, ImagesEquation
<1>3. ASSUME NEW q \in Seq(Data), q # << >>, Tail(q) \in T
      PROVE  q \in T
  <2>1. /\ q \o r \in Seq(Data) /\ q \o r # << >>
        /\ Head(q \o r) = Head(q) /\ Tail(q \o r) = Tail(q) \o r
        /\ Head(q) \in Data /\ Tail(q) \in Seq(Data)
    BY <1>3, HeadOfConcat, ConcatProperties, EmptyOrNot
  <2>2. PICK e \in Seq(Results) : e = Emitted(Head(q))
    BY <2>1, EmittedTyped
  <2>3. PICK it \in Seq(Results) : it = Images[Tail(q)]
    BY <2>1, ImagesEquation
  <2>4. Images[Tail(q) \o r] = it \o ir
    BY <1>1, <1>3, <2>3
  <2>5. Images[q \o r] = e \o (it \o ir)
    BY <2>1, <2>2, <2>4, ImagesEquation
  <2>6. Images[q] = e \o it
    BY <1>3, <2>2, <2>3, ImagesEquation
  <2>7. (e \o it) \o ir = e \o (it \o ir)
    BY ConcatAssociative
  <2>8. QED
    BY <1>1, <2>5, <2>6, <2>7
<1>4. T = Seq(Data)
  <2>1. T \subseteq Seq(Data)
    OBVIOUS
  <2> HIDE DEF T
  <2>2. QED
    BY <1>2, <1>3, <2>1, OverSequences
<1>5. QED
  BY <1>4

\* There are no more of them than words.
LEMMA ImagesLength == \A q \in Seq(Data) : Len(Images[q]) <= Len(q)
<1> DEFINE T == {q \in Seq(Data) : Len(Images[q]) <= Len(q)}
<1>1. << >> \in T
  BY EmptySeq, ImagesEquation
<1>2. ASSUME NEW q \in Seq(Data), q # << >>, Tail(q) \in T
      PROVE  q \in T
  <2>1. /\ Head(q) \in Data /\ Tail(q) \in Seq(Data)
        /\ Len(Tail(q)) = Len(q) - 1 /\ Len(q) \in Nat
    BY <1>2, EmptyOrNot
  <2>2. PICK e \in Seq(Results) : e = Emitted(Head(q)) /\ Len(e) \in {0, 1}
    BY <2>1, EmittedTyped
  <2>3. PICK it \in Seq(Results) : it = Images[Tail(q)] /\ Len(it) \in Nat
    BY <2>1, ImagesEquation, LenProperties
  <2>4. Images[q] = e \o it
    BY <1>2, <2>2, <2>3, ImagesEquation
  <2>5. Len(e \o it) = Len(e) + Len(it)
    BY ConcatProperties
  <2>6. Len(it) <= Len(q) - 1
    BY <1>2, <2>1, <2>3
  <2>7. PICK n \in Nat : n = Len(q) /\ Len(it) <= n - 1
    BY <2>1, <2>6
  <2>8. Len(e \o it) <= n
    <3>1. PICK k \in {0, 1} : k = Len(e)
      BY <2>2
    <3>2. PICK l \in Nat : l = Len(it)
      BY <2>3
    <3>3. l <= n - 1
      BY <2>7, <3>2
    <3>4. k + l <= n
      <4>1. CASE k = 0
        BY <3>3, <4>1
      <4>2. CASE k = 1
        BY <3>3, <4>2
      <4>3. QED
        BY <4>1, <4>2
    <3>5. QED
      BY <2>5, <3>1, <3>2, <3>4
  <2>9. QED
    BY <2>4, <2>7, <2>8
<1>3. T = Seq(Data)
  <2>1. T \subseteq Seq(Data)
    OBVIOUS
  <2> HIDE DEF T
  <2>2. QED
    BY <1>1, <1>2, <2>1, OverSequences
<1>4. QED
  BY <1>3

\* A word appended appends its result, if it has one.
LEMMA ImagesAppend ==
    ASSUME NEW q \in Seq(Data), NEW d \in Data
    PROVE  /\ Append(q, d) \in Seq(Data)
           /\ Images[Append(q, d)] = Images[q] \o Emitted(d)
<1>1. Append(q, d) \in Seq(Data) /\ Append(q, d) = q \o <<d>>
  BY AppendProperties, AppendIsConcat
<1> DEFINE one == <<d>>
<1>2. one \in Seq(Data) /\ one # << >> /\ Head(one) = d /\ Tail(one) = << >>
  OBVIOUS
<1> HIDE DEF one
<1>3. Images[one] = Emitted(d) \o << >>
  BY <1>2, ImagesEquation
<1>4. Emitted(d) \o << >> = Emitted(d)
  BY EmittedTyped, ConcatEmptySeq
<1>5. Images[q \o one] = Images[q] \o Images[one]
  BY <1>2, ImagesOfBoth
<1>6. QED
  BY <1>1, <1>3, <1>4, <1>5 DEF one

\* Both invariants together.
LEMMA QueueStep ==
    ASSUME IInv, OutputRing, [Step]_vars
    PROVE  IInv' /\ OutputRing'
BY StepInv, FifoMoves, OutputRingKept DEF IInv

-----------------------------------------------------------------------------
(***************************************************************************)
(* What is inside the chip: the results already made, oldest first, and    *)
(* the words still to be transformed.  A step moves one across a port,     *)
(* transforms the oldest word, drops the batch in hand, or does neither.   *)
(***************************************************************************)
DemuxPosts   == Posted(dmx_st, dmx_req)
MmuPosts     == Posted(mmu_st, mmu_req)
MmuReturns   == Returning(mmu_st, mmu_rdata)
DemuxReturns == Returning(dmx_st, dmx_rdata)

Outside == FO!Contents \o DemuxPosts \o MmuPosts
Inside  == v \o MmuReturns \o DemuxReturns \o FI!Contents

Stays == Outside' = Outside /\ Inside' = Inside

Arrives == \E d \in Data : Outside' = Outside /\ Inside' = Append(Inside, d)

Leaves == Outside # << >> /\ Outside' = Tail(Outside) /\ Inside' = Inside

Handled == /\ Inside # << >> /\ Inside' = Tail(Inside)
           /\ Outside' = Outside \o Emitted(Head(Inside))

TakesReset == \E from \in {"cold", "top", "wfi"} : Reset(from)

Cut == /\ TakesReset /\ cst' = "relay"
       /\ Outside' = Outside
       /\ Inside' \in Seq(Data) /\ Inside = v \o Inside'

\* A posted result and a returning word are sequences of at most one.
LEMMA PiecesTyped ==
    ASSUME IInv, OutputRing
    PROVE  /\ FO!Contents \in Seq(Results) /\ FI!Contents \in Seq(Data)
           /\ DemuxPosts \in Seq(Results) /\ MmuPosts \in Seq(Results)
           /\ MmuReturns \in Seq(Data) /\ DemuxReturns \in Seq(Data)
           /\ v \in Seq(Data)
<1>1. FO!Contents \in Seq(Results) /\ FI!Contents \in Seq(Data) /\ v \in Seq(Data)
  BY InputOrdered, InputSeq, OutputSeq DEF IInv, Control, CpuType
<1>2. << >> \in Seq(Results) /\ << >> \in Seq(Data)
  BY EmptySeq
<1>3. DemuxPosts \in Seq(Results)
  <2>1. CASE dmx_st = "route" /\ dmx_req.base = 6
    <3>1. dmx_req.val \in Results
      BY <2>1, RequestFields
         DEF IInv, Traffic, RoutersFollow, LoadEntering, LoadOutside, LoadBack,
             OuterStoring, OuterStores
    <3>2. DemuxPosts = <<dmx_req.val>>
      BY <2>1 DEF DemuxPosts, Posted, ADDR_FIFO_OUT
    <3>3. QED
      BY <3>1, <3>2
  <2>2. CASE ~(dmx_st = "route" /\ dmx_req.base = 6)
    BY <1>2, <2>2 DEF DemuxPosts, Posted, ADDR_FIFO_OUT
  <2>3. QED
    BY <2>1, <2>2
<1>4. MmuPosts \in Seq(Results)
  <2>1. CASE mmu_st = "route" /\ mmu_req.base = 6
    <3>1. mmu_req.val \in Results
      BY <2>1, RequestFields
         DEF IInv, Traffic, RoutersFollow, LoadEntering, LoadOutside, LoadBack,
             CoreStoring, Stores
    <3>2. MmuPosts = <<mmu_req.val>>
      BY <2>1 DEF MmuPosts, Posted, ADDR_FIFO_OUT
    <3>3. QED
      BY <3>1, <3>2
  <2>2. CASE ~(mmu_st = "route" /\ mmu_req.base = 6)
    BY <1>2, <2>2 DEF MmuPosts, Posted, ADDR_FIFO_OUT
  <2>3. QED
    BY <2>1, <2>2
<1>5. MmuReturns \in Seq(Data)
  <2>1. CASE mmu_st = "reply"
    <3>1. mmu_rdata \in Data
      BY <2>1 DEF IInv, Traffic, RoutersFollow, LoadEntering, LoadOutside, LoadBack,
                  CoreStoring
    <3>2. QED
      BY <2>1, <3>1 DEF MmuReturns, Returning
  <2>2. CASE mmu_st # "reply"
    BY <1>2, <2>2 DEF MmuReturns, Returning
  <2>3. QED
    BY <2>1, <2>2
<1>6. DemuxReturns \in Seq(Data)
  <2>1. CASE dmx_st = "reply"
    <3>1. dmx_rdata \in Data
      BY <2>1 DEF IInv, Traffic, RoutersFollow, LoadEntering, LoadOutside, LoadBack,
                  OuterStoring
    <3>2. QED
      BY <2>1, <3>1 DEF DemuxReturns, Returning
  <2>2. CASE dmx_st # "reply"
    BY <1>2, <2>2 DEF DemuxReturns, Returning
  <2>3. QED
    BY <2>1, <2>2
<1>7. QED
  BY <1>1, <1>3, <1>4, <1>5, <1>6

\* So are the results made and the words to transform.
LEMMA PathTyped ==
    ASSUME IInv, OutputRing
    PROVE  Outside \in Seq(Results) /\ Inside \in Seq(Data)
<1>1. FO!Contents \o DemuxPosts \in Seq(Results)
  BY PiecesTyped, ConcatProperties
<1>2. Outside \in Seq(Results)
  BY <1>1, PiecesTyped, ConcatProperties DEF Outside
<1>3. v \o MmuReturns \in Seq(Data)
  BY PiecesTyped, ConcatProperties
<1>4. v \o MmuReturns \o DemuxReturns \in Seq(Data)
  BY <1>3, PiecesTyped, ConcatProperties
<1>5. Inside \in Seq(Data)
  BY <1>4, PiecesTyped, ConcatProperties DEF Inside
<1>6. QED
  BY <1>2, <1>5

\* Nor do two.
LEMMA InsideWithout ==
    ASSUME NEW C, NEW h \in Seq(C), NEW f \in Seq(C)
    PROVE  h \o << >> \o << >> \o f = h \o f
BY ConcatEmptySeq

\* While the CPU is not loading, no word is on its way to it.
LEMMA NothingBack ==
    ASSUME IInv, OutputRing, cst # "load"
    PROVE  /\ MmuReturns = << >> /\ DemuxReturns = << >>
           /\ Inside = v \o FI!Contents
<1>1. MmuReturns = << >> /\ DemuxReturns = << >>
  BY NoReply DEF IInv, Replying, MmuReturns, DemuxReturns, Returning
<1>2. QED
  BY <1>1, PiecesTyped, InsideWithout DEF Inside

\* The routers hold the same.
LEMMA SamePieces ==
    ASSUME UNCHANGED <<mmu, demux>>
    PROVE  /\ DemuxPosts' = DemuxPosts /\ MmuPosts' = MmuPosts
           /\ MmuReturns' = MmuReturns /\ DemuxReturns' = DemuxReturns
BY DEF mmu, demux, DemuxPosts, MmuPosts, MmuReturns, DemuxReturns, Posted, Returning

\* A step that touches neither the words nor the results.
LEMMA StaysInside ==
    ASSUME UNCHANGED <<mmu, demux, v, fi_buf, fi_head, fi_count, fifoOut>>
    PROVE  Stays
<1>1. FI!Contents' = FI!Contents /\ FO!Contents' = FO!Contents /\ v' = v
  BY InputKeeps, OutputKeeps
<1>2. QED
  BY <1>1, SamePieces DEF Stays, Outside, Inside

\* The CPU takes a reset and the batch in hand is gone.
LEMMA ResetCuts ==
    ASSUME IInv, OutputRing, TakesReset
    PROVE  Cut
<1>1. /\ cst # "load" /\ cst' = "relay" /\ v' = << >>
      /\ UNCHANGED <<mmu, demux, fifoIn, fifoOut>>
  BY DEF TakesReset, Reset, CPU!TakeReset
<1>2. FI!Contents' = FI!Contents /\ FO!Contents' = FO!Contents
  BY <1>1, InputKeeps, OutputKeeps DEF fifoIn
<1>3. MmuReturns' = << >> /\ DemuxReturns' = << >> /\ Inside = v \o FI!Contents
  BY <1>1, NothingBack, SamePieces
<1>4. Inside' = FI!Contents
  <2>1. FI!Contents \in Seq(Data) /\ << >> \in Seq(Data)
    BY PiecesTyped, EmptySeq
  <2>2. << >> \o << >> \o << >> \o FI!Contents = << >> \o FI!Contents
    BY <2>1, InsideWithout
  <2>3. << >> \o FI!Contents = FI!Contents
    BY <2>1, ConcatEmptySeq
  <2>4. QED
    BY <1>1, <1>2, <1>3, <2>2, <2>3 DEF Inside
<1>5. Outside' = Outside
  BY <1>1, <1>2, SamePieces DEF Outside
<1>6. QED
  BY <1>1, <1>3, <1>4, <1>5, PiecesTyped DEF Cut

\* A push brings a word behind all others.
LEMMA PushArrives ==
    ASSUME IInv, OutputRing, NEW d \in Data, Push(d)
    PROVE  Outside' = Outside /\ Inside' = Append(Inside, d)
<1>1. FI!Push(d) /\ UNCHANGED <<mmu, demux, v, fifoOut>>
  BY DEF Push, cpu
<1>2. FI!Contents' = Append(FI!Contents, d) /\ FO!Contents' = FO!Contents
  BY <1>1, InputOrdered, InputPuts, OutputKeeps DEF IInv
<1>3. Outside' = Outside
  BY <1>1, <1>2, SamePieces DEF Outside
<1> DEFINE h == v \o MmuReturns \o DemuxReturns
           f == FI!Contents
<1>4. h \in Seq(Data) /\ f \in Seq(Data)
  <2>1. v \o MmuReturns \in Seq(Data)
    BY PiecesTyped, ConcatProperties
  <2>2. QED
    BY <2>1, PiecesTyped, ConcatProperties
<1>5. Inside' = h \o Append(f, d) /\ Inside = h \o f
  BY <1>1, <1>2, SamePieces DEF Inside
<1> HIDE DEF h, f
<1>6. h \o Append(f, d) = Append(h \o f, d)
  <2> DEFINE one == <<d>>
  <2>1. one \in Seq(Data) /\ Append(f, d) = f \o one
    BY <1>4, AppendIsConcat
  <2>2. h \o f \in Seq(Data)
    BY <1>4, ConcatProperties
  <2>3. Append(h \o f, d) = (h \o f) \o one
    BY <2>2, AppendIsConcat
  <2> HIDE DEF one
  <2>4. (h \o f) \o one = h \o (f \o one)
    BY <1>4, <2>1, ConcatAssociative
  <2>5. QED
    BY <2>1, <2>3, <2>4
<1>7. QED
  BY <1>3, <1>5, <1>6

\* A pop takes the oldest result.
LEMMA PopLeaves ==
    ASSUME IInv, OutputRing, Pop
    PROVE  Leaves
<1>1. FO!Pop /\ UNCHANGED <<mmu, demux, v, fifoIn>>
  BY DEF Pop, cpu
<1>2. /\ FO!Contents # << >> /\ FO!Contents' = Tail(FO!Contents)
      /\ FI!Contents' = FI!Contents
  BY <1>1, OutputGets, InputKeeps DEF IInv, fifoIn
<1> DEFINE f == FO!Contents
           p == DemuxPosts
           m == MmuPosts
<1>3. f \in Seq(Results) /\ p \in Seq(Results) /\ m \in Seq(Results)
  BY PiecesTyped
<1>4. Outside = f \o p \o m /\ Outside' = Tail(f) \o p \o m /\ f # << >>
  BY <1>1, <1>2, SamePieces DEF Outside
<1>5. Inside' = Inside
  BY <1>1, <1>2, SamePieces DEF Inside
<1> HIDE DEF f, p, m
<1>6. f \o p # << >> /\ Tail(f \o p) = Tail(f) \o p /\ f \o p \in Seq(Results)
  BY <1>3, <1>4, HeadOfConcat, ConcatProperties
<1>7. f \o p \o m # << >> /\ Tail(f \o p \o m) = Tail(f) \o p \o m
  <2>1. PICK q \in Seq(Results) : q = f \o p /\ q # << >>
    BY <1>6
  <2>2. q \o m # << >> /\ Tail(q \o m) = Tail(q) \o m
    BY <1>3, <2>1, HeadOfConcat
  <2>3. QED
    BY <1>6, <2>1, <2>2
<1>8. QED
  BY <1>4, <1>5, <1>7 DEF Leaves

\* The oldest word of the batch is dealt with.
LEMMA HandlesOldest ==
    ASSUME IInv, OutputRing, cst = "fetch", pc \in Emits
    PROVE  /\ v # << >> /\ Head(v) \in Data
           /\ Inside # << >> /\ Head(Inside) = Head(v)
           /\ Tail(Inside) = Tail(v) \o FI!Contents
<1>1. v \in Seq(Data) /\ Len(v) >= 1
  BY HeldAt, Regions DEF IInv, Control, CpuType, Emits
<1>2. v # << >>
  BY <1>1, EmptySeq
<1>3. Inside = v \o FI!Contents /\ FI!Contents \in Seq(Data)
  BY NothingBack, PiecesTyped
<1>4. /\ v \o FI!Contents # << >> /\ Head(v \o FI!Contents) = Head(v)
      /\ Tail(v \o FI!Contents) = Tail(v) \o FI!Contents
  BY <1>1, <1>2, <1>3, HeadOfConcat
<1>5. Head(v) \in Data
  BY <1>1, <1>2, HeadTailProperties
<1>6. QED
  BY <1>2, <1>3, <1>4, <1>5

\* It has no result: the store is skipped.
LEMMA SkipHandles ==
    ASSUME IInv, OutputRing, Execute, CPU!ExecSkip
    PROVE  Handled
<1>1. /\ cst = "fetch" /\ Code[pc].op = "emit" /\ v' = Tail(v) /\ cst' # "load"
      /\ Code[pc].image[Head(v)] = Dropped
      /\ UNCHANGED <<mmu, demux, fifoIn, fifoOut>>
  BY DEF Execute, CPU!ExecSkip, CPU!Filtered, CPU!At, CPU!Step
<1>2. pc \in Emits /\ Code[pc].image = Image
  BY <1>1, OpRegion, OpAt DEF IInv, Control, CpuType
<1>3. /\ v # << >> /\ Head(v) \in Data /\ Inside # << >> /\ Head(Inside) = Head(v)
      /\ Tail(Inside) = Tail(v) \o FI!Contents
  BY <1>1, <1>2, HandlesOldest
<1>4. FI!Contents' = FI!Contents /\ FO!Contents' = FO!Contents
  BY <1>1, InputKeeps, OutputKeeps DEF fifoIn
<1>5. /\ MmuReturns' = << >> /\ DemuxReturns' = << >>
      /\ DemuxPosts' = DemuxPosts /\ MmuPosts' = MmuPosts
  BY <1>1, NothingBack, SamePieces
<1>6. Inside' = Tail(v) \o FI!Contents
  <2>1. Tail(v) \in Seq(Data) /\ FI!Contents \in Seq(Data)
    BY <1>3, PiecesTyped, HeadTailProperties
  <2>2. Inside' = Tail(v) \o << >> \o << >> \o FI!Contents
    BY <1>1, <1>4, <1>5 DEF Inside
  <2>3. QED
    BY <2>1, <2>2, InsideWithout
<1>7. Outside' = Outside \o Emitted(Head(v))
  <2>1. Emitted(Head(v)) = << >>
    BY <1>1, <1>2 DEF Emitted
  <2>2. Outside' = Outside
    BY <1>4, <1>5 DEF Outside
  <2>3. Outside \o << >> = Outside
    BY PathTyped, ConcatEmptySeq
  <2>4. QED
    BY <2>1, <2>2, <2>3
<1>8. QED
  BY <1>3, <1>6, <1>7 DEF Handled

\* An access posts its request: the result of the oldest word, or nothing
\* that the output FIFO gets.
LEMMA AccessMoves ==
    ASSUME IInv, OutputRing, Access
    PROVE  Handled \/ Stays
<1>1. /\ cst = "fetch" /\ mmu_st = "idle" /\ mmu_st' = "route"
      /\ UNCHANGED <<demux, fifoIn, fifoOut>>
  BY Posts DEF IInv, Access
<1>2. FI!Contents' = FI!Contents /\ FO!Contents' = FO!Contents
  BY <1>1, InputKeeps, OutputKeeps DEF fifoIn
<1>3. /\ MmuPosts = << >> /\ MmuReturns = << >> /\ MmuReturns' = << >>
      /\ DemuxReturns = << >> /\ DemuxReturns' = << >> /\ DemuxPosts' = DemuxPosts
  BY <1>1, NothingBack DEF MmuPosts, MmuReturns, DemuxPosts, DemuxReturns, Posted,
                           Returning, demux
<1>4. CASE CPU!ExecEmit
  <2>1. pc \in Emits
    BY <1>4, OpRegion DEF IInv, Control, CpuType, CPU!ExecEmit, CPU!At
  <2>2. /\ v # << >> /\ Head(v) \in Data /\ Inside # << >> /\ Head(Inside) = Head(v)
        /\ Tail(Inside) = Tail(v) \o FI!Contents
    BY <1>1, <2>1, HandlesOldest
  <2>3. v' = Tail(v) /\ Image[Head(v)] # Dropped
    BY <1>4, <2>1, OpAt DEF IInv, Control, CpuType, CPU!ExecEmit, CPU!Filtered, CPU!At
  <2>4. mmu_req' = [op |-> "W", base |-> 6, off |-> 0, val |-> Image[Head(v)]]
    BY <2>1, Sends DEF IInv, Control, CpuType, Access, MMU!Take
  <2>5. mmu_req'.base = 6 /\ mmu_req'.val = Image[Head(v)]
    BY <2>4
  <2>6. MmuPosts' = Emitted(Head(v))
    BY <1>1, <2>3, <2>5 DEF MmuPosts, Posted, Emitted, ADDR_FIFO_OUT
  <2>7. Inside' = Tail(v) \o FI!Contents
    <3>1. Tail(v) \in Seq(Data) /\ FI!Contents \in Seq(Data)
      BY <2>2, PiecesTyped, HeadTailProperties
    <3>2. Inside' = Tail(v) \o << >> \o << >> \o FI!Contents
      BY <1>2, <1>3, <2>3 DEF Inside
    <3>3. QED
      BY <3>1, <3>2, InsideWithout
  <2>8. Outside' = Outside \o Emitted(Head(v))
    <3>1. FO!Contents \o DemuxPosts \in Seq(Results)
      BY PiecesTyped, ConcatProperties
    <3>2. Outside = FO!Contents \o DemuxPosts
      BY <1>3, <3>1, ConcatEmptySeq DEF Outside
    <3>3. QED
      BY <1>2, <1>3, <2>6, <3>2 DEF Outside
  <2>9. QED
    BY <2>2, <2>7, <2>8 DEF Handled
<1>5. CASE ~CPU!ExecEmit
  <2>1. v' = v /\ pc \in 1 .. 3 \cup Loads
    BY <1>5, OpRegion DEF IInv, Control, CpuType, Access, CPU!ExecStore, CPU!ExecLoad,
                          CPU!At
  <2>2. mmu_req' \in {VectorReq, TriggerReq, EnableReq, LoadReq}
    <3>1. mmu_req' = CPU!Request
      BY DEF Access, MMU!Take
    <3>2. pc \in 1 .. 3 => pc = 1 \/ pc = 2 \/ pc = 3
      OBVIOUS
    <3>3. QED
      BY <2>1, <3>1, <3>2, Sends DEF IInv, Control, CpuType
  <2>3. mmu_req'.base # 6
    BY <2>2, RequestFields
  <2>4. MmuPosts' = << >>
    BY <2>3 DEF MmuPosts, Posted, ADDR_FIFO_OUT
  <2>5. QED
    BY <1>2, <1>3, <2>1, <2>4 DEF Stays, Outside, Inside
<1>6. QED
  BY <1>4, <1>5

\* The word a load brings joins the batch.
LEMMA ReplyStays ==
    ASSUME IInv, OutputRing, LoadReply
    PROVE  Stays
<1>1. LoadBack
  BY DEF LoadReply, CPU!Loaded, MMU!Reply, IInv, Traffic, RoutersFollow, LoadEntering,
         LoadOutside
<1>2. /\ mmu_st = "reply" /\ mmu_st' = "idle" /\ dmx_st = "idle" /\ mmu_rdata \in Data
      /\ UNCHANGED <<demux, fifoIn, fifoOut>> /\ v' = Append(v, mmu_rdata)
  BY <1>1 DEF LoadBack, LoadReply, CPU!Loaded, MMU!Reply
<1>3. FI!Contents' = FI!Contents /\ FO!Contents' = FO!Contents
  BY <1>2, InputKeeps, OutputKeeps DEF fifoIn
<1>4. /\ MmuPosts = << >> /\ MmuPosts' = << >> /\ DemuxPosts' = DemuxPosts
      /\ MmuReturns = <<mmu_rdata>> /\ MmuReturns' = << >>
      /\ DemuxReturns' = DemuxReturns
  BY <1>2 DEF MmuPosts, MmuReturns, DemuxPosts, DemuxReturns, Posted, Returning, demux
<1>5. v' = v \o MmuReturns /\ v' \o MmuReturns' = v \o MmuReturns
  <2>1. v \in Seq(Data) /\ v \o MmuReturns \in Seq(Data)
    BY PiecesTyped, ConcatProperties
  <2>2. v' = v \o MmuReturns
    BY <1>2, <1>4, <2>1, AppendIsConcat
  <2>3. v \o MmuReturns \o << >> = v \o MmuReturns
    BY <2>1, ConcatEmptySeq
  <2>4. QED
    BY <1>4, <2>2, <2>3
<1>6. QED
  BY <1>3, <1>4, <1>5 DEF Stays, Outside, Inside

\* A write to the interrupt controller carries no result.
LEMMA WriteStays ==
    ASSUME IInv, OutputRing, WriteIntCtrl
    PROVE  Stays
<1>1. /\ mmu_st = "route" /\ mmu_req.base = 1 /\ mmu_st' # "route"
      /\ mmu_st' # "reply" /\ UNCHANGED <<v, demux, fifoIn, fifoOut>>
  BY DEF WriteIntCtrl, MMU!Send, ADDR_INT_CTRL, cpu
<1>2. FI!Contents' = FI!Contents /\ FO!Contents' = FO!Contents
  BY <1>1, InputKeeps, OutputKeeps DEF fifoIn
<1>3. /\ MmuPosts = << >> /\ MmuPosts' = << >> /\ DemuxPosts' = DemuxPosts
      /\ MmuReturns = << >> /\ MmuReturns' = << >> /\ DemuxReturns' = DemuxReturns
  BY <1>1 DEF MmuPosts, MmuReturns, DemuxPosts, DemuxReturns, Posted, Returning, demux,
              ADDR_FIFO_OUT
<1>4. QED
  BY <1>1, <1>2, <1>3 DEF Stays, Outside, Inside

\* A request moves from one router to the next.
LEMMA ToDemuxStays ==
    ASSUME IInv, OutputRing, ToDemux
    PROVE  Stays
<1>1. /\ mmu_st = "route" /\ mmu_st' # "route" /\ mmu_st' # "reply"
      /\ dmx_st = "idle" /\ dmx_st' = "route" /\ dmx_req' = mmu_req
      /\ UNCHANGED <<v, fifoIn, fifoOut>>
  BY DEF ToDemux, MMU!Send, Demux!Take, cpu
<1>2. FI!Contents' = FI!Contents /\ FO!Contents' = FO!Contents
  BY <1>1, InputKeeps, OutputKeeps DEF fifoIn
<1>3. /\ DemuxPosts = << >> /\ DemuxPosts' = MmuPosts /\ MmuPosts' = << >>
      /\ MmuReturns = << >> /\ MmuReturns' = << >>
      /\ DemuxReturns = << >> /\ DemuxReturns' = << >>
  BY <1>1 DEF MmuPosts, MmuReturns, DemuxPosts, DemuxReturns, Posted, Returning
<1>4. Outside' = Outside
  <2>1. FO!Contents \in Seq(Results) /\ MmuPosts \in Seq(Results)
    BY PiecesTyped
  <2>2. FO!Contents \o MmuPosts \o << >> = FO!Contents \o << >> \o MmuPosts
    BY <2>1, WithoutEmpty
  <2>3. QED
    BY <1>2, <1>3, <2>2 DEF Outside
<1>5. Inside' = Inside
  BY <1>1, <1>2, <1>3 DEF Inside
<1>6. QED
  BY <1>4, <1>5 DEF Stays

\* A load takes the oldest word; the trigger level is no result.
LEMMA ToFifoInStays ==
    ASSUME IInv, OutputRing, ToFifoIn
    PROVE  Stays
<1>1. /\ dmx_st = "route" /\ dmx_req.base = 5 /\ dmx_st' # "route"
      /\ UNCHANGED <<v, mmu, fifoOut>>
      /\ dmx_st' = IF Demux!IsRead(dmx_req) THEN "reply" ELSE "idle"
      /\ dmx_rdata' = IF Demux!IsRead(dmx_req) THEN FI!Front ELSE dmx_rdata
  BY DEF ToFifoIn, Demux!Exchange, ADDR_FIFO_IN, cpu
<1>2. FO!Contents' = FO!Contents
  BY <1>1, OutputKeeps
<1>3. /\ DemuxPosts = << >> /\ DemuxPosts' = << >> /\ DemuxReturns = << >>
      /\ MmuPosts' = MmuPosts /\ MmuReturns' = MmuReturns
  BY <1>1 DEF MmuPosts, MmuReturns, DemuxPosts, DemuxReturns, Posted, Returning, mmu,
              ADDR_FIFO_OUT
<1>4. Outside' = Outside
  BY <1>2, <1>3 DEF Outside
<1>5. CASE dmx_req.op = "R"
  <2>1. /\ LoadOutside /\ fi_count > 0 /\ ~armed /\ FI!Read
    BY <1>5, LoadCovered DEF IInv, ToFifoIn
  <2>2. /\ FI!Contents # << >> /\ FI!Front = Head(FI!Contents)
        /\ FI!Contents' = Tail(FI!Contents)
    BY <2>1, InputOrdered, InputGets DEF IInv
  <2>3. dmx_st' = "reply" /\ dmx_rdata' = FI!Front
    BY <1>1, <1>5 DEF Demux!IsRead
  <2>4. DemuxReturns' = <<FI!Front>>
    BY <2>3 DEF DemuxReturns, Returning
  <2> DEFINE h == v \o MmuReturns
             f == FI!Contents
             one == <<Head(f)>>
  <2>5. h \in Seq(Data) /\ f \in Seq(Data) /\ f # << >>
    BY <2>2, PiecesTyped, ConcatProperties
  <2>6. one \in Seq(Data) /\ Tail(f) \in Seq(Data) /\ f = one \o Tail(f)
    <3>1. Head(f) \in Data /\ Tail(f) \in Seq(Data)
      BY <2>5, HeadTailProperties
    <3>2. f = <<Head(f)>> \o Tail(f)
      BY <2>5, HeadFirst
    <3> HIDE DEF f
    <3>3. QED
      BY <3>1, <3>2
  <2>7. Inside = h \o << >> \o f /\ Inside' = h \o one \o Tail(f)
    BY <1>1, <1>3, <2>2, <2>4 DEF Inside
  <2> HIDE DEF h, f, one
  <2>8. h \o << >> \o f = h \o f
    BY <2>5, ConcatEmptySeq
  <2>9. h \o one \o Tail(f) = h \o (one \o Tail(f))
    BY <2>5, <2>6, ConcatAssociative
  <2>10. QED
    BY <1>4, <2>6, <2>7, <2>8, <2>9 DEF Stays
<1>6. CASE dmx_req.op # "R"
  <2>1. dmx_req \in OuterStores
    BY <1>1, <1>6, RequestFields
       DEF IInv, Traffic, RoutersFollow, LoadEntering, LoadOutside, LoadBack,
           OuterStoring
  <2>2. dmx_st' = "idle"
    BY <1>1, <2>1, StoreOrLoad
  <2>3. DemuxReturns' = << >>
    BY <2>2 DEF DemuxReturns, Returning
  <2>4. FI!Contents' = FI!Contents
    BY <1>6, InputKeeps DEF ToFifoIn, FI!SetTrigger, FI!ring
  <2>5. QED
    BY <1>1, <1>3, <1>4, <2>3, <2>4 DEF Stays, Inside
<1>7. QED
  BY <1>5, <1>6

\* The posted result reaches the output FIFO.
LEMMA ToFifoOutStays ==
    ASSUME IInv, OutputRing, ToFifoOut
    PROVE  Stays
<1>1. /\ dmx_st = "route" /\ dmx_req.base = 6 /\ dmx_st' \notin {"route", "reply"}
      /\ UNCHANGED <<v, mmu, fifoIn>>
      /\ FO!CpuAccess(dmx_req.op, dmx_req.val)
  BY DEF ToFifoOut, Demux!Send, ADDR_FIFO_OUT, cpu
<1>2. dmx_req \in ResultReqs
  BY <1>1, RequestFields
     DEF IInv, Traffic, RoutersFollow, LoadEntering, LoadOutside, LoadBack,
         OuterStoring, OuterStores
<1>3. dmx_req.op = "W" /\ dmx_req.val \in Results
  BY <1>2, RequestFields
<1> DEFINE r == dmx_req.val
           f == FO!Contents
<1>4. r \in Results /\ FO!CpuAccess("W", r)
  BY <1>1, <1>3
<1>5. FO!Contents' = Append(f, r)
  <2> HIDE DEF r
  <2>1. QED
    BY <1>4, OutputPuts DEF IInv
<1>6. FI!Contents' = FI!Contents
  BY <1>1, InputKeeps DEF fifoIn
<1>7. /\ DemuxPosts = <<r>> /\ DemuxPosts' = << >>
      /\ DemuxReturns = << >> /\ DemuxReturns' = << >>
      /\ MmuPosts' = MmuPosts /\ MmuReturns' = MmuReturns
  BY <1>1 DEF MmuPosts, MmuReturns, DemuxPosts, DemuxReturns, Posted, Returning, mmu,
              ADDR_FIFO_OUT
<1>8. FO!Contents' = f \o DemuxPosts /\ f \o DemuxPosts \in Seq(Results)
  BY <1>4, <1>5, <1>7, PiecesTyped, AppendIsConcat, ConcatProperties
<1>9. FO!Contents' \o DemuxPosts' = f \o DemuxPosts
  BY <1>7, <1>8, ConcatEmptySeq
<1>10. Outside' = Outside
  BY <1>7, <1>9 DEF Outside
<1>11. Inside' = Inside
  BY <1>1, <1>6, <1>7 DEF Inside
<1>12. QED
  BY <1>10, <1>11 DEF Stays

\* The word on its way back moves from one router to the next.
LEMMA DemuxReplyStays ==
    ASSUME IInv, OutputRing, DemuxReply
    PROVE  Stays
<1>1. /\ dmx_st = "reply" /\ dmx_st' = "idle"
      /\ mmu_st = "await" /\ mmu_st' = "reply" /\ mmu_rdata' = dmx_rdata
      /\ UNCHANGED <<v, fifoIn, fifoOut>>
  BY DEF DemuxReply, Demux!Reply, MMU!Answer, cpu
<1>2. FI!Contents' = FI!Contents /\ FO!Contents' = FO!Contents
  BY <1>1, InputKeeps, OutputKeeps DEF fifoIn
<1>3. /\ DemuxPosts = << >> /\ DemuxPosts' = << >> /\ MmuPosts = << >>
      /\ MmuPosts' = << >> /\ MmuReturns = << >> /\ MmuReturns' = DemuxReturns
      /\ DemuxReturns' = << >>
  BY <1>1 DEF MmuPosts, MmuReturns, DemuxPosts, DemuxReturns, Posted, Returning
<1>4. v \o DemuxReturns \o << >> = v \o << >> \o DemuxReturns
  BY PiecesTyped, WithoutEmpty
<1>5. QED
  BY <1>1, <1>2, <1>3, <1>4 DEF Stays, Outside, Inside

\* Every step is one of the five.
LEMMA PathMoves ==
    ASSUME IInv, OutputRing, [Step]_vars
    PROVE  Stays \/ Arrives \/ Leaves \/ Handled \/ Cut
<1>1. CASE ColdBoot \/ WarmReset
  BY <1>1, ResetCuts DEF ColdBoot, WarmReset, ProbeReset, IdleReset, TakesReset
<1>2. ASSUME NEW d \in Data, Push(d)
      PROVE  Arrives
  BY <1>2, PushArrives DEF Arrives
<1>3. CASE Pop
  BY <1>3, PopLeaves
<1>4. CASE Access \/ LoadReply \/ BusStep
  BY <1>4, AccessMoves, ReplyStays, WriteStays, ToDemuxStays, ToFifoInStays,
     ToFifoOutStays, DemuxReplyStays DEF BusStep
<1>5. CASE Execute /\ CPU!ExecSkip
  BY <1>5, SkipHandles
<1>6. CASE Probe \/ (Execute /\ ~CPU!ExecSkip)
  <2>1. UNCHANGED <<mmu, demux, v, fifoIn, fifoOut>>
    BY <1>6 DEF Probe, CPU!Proceed, Execute, CPU!ExecLocal, CPU!ExecWfi
  <2>2. QED
    BY <2>1, StaysInside DEF fifoIn
<1>7. CASE Relay \/ Wake \/ AssertReset \/ UNCHANGED vars
  <2>1. UNCHANGED <<mmu, demux, v, fifoIn, fifoOut>>
    BY <1>7 DEF Relay, CPU!Relayed, Wake, CPU!Wake, AssertReset, vars, cpu
  <2>2. QED
    BY <2>1, StaysInside DEF fifoIn
<1>8. CASE FifoEvent
  <2>1. UNCHANGED <<mmu, demux, v, fi_buf, fi_head, fi_count, fifoOut>>
    BY <1>8 DEF FifoEvent, FI!Fire, FI!ring, cpu
  <2>2. QED
    BY <2>1, StaysInside
<1>9. QED
  BY <1>1, <1>2, <1>3, <1>4, <1>5, <1>6, <1>7, <1>8
     DEF Step, Next, Chip, PowerOn, Ports, CpuStep

\* The path is the results made and the images of the words.
LEMMA PathParts ==
    ASSUME IInv, OutputRing
    PROVE  /\ Path = Outside \o Images[Inside]
           /\ Outside \in Seq(Results) /\ Inside \in Seq(Data)
           /\ Images[Inside] \in Seq(Results)
<1>1. Path = Outside \o Images[Inside]
  BY DEF Path, Outside, Inside, DemuxPosts, MmuPosts, DemuxReturns, MmuReturns
<1>2. QED
  BY <1>1, PathTyped, ImagesEquation

\* Nothing is lost but in a cut.
LEMMA PathKept ==
    ASSUME IInv, OutputRing, Stays \/ Arrives \/ Leaves \/ Handled
    PROVE  [EP!Next]_Path
<1>1. Path' = Outside' \o Images[Inside']
  BY DEF Path, Outside, Inside, DemuxPosts, MmuPosts, DemuxReturns, MmuReturns
<1>2. PICK o \in Seq(Results) : o = Outside
  BY PathParts
<1>3. PICK i \in Seq(Data) : i = Inside
  BY PathParts
<1>4. PICK im \in Seq(Results) : im = Images[i]
  BY <1>3, PathParts
<1>5. Path = o \o im
  BY <1>2, <1>3, <1>4, PathParts
<1>6. CASE Stays
  <2>1. Path' = Path
    BY <1>1, <1>6, PathParts DEF Stays
  <2>2. QED
    BY <2>1
<1>7. CASE Arrives
  <2>1. PICK d \in Data : Outside' = o /\ Inside' = Append(i, d)
    BY <1>2, <1>3, <1>7 DEF Arrives
  <2>2. PICK e \in Seq(Results) : e = Emitted(d)
    BY EmittedTyped
  <2>3. Path' = o \o (im \o e)
    BY <1>1, <1>4, <2>1, <2>2, ImagesAppend
  <2>4. o \o (im \o e) = (o \o im) \o e /\ o \o im \in Seq(Results)
    <3>1. (o \o im) \o e = o \o (im \o e)
      BY ConcatAssociative
    <3>2. o \o im \in Seq(Results)
      BY ConcatProperties
    <3>3. QED
      BY <3>1, <3>2
  <2>5. CASE Image[d] = Dropped
    <3>1. e = << >>
      BY <2>2, <2>5 DEF Emitted
    <3>2. (o \o im) \o << >> = o \o im
      BY <2>4, ConcatEmptySeq
    <3>3. Path' = Path
      BY <1>5, <2>3, <2>4, <3>1, <3>2
    <3>4. QED
      BY <3>3
  <2>6. CASE Image[d] # Dropped
    <3>1. e = <<Image[d]>> /\ Image[d] \in Results
      BY <2>2, <2>6, EmittedTyped
    <3>2. Append(o \o im, Image[d]) = (o \o im) \o <<Image[d]>>
      BY <2>4, <3>1, AppendIsConcat
    <3>3. Path' = Append(Path, Image[d])
      BY <1>5, <2>3, <2>4, <3>1, <3>2
    <3>4. EP!Push(d)
      BY <2>6, <3>3 DEF EP!Push
    <3>5. QED
      BY <3>4 DEF EP!Next
  <2>7. QED
    BY <2>5, <2>6
<1>8. CASE Leaves
  <2>1. o # << >> /\ Outside' = Tail(o) /\ Inside' = i
    BY <1>2, <1>3, <1>8 DEF Leaves
  <2>2. Path' = Tail(o) \o im
    BY <1>1, <1>4, <2>1
  <2>3. o \o im # << >> /\ Tail(o \o im) = Tail(o) \o im
    BY <2>1, HeadOfConcat
  <2>4. EP!Pop
    BY <1>5, <2>2, <2>3 DEF EP!Pop
  <2>5. QED
    BY <2>4 DEF EP!Next
<1>9. CASE Handled
  <2>1. i # << >> /\ Inside' = Tail(i) /\ Outside' = o \o Emitted(Head(i))
    BY <1>2, <1>3, <1>9 DEF Handled
  <2>2. Head(i) \in Data /\ Tail(i) \in Seq(Data)
    BY <2>1, HeadTailProperties
  <2>3. PICK e \in Seq(Results) : e = Emitted(Head(i))
    BY <2>2, EmittedTyped
  <2>4. PICK it \in Seq(Results) : it = Images[Tail(i)]
    BY <2>2, ImagesEquation
  <2>5. im = e \o it
    BY <1>4, <2>1, <2>3, <2>4, ImagesEquation
  <2>6. Path' = (o \o e) \o it
    BY <1>1, <2>1, <2>3, <2>4
  <2>7. (o \o e) \o it = o \o (e \o it)
    BY ConcatAssociative
  <2>8. Path' = Path
    BY <1>5, <2>5, <2>6, <2>7
  <2>9. QED
    BY <2>8
<1>10. QED
  BY <1>6, <1>7, <1>8, <1>9

\* A cut without a batch in hand loses nothing.
LEMMA EmptyCut ==
    ASSUME IInv, OutputRing, Cut, v = << >>
    PROVE  Path' = Path
<1>1. << >> \o Inside' = Inside'
  BY ConcatEmptySeq DEF Cut
<1>2. Inside' = Inside /\ Outside' = Outside
  BY <1>1 DEF Cut
<1>3. Path' = Outside' \o Images[Inside']
  BY DEF Path, Outside, Inside, DemuxPosts, MmuPosts, DemuxReturns, MmuReturns
<1>4. QED
  BY <1>2, <1>3, PathParts

\* A cut loses the images of the batch in hand, which stand in a row.
LEMMA CutLoses ==
    ASSUME IInv, OutputRing, Cut
    PROVE  EP!Lose \/ Path' = Path
<1>1. Path' = Outside' \o Images[Inside']
  BY DEF Path, Outside, Inside, DemuxPosts, MmuPosts, DemuxReturns, MmuReturns
<1>2. PICK o \in Seq(Results) : o = Outside
  BY PathParts
<1>3. PICK i \in Seq(Data) : i = Inside'
  BY DEF Cut
<1>4. PICK ir \in Seq(Results) : ir = Images[i]
  BY ImagesEquation
<1>5. PICK h \in Seq(Data) : h = v
  BY DEF IInv, Control, CpuType
<1>6. PICK ih \in Seq(Results) : ih = Images[h]
  BY ImagesEquation
<1>7. Path' = o \o ir
  BY <1>1, <1>2, <1>3, <1>4 DEF Cut
<1>8. Path = o \o (ih \o ir)
  <2>1. Inside = h \o i
    BY <1>3, <1>5 DEF Cut
  <2>2. Images[h \o i] = ih \o ir
    BY <1>4, <1>6, ImagesOfBoth
  <2>3. QED
    BY <1>2, <2>1, <2>2, PathParts
<1>9. Len(ih) <= BATCH /\ Len(ih) \in Nat /\ BATCH \in Nat
  <2>1. Len(h) <= BATCH /\ Len(h) \in Nat
    BY <1>5, HeldAt, BatchAssumption DEF IInv
  <2>2. Len(ih) <= Len(h) /\ Len(ih) \in Nat
    BY <1>6, ImagesLength, LenProperties
  <2>3. QED
    BY <2>1, <2>2, BatchAssumption
<1>10. CASE ih = << >>
  <2>1. << >> \o ir = ir
    BY ConcatEmptySeq
  <2>2. QED
    BY <1>7, <1>8, <1>10, <2>1
<1>11. CASE ih # << >>
  <2> DEFINE all == o \o (ih \o ir)
  <2>1. /\ Len(all) = Len(o) + Len(ih) + Len(ir)
        /\ SubSeq(all, 1, Len(o)) = o
        /\ SubSeq(all, Len(o) + Len(ih) + 1, Len(all)) = ir
    BY CutOut
  <2> HIDE DEF all
  <2>2. PICK a \in Nat : a = Len(o)
    BY LenProperties
  <2>3. PICK b \in Nat \ {0} : b = Len(ih) /\ b <= BATCH
    BY <1>9, <1>11, EmptySeq
  <2>4. PICK c \in Nat : c = Len(ir)
    BY LenProperties
  <2>5. PICK n \in Nat : n = Len(all) /\ n = a + b + c
    BY <2>1, <2>2, <2>3, <2>4
  <2> DEFINE first == a + 1
             last == a + b
  <2>6. /\ first \in 1 .. n /\ last \in first .. n /\ last - first < BATCH
        /\ first - 1 = a /\ last + 1 = a + b + 1
    BY <1>9, <2>3, <2>5
  <2>7. SubSeq(all, 1, first - 1) = o /\ SubSeq(all, last + 1, n) = ir
    <3>1. SubSeq(all, 1, a) = o /\ SubSeq(all, a + b + 1, n) = ir
      BY <2>1, <2>2, <2>3, <2>5
    <3>2. QED
      BY <2>6, <3>1
  <2>8. Path = all /\ Path' = SubSeq(all, 1, first - 1) \o SubSeq(all, last + 1, n)
    BY <1>7, <1>8, <2>7 DEF all
  <2> HIDE DEF first, last
  <2>9. EP!Lose
    BY <2>5, <2>6, <2>8 DEF EP!Lose
  <2>10. QED
    BY <2>9
<1>12. QED
  BY <1>10, <1>11

\* A chip that has not started holds nothing.
LEMMA PathEmpty == Init => Path = << >>
<1> SUFFICES ASSUME Init PROVE Path = << >>
  OBVIOUS
<1>1. IInv /\ OutputRing
  BY InitInv, OutputRingInit
<1>2. fi_count = 0 /\ fo_count = 0 /\ v = << >> /\ mmu_st = "idle" /\ dmx_st = "idle"
  BY DEF Init, FI!Init, FO!FifoOutInit, CPU!Init
<1>3. FI!Contents = << >>
  <2>1. Len(FI!Contents) = 0 /\ FI!Contents \in Seq(Data)
    BY <1>1, <1>2, InputOrdered, InputWindow, InputRegisters, WindowSeq DEF IInv
  <2>2. QED
    BY <2>1, EmptySeq
<1>4. FO!Contents = << >>
  <2>1. Len(FO!Contents) = 0 /\ FO!Contents \in Seq(Results)
    BY <1>1, <1>2, OutputWindow, OutputRegisters, WindowSeq DEF IInv
  <2>2. QED
    BY <2>1, EmptySeq
<1>5. /\ DemuxPosts = << >> /\ MmuPosts = << >>
      /\ DemuxReturns = << >> /\ MmuReturns = << >>
  BY <1>2 DEF DemuxPosts, MmuPosts, DemuxReturns, MmuReturns, Posted, Returning
<1>6. << >> \o << >> = << >>
  BY EmptySeq, ConcatEmptySeq
<1>7. Outside = << >> /\ Inside = << >>
  BY <1>2, <1>3, <1>4, <1>5, <1>6 DEF Outside, Inside
<1>8. QED
  BY <1>1, <1>6, <1>7, PathParts, ImagesEquation

(***************************************************************************)
(* Whatever the resets, the chip is a queue that never reorders,           *)
(* duplicates or invents a result, and that loses results only in the step *)
(* in which the CPU receives a reset, one run of at most BATCH.            *)
(***************************************************************************)
THEOREM LossyPathImplemented == WarmSpec => ImplementsLossyPath
<1>1. Init => IInv /\ OutputRing /\ EP!Init
  BY InitInv, OutputRingInit, PathEmpty DEF EP!Init
<1>2. (IInv /\ OutputRing) /\ [Step]_vars => (IInv /\ OutputRing)'
  BY QueueStep
<1>3. (IInv /\ OutputRing) /\ [Step]_vars
          => [EP!Next \/ (EP!Lose /\ cst' = "relay")]_Path
  <2> SUFFICES ASSUME IInv, OutputRing, [Step]_vars
               PROVE  [EP!Next \/ (EP!Lose /\ cst' = "relay")]_Path
    OBVIOUS
  <2>1. CASE Cut
    BY <2>1, CutLoses DEF Cut
  <2>2. CASE ~Cut
    BY <2>2, PathMoves, PathKept
  <2>3. QED
    BY <2>1, <2>2
<1>4. QED
  BY <1>1, <1>2, <1>3, PTL DEF WarmSpec, Step, ImplementsLossyPath

(***************************************************************************)
(* With resets as the server does them the chip is a queue, and loses      *)
(* nothing at all: no reset finds a batch in hand.                         *)
(***************************************************************************)
THEOREM PathImplemented == DrainedSpec => ImplementsEventPath
<1>1. Init => IInv /\ DrainedInv /\ OutputRing /\ EP!Init
  BY InitInv, DrainedInit, OutputRingInit, PathEmpty DEF EP!Init
<1>2. (IInv /\ DrainedInv /\ OutputRing) /\ [DrainedNext]_vars
          => (IInv /\ DrainedInv /\ OutputRing)'
  BY DrainedIsWarm, DrainedStep, QueueStep
<1>3. (IInv /\ DrainedInv /\ OutputRing) /\ [DrainedNext]_vars => [EP!Next]_Path
  <2> SUFFICES ASSUME IInv, DrainedInv, OutputRing, [DrainedNext]_vars
               PROVE  [EP!Next]_Path
    OBVIOUS
  <2>1. [Step]_vars
    BY DrainedIsWarm
  <2>2. CASE Cut
    <3>1. cst \in {"cold", "wfi"}
      BY <2>2 DEF Cut, TakesReset, Reset, DrainedInv, ResetQuiet
    <3>2. v \in Seq(Data) /\ Len(v) = 0
      BY <3>1, HeldAt, Regions DEF IInv, Control, CpuType, PcFollows, Loads, Emits
    <3>3. v = << >>
      BY <3>2, EmptySeq
    <3>4. Path' = Path
      BY <2>2, <3>3, EmptyCut
    <3>5. QED
      BY <3>4
  <2>3. CASE ~Cut
    BY <2>1, <2>3, PathMoves, PathKept
  <2>4. QED
    BY <2>2, <2>3
<1>4. QED
  BY <1>1, <1>2, <1>3, PTL DEF DrainedSpec, ImplementsEventPath, EP!Spec

(***************************************************************************)
(* Nor does the chip that boots once.                                      *)
(***************************************************************************)
THEOREM ColdPathImplemented == Spec => ImplementsEventPath
<1>1. Init => IInv /\ OutputRing /\ EP!Init
  BY InitInv, OutputRingInit, PathEmpty DEF EP!Init
<1>2. (IInv /\ OutputRing) /\ [Next]_vars => (IInv /\ OutputRing)'
  BY ColdIsWarm, QueueStep
<1>3. (IInv /\ OutputRing) /\ [Next]_vars => [EP!Next]_Path
  <2> SUFFICES ASSUME IInv, OutputRing, [Next]_vars
               PROVE  [EP!Next]_Path
    OBVIOUS
  <2>1. [Step]_vars
    BY ColdIsWarm
  <2>2. CASE ColdBoot
    <3>1. Cut
      BY <2>2, ResetCuts DEF ColdBoot, TakesReset
    <3>2. cst = "cold"
      BY <2>2 DEF ColdBoot, Reset, CPU!TakeReset
    <3>3. v \in Seq(Data) /\ Len(v) = 0
      BY <3>2, HeldAt, Regions DEF IInv, Control, CpuType, PcFollows, Loads, Emits
    <3>4. v = << >>
      BY <3>3, EmptySeq
    <3>5. Path' = Path
      BY <3>1, <3>4, EmptyCut
    <3>6. QED
      BY <3>5
  <2>3. CASE ~ColdBoot
    <3>1. ~Cut
      <4>1. cst' = "relay" /\ cst # "relay" => ColdBoot
        <5>1. CASE Relay \/ Wake \/ FifoEvent \/ PowerOn \/ UNCHANGED vars
          BY <5>1 DEF Relay, CPU!Relayed, Wake, CPU!Wake, FifoEvent, PowerOn,
                      AssertReset, vars, cpu
        <5>2. CASE CpuStep
          BY <5>2 DEF CpuStep, Probe, CPU!Proceed, Execute, CPU!ExecLocal,
                      CPU!ExecSkip, CPU!Filtered, CPU!ExecWfi, Access, CPU!ExecStore,
                      CPU!ExecEmit, CPU!ExecLoad, CPU!At, CPU!Step, LoadReply,
                      CPU!Loaded
        <5>3. CASE BusStep \/ Ports
          BY <5>3 DEF BusStep, WriteIntCtrl, ToDemux, ToFifoIn, ToFifoOut, DemuxReply,
                      Ports, Push, Pop, cpu
        <5>4. QED
          BY <5>1, <5>2, <5>3 DEF Next, Chip
      <4>2. QED
        BY <2>3, <4>1 DEF Cut, TakesReset, Reset, CPU!TakeReset
    <3>2. QED
      BY <2>1, <3>1, PathMoves, PathKept
  <2>4. QED
    BY <2>2, <2>3
<1>4. QED
  BY <1>1, <1>2, <1>3, PTL DEF Spec, ImplementsEventPath, EP!Spec
=============================================================================
