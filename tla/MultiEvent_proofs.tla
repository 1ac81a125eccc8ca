-------------------------- MODULE MultiEvent_proofs --------------------------
(***************************************************************************)
(* The chip running the multi-event program implements TaggedPath, for     *)
(* every number of lines, every capacity and every set of words.           *)
(***************************************************************************)
EXTENDS MultiEvent, Soc_proofs, FiniteSetTheorems

(***************************************************************************)
(* Every request the program can have in flight.                           *)
(***************************************************************************)
TriggerReq   == [op |-> "W", base |-> 5, off |-> 0, val |-> Unreachable]
VectorReq(n) == [op |-> "W", base |-> 1, off |-> 4 * n, val |-> Isr(n)]
EnableReq    == [op |-> "W", base |-> 1, off |-> 4 * NVectors, val |-> 2^N_EVENTS - 1]
LoadReq      == [op |-> "R", base |-> 5, off |-> 0, val |-> 0]
ResultReq(r) == [op |-> "W", base |-> 6, off |-> 0, val |-> r]

VectorReqs == {VectorReq(n) : n \in Lines}
ResultReqs == {ResultReq(r) : r \in Results}

OuterStores == {TriggerReq} \cup ResultReqs
Stores      == {EnableReq} \cup VectorReqs \cup OuterStores

(***************************************************************************)
(* The routers carry stores, or the one load the CPU waits for.            *)
(***************************************************************************)
CoreStoring  == mmu_st = "idle" \/ (mmu_st = "route" /\ mmu_req \in Stores)
OuterStoring == dmx_st = "idle" \/ (dmx_st = "route" /\ dmx_req \in OuterStores)

LoadEntering == mmu_st = "route" /\ mmu_req = LoadReq /\ OuterStoring

LoadOutside == /\ mmu_st = "await" /\ mmu_req = LoadReq
               /\ dmx_req = LoadReq
               /\ dmx_st = "route" \/ (dmx_st = "reply" /\ dmx_rdata \in Data)

LoadBack == /\ mmu_st = "reply" /\ mmu_req = LoadReq /\ mmu_rdata \in Data
            /\ dmx_st = "idle"

Traffic == IF cst = "load" THEN LoadEntering \/ LoadOutside \/ LoadBack
                           ELSE CoreStoring /\ OuterStoring

(***************************************************************************)
(* Where the CPU is: a handler holds its word between load and store.      *)
(***************************************************************************)
CpuType == /\ pc \in Addresses
           /\ cst \in {"cold", "relay", "top", "fetch", "load", "wfi"}
           /\ v \in Seq(Data)

PcFollows == /\ cst \in {"cold", "relay"} => pc = ADDR_RESET
             /\ cst = "wfi" => pc = Idle
             /\ cst = "load" => pc \in Loads

Carried == Len(v) = IF pc \in Emits THEN 1 ELSE 0

Control == CpuType /\ PcFollows /\ Carried

(***************************************************************************)
(* Each vector is installed once its store is past, and no line is enabled *)
(* before all of them are.                                                 *)
(***************************************************************************)
IntcType == /\ vectors \in [IC!Vectors -> Nat]
            /\ holding \in Lines \cup {NoLine}

VectorPosted(n) == pc = Vector(n) + 1 /\ mmu_st = "route" /\ mmu_req = VectorReq(n)

VectorsSet == \A n \in Lines :
                pc \in Vector(n) + 1 .. LastPc => vectors[n] = Isr(n) \/ VectorPosted(n)

Ready == pc \in Idle .. LastPc

EnabledLate == \/ enable_mask # 0
               \/ holding # NoLine
               \/ mmu_st = "route" /\ mmu_req = EnableReq
               => Ready

(***************************************************************************)
(* The input FIFO never reaches its level, and every claimed word is       *)
(* there.                                                                  *)
(***************************************************************************)
NeverFull == /\ InputOrder
             /\ armed = TRUE /\ fi_st = "select"
             /\ configured => trigger_level = Unreachable
             /\ ~configured => fi_count = 0

Covered == Claims <= fi_count

IInv == /\ Control /\ Traffic
        /\ IntcType /\ VectorsSet /\ EnabledLate
        /\ NeverFull /\ Covered
        /\ OutputFifo /\ OutputRing


-----------------------------------------------------------------------------
(***************************************************************************)
(* The program.                                                            *)
(***************************************************************************)
\* Its addresses: the handlers follow the idle loop, two words each.
LEMMA Regions ==
    /\ N_EVENTS \in Nat \ {0} /\ Lines = 0 .. N_EVENTS - 1
    /\ Addresses = 0 .. LastPc \cup {ADDR_RESET}
    /\ ADDR_RESET \in Nat /\ ADDR_RESET \notin 0 .. LastPc
    /\ Enable = 2 + N_EVENTS /\ Idle = 3 + N_EVENTS /\ LastPc = 3 + 3 * N_EVENTS
    /\ \A n \in Nat : Vector(n) = 2 + n /\ Isr(n) = 4 + N_EVENTS + 2 * n
    /\ Trigger = 1
<1>1. /\ Enable = 2 + N_EVENTS /\ Idle = 3 + N_EVENTS /\ LastPc = 3 + 3 * N_EVENTS
      /\ \A n \in Nat : Vector(n) = 2 + n /\ Isr(n) = 4 + N_EVENTS + 2 * n
      /\ Trigger = 1
  BY LinesAreAll DEF Enable, Idle, LastPc, Vector, Isr, Trigger
<1>2. Addresses = 0 .. LastPc \cup {ADDR_RESET}
  BY CodeAssumption, Zenon DEF Addresses, MultiCode
<1>3. QED
  BY <1>1, <1>2, LinesAreAll, CodeAssumption

\* The order of the parts.
LEMMA Layout ==
    /\ Enable \in Nat /\ Idle \in Nat /\ LastPc \in Nat /\ ADDR_RESET \in Nat
    /\ Trigger = 1 /\ Enable > 2 /\ Idle = Enable + 1 /\ Idle < LastPc
    /\ ADDR_RESET \notin 0 .. LastPc
    /\ \A a \in 0 .. LastPc : a \in Addresses
BY Regions

\* What each line's addresses are.
LEMMA AddressOf ==
    ASSUME NEW n \in Lines
    PROVE  /\ n \in Nat /\ n <= N_EVENTS - 1 /\ N_EVENTS \in Nat
           /\ Isr(n) = 4 + N_EVENTS + 2 * n /\ Isr(0) = 4 + N_EVENTS
           /\ Vector(n) = 2 + n
<1>1. n \in Nat /\ n <= N_EVENTS - 1 /\ N_EVENTS \in Nat
  BY LinesAreAll
<1>2. Isr(n) = 4 + N_EVENTS + 2 * n /\ Isr(0) = 4 + N_EVENTS
  BY <1>1 DEF Isr, Idle, Enable
<1>3. QED
  BY <1>1, <1>2 DEF Vector

\* Two addresses make a handler.
LEMMA Halves ==
    /\ \A n \in Nat : (2 * n) \div 2 = n /\ (2 * n + 1) \div 2 = n
    /\ \A k \in Nat : k \div 2 \in Nat
    /\ \A k \in Nat : k = 2 * (k \div 2) \/ k = 2 * (k \div 2) + 1
<1>1. \A n \in Nat : (2 * n) \div 2 = n
  OBVIOUS
<1>2. \A n \in Nat : (2 * n + 1) \div 2 = n
  OBVIOUS
<1>3. \A k \in Nat : k \div 2 \in Nat
  OBVIOUS
<1>4. \A k \in Nat : k = 2 * (k \div 2) \/ k = 2 * (k \div 2) + 1
  OBVIOUS
<1>5. QED
  BY <1>1, <1>2, <1>3, <1>4, Zenon

\* The line a handler's address belongs to.
LEMMA LineOfHandler ==
    ASSUME NEW n \in Lines
    PROVE  /\ LineOf(Isr(n)) = n /\ LineOf(Isr(n) + 1) = n
           /\ Isr(n) \in Idle + 1 .. LastPc - 1 /\ Isr(n) \in Loads
           /\ Isr(n) + 1 \in Idle + 2 .. LastPc /\ Isr(n) + 1 \in Emits
<1>1. /\ n \in Nat /\ n <= N_EVENTS - 1 /\ N_EVENTS \in Nat
      /\ Isr(n) = 4 + N_EVENTS + 2 * n /\ Isr(0) = 4 + N_EVENTS
  BY AddressOf
<1>2. Isr(n) - Isr(0) = 2 * n /\ (Isr(n) + 1) - Isr(0) = 2 * n + 1
  BY <1>1
<1>3. (2 * n) \div 2 = n /\ (2 * n + 1) \div 2 = n
  BY <1>1, Halves, Zenon
<1>4. LineOf(Isr(n)) = n /\ LineOf(Isr(n) + 1) = n
  <2>1. \A k : (k = 2 * n => k \div 2 = n) /\ (k = 2 * n + 1 => k \div 2 = n)
    BY <1>3, Zenon
  <2>2. (Isr(n) - Isr(0)) \div 2 = n /\ ((Isr(n) + 1) - Isr(0)) \div 2 = n
    BY <1>2, <2>1, Zenon
  <2>3. QED
    BY <2>2 DEF LineOf
<1>5. Idle = 3 + N_EVENTS /\ LastPc = 3 + 3 * N_EVENTS
  BY Regions
<1>6. Isr(n) \in Idle + 1 .. LastPc - 1 /\ Isr(n) + 1 \in Idle + 2 .. LastPc
  BY <1>1, <1>5
<1>7. Isr(n) \in Loads /\ Isr(n) + 1 \in Emits
  BY Zenon DEF Loads, Emits
<1>8. QED
  BY <1>4, <1>6, <1>7

\* No two parts of the program share an address.
LEMMA Apart ==
    /\ \A a \in Loads : a \in Idle + 1 .. LastPc /\ a + 1 \in Emits
    /\ \A a \in Emits : a \in Idle + 1 .. LastPc /\ a \notin Loads
    /\ \A a \in Addresses : \/ a = ADDR_RESET \/ a = 0 \/ a = Trigger \/ a = Enable
                            \/ a = Idle \/ a \in Loads \cup Emits
                            \/ \E n \in Lines : a = Vector(n)
<1>1. ASSUME NEW a \in Loads
      PROVE  a \in Idle + 1 .. LastPc /\ a + 1 \in Emits
  <2>1. PICK n \in Lines : a = Isr(n)
    BY DEF Loads
  <2>2. Isr(n) \in Idle + 1 .. LastPc - 1 /\ Isr(n) + 1 \in Emits
    BY LineOfHandler
  <2>3. QED
    BY <2>1, <2>2, Layout
<1>2. ASSUME NEW a \in Emits
      PROVE  a \in Idle + 1 .. LastPc /\ a \notin Loads
  <2>1. PICK n \in Lines : a = Isr(n) + 1
    BY DEF Emits
  <2>2. a \in Idle + 1 .. LastPc
    <3>1. Isr(n) + 1 \in Idle + 2 .. LastPc
      BY LineOfHandler
    <3>2. QED
      BY <2>1, <3>1, Layout
  <2>3. ASSUME NEW m \in Lines
        PROVE  a # Isr(m)
    <3>1. /\ n \in Nat /\ m \in Nat /\ N_EVENTS \in Nat
          /\ Isr(n) = 4 + N_EVENTS + 2 * n /\ Isr(m) = 4 + N_EVENTS + 2 * m
      BY AddressOf
    <3>2. Isr(n) + 1 # Isr(m)
      BY <3>1
    <3>3. QED
      BY <2>1, <3>2
  <2>4. QED
    BY <2>2, <2>3 DEF Loads
<1>3. ASSUME NEW a \in Addresses
      PROVE  \/ a = ADDR_RESET \/ a = 0 \/ a = Trigger \/ a = Enable
             \/ a = Idle \/ a \in Loads \cup Emits
             \/ \E n \in Lines : a = Vector(n)
  <2>1. CASE a \in Idle + 1 .. LastPc
    <3>1. /\ N_EVENTS \in Nat /\ Idle = 3 + N_EVENTS /\ LastPc = 3 + 3 * N_EVENTS
      BY Regions
    <3> DEFINE k == a - (4 + N_EVENTS)
               n == k \div 2
    <3>2. k \in 0 .. 2 * N_EVENTS - 1 /\ a = 4 + N_EVENTS + k
      BY <2>1, <3>1
    <3>3. n \in Nat /\ (k = 2 * n \/ k = 2 * n + 1)
      BY <3>2, Halves
    <3> HIDE DEF n, k
    <3>4. n \in 0 .. N_EVENTS - 1
      BY <3>1, <3>2, <3>3
    <3>5. n \in Lines
      BY <3>4, Regions
    <3>6. Isr(n) = 4 + N_EVENTS + 2 * n
      BY <3>5, AddressOf
    <3>7. a = Isr(n) \/ a = Isr(n) + 1
      BY <3>1, <3>2, <3>3, <3>6
    <3>8. QED
      BY <3>5, <3>7, LineOfHandler
  <2>2. CASE a \in 2 .. N_EVENTS + 1
    <3>1. a - 2 \in Lines /\ Vector(a - 2) = a
      BY <2>2, Regions
    <3>2. QED
      BY <3>1
  <2>3. CASE a \notin Idle + 1 .. LastPc /\ a \notin 2 .. N_EVENTS + 1
    BY <2>3, Regions
  <2>4. QED
    BY <2>1, <2>2, <2>3
<1>4. QED
  BY <1>1, <1>2, <1>3

\* The stores of the vectors lie between the other two.
LEMMA VectorAddress ==
    ASSUME NEW n \in Lines
    PROVE  /\ Vector(n) \in Vector(0) .. Vector(N_EVENTS - 1) /\ Vector(n) - Vector(0) = n
           /\ Vector(n) # Trigger /\ Vector(n) # Enable
           /\ Vector(n) \in 2 .. Enable - 1 /\ Vector(n) + 1 \in 3 .. Enable
<1>1. n \in Nat /\ n <= N_EVENTS - 1 /\ N_EVENTS \in Nat
  BY AddressOf
<1>2. Enable = 2 + N_EVENTS /\ Trigger = 1
  BY Regions
<1>3. QED
  BY <1>1, <1>2 DEF Vector

\* Which alternative of the program an address falls under.
LEMMA Alternatives ==
    ASSUME NEW a \in Addresses
    PROVE  /\ a = ADDR_RESET => /\ a # 0 /\ a # Trigger /\ a # Enable /\ a # Idle
                                /\ a \notin Vector(0) .. Vector(N_EVENTS - 1)
                                /\ a \notin Loads /\ a \notin Emits
           /\ a = 0 => /\ a # Trigger /\ a # Enable /\ a # Idle
                       /\ a \notin Vector(0) .. Vector(N_EVENTS - 1)
                       /\ a \notin Loads /\ a \notin Emits
           /\ a = Trigger => /\ a # Enable /\ a # Idle
                             /\ a \notin Vector(0) .. Vector(N_EVENTS - 1)
                             /\ a \notin Loads /\ a \notin Emits
           /\ a \in Vector(0) .. Vector(N_EVENTS - 1) =>
                 a # Enable /\ a # Idle /\ a \notin Loads /\ a \notin Emits
           /\ a = Enable => a # Idle /\ a \notin Loads /\ a \notin Emits
           /\ a = Idle => a \notin Loads /\ a \notin Emits
           /\ a \in Loads => a \notin Emits
<1>1. /\ a \in Loads => a \in Idle + 1 .. LastPc /\ a \notin Emits
      /\ a \in Emits => a \in Idle + 1 .. LastPc
  BY Apart
<1>2. /\ N_EVENTS \in Nat \ {0} /\ Idle = 3 + N_EVENTS /\ Enable = 2 + N_EVENTS
      /\ LastPc = 3 + 3 * N_EVENTS /\ Trigger = 1
      /\ ADDR_RESET \notin 0 .. LastPc
  BY Regions
<1> DEFINE R == Vector(0) .. Vector(N_EVENTS - 1)
<1>3. R = 2 .. 1 + N_EVENTS
  BY <1>2 DEF Vector
<1>4. a = ADDR_RESET => a \notin 0 .. LastPc
  BY <1>2
<1> HIDE DEF R
<1>5. /\ a \in 0 .. LastPc =>
           /\ a # ADDR_RESET
           /\ a = 0 => a # Trigger /\ a # Enable /\ a # Idle /\ a \notin R
           /\ a = Trigger => a # Enable /\ a # Idle /\ a \notin R
           /\ a \in R => a # Enable /\ a # Idle
           /\ a = Enable => a # Idle
      /\ a \in Idle + 1 .. LastPc =>
           a # 0 /\ a # Trigger /\ a # Enable /\ a # Idle /\ a \notin R
      /\ a \notin 0 .. LastPc =>
           /\ a # 0 /\ a # Trigger /\ a # Enable /\ a # Idle /\ a \notin R
           /\ a \notin Idle + 1 .. LastPc
  BY <1>2, <1>3
<1>6. QED
  BY <1>1, <1>4, <1>5, Zenon DEF R

\* The instruction at each address.
LEMMA CodeAt ==
    ASSUME NEW a \in Addresses
    PROVE  /\ a = ADDR_RESET => Code[a] = [Instr("local", 0, 0, 0, 0) EXCEPT !.rom = TRUE]
           /\ a = 0 => Code[a] = Instr("local", 0, 0, 0, Trigger)
           /\ a = Trigger => Code[a] = Instr("store", 5, 0, Unreachable, Vector(0))
           /\ a \in Vector(0) .. Vector(N_EVENTS - 1) =>
                Code[a] = Instr("store", 1, 4 * (a - Vector(0)), Isr(a - Vector(0)), a + 1)
           /\ a = Enable => Code[a] = Instr("store", 1, 4 * NVectors, 2^N_EVENTS - 1, Idle)
           /\ a = Idle => Code[a] = Instr("wfi", 0, 0, 0, Idle)
           /\ a \in Loads => Code[a] = Instr("load", 5, 0, 0, a + 1)
           /\ a \in Emits => Code[a] = [Instr("emit", 6, 0, 0, Idle)
                                          EXCEPT !.image = Image(LineOf(a))]
<1>1. Code[a] =
       CASE a = ADDR_RESET -> [Instr("local", ADDR_MEM, 0, 0, 0) EXCEPT !.rom = TRUE]
         [] a = 0          -> Instr("local", ADDR_MEM, 0, 0, Trigger)
         [] a = Trigger    -> Instr("store", ADDR_FIFO_IN, 0, TriggerLevel, Vector(0))
         [] a \in Vector(0) .. Vector(N_EVENTS - 1)
                           -> Instr("store", ADDR_INT_CTRL, 4 * (a - Vector(0)),
                                    Isr(a - Vector(0)), a + 1)
         [] a = Enable     -> Instr("store", ADDR_INT_CTRL, 4 * NVectors,
                                    2^N_EVENTS - 1, Idle)
         [] a = Idle       -> Instr("wfi", ADDR_MEM, 0, 0, Idle)
         [] a \in Loads    -> Instr("load", ADDR_FIFO_IN, 0, 0, a + 1)
         [] a \in Emits    -> [Instr("emit", ADDR_FIFO_OUT, 0, 0, Idle)
                                 EXCEPT !.image = Image(LineOf(a))]
  BY CodeAssumption, Zenon DEF MultiCode, Addresses
<1>2. QED
  BY <1>1, Alternatives, Zenon
     DEF ADDR_MEM, ADDR_INT_CTRL, ADDR_FIFO_IN, ADDR_FIFO_OUT, TriggerLevel

\* The instructions that stay in the core.
LEMMA LocalAt ==
    ASSUME NEW a \in Addresses
    PROVE  /\ a = ADDR_RESET => Code[a].op = "local" /\ Code[a].next = 0
           /\ a = 0 => Code[a].op = "local" /\ Code[a].next = 1
           /\ a = Idle => Code[a].op = "wfi"
<1>1. CASE a = ADDR_RESET
  <2>1. Code[a] = [Instr("local", 0, 0, 0, 0) EXCEPT !.rom = TRUE]
    BY <1>1, CodeAt
  <2>2. Code[a].op = "local" /\ Code[a].next = 0
    BY <2>1 DEF Instr
  <2>3. QED
    BY <1>1, <2>2, Alternatives
<1>2. CASE a = 0
  <2>1. Code[a] = Instr("local", 0, 0, 0, Trigger)
    BY <1>2, CodeAt
  <2>2. Code[a].op = "local" /\ Code[a].next = 1
    BY <2>1, Regions DEF Instr
  <2>3. QED
    BY <1>2, <2>2, Alternatives
<1>3. CASE a = Idle
  <2>1. Code[a] = Instr("wfi", 0, 0, 0, Idle)
    BY <1>3, CodeAt
  <2>2. Code[a].op = "wfi"
    BY <2>1 DEF Instr
  <2>3. QED
    BY <1>3, <2>2, Alternatives
<1>4. QED
  BY <1>1, <1>2, <1>3

\* What the program stores, and where it goes on.
LEMMA StoreAt ==
    ASSUME NEW a \in Addresses
    PROVE  /\ a = Trigger => /\ Code[a].op = "store" /\ Code[a].next = a + 1
                             /\ Code[a].base = 5 /\ Code[a].off = 0
                             /\ Code[a].val = Unreachable
           /\ \A n \in Lines : a = Vector(n) =>
                             /\ Code[a].op = "store" /\ Code[a].next = a + 1
                             /\ Code[a].base = 1 /\ Code[a].off = 4 * n
                             /\ Code[a].val = Isr(n)
           /\ a = Enable =>  /\ Code[a].op = "store" /\ Code[a].next = a + 1
                             /\ Code[a].base = 1 /\ Code[a].off = 4 * NVectors
                             /\ Code[a].val = 2^N_EVENTS - 1
<1>1. CASE a = Trigger
  <2>1. Code[a] = Instr("store", 5, 0, Unreachable, Vector(0))
    BY <1>1, CodeAt
  <2>2. Vector(0) = a + 1
    BY <1>1, Regions
  <2>3. /\ Code[a].op = "store" /\ Code[a].next = Vector(0)
        /\ Code[a].base = 5 /\ Code[a].off = 0 /\ Code[a].val = Unreachable
    BY <2>1 DEF Instr
  <2>4. a # Enable /\ \A n \in Lines : a # Vector(n)
    BY <1>1, Alternatives, VectorAddress, Zenon
  <2>5. QED
    BY <2>2, <2>3, <2>4
<1>2. ASSUME NEW n \in Lines, a = Vector(n)
      PROVE  /\ Code[a].op = "store" /\ Code[a].next = a + 1
             /\ Code[a].base = 1 /\ Code[a].off = 4 * n
             /\ Code[a].val = Isr(n)
  <2>1. a \in Vector(0) .. Vector(N_EVENTS - 1) /\ a - Vector(0) = n
    BY <1>2, VectorAddress
  <2>2. Code[a] = Instr("store", 1, 4 * n, Isr(n), a + 1)
    BY <2>1, CodeAt
  <2> DEFINE next == a + 1
             off == 4 * n
             val == Isr(n)
  <2> HIDE DEF next, off, val
  <2>3. Code[a] = Instr("store", 1, off, val, next)
    BY <2>2 DEF next, off, val
  <2>4. /\ Code[a].op = "store" /\ Code[a].next = next
        /\ Code[a].base = 1 /\ Code[a].off = off /\ Code[a].val = val
    BY <2>3 DEF Instr
  <2>5. QED
    BY <2>4 DEF next, off, val
<1>3. CASE a = Enable
  <2> DEFINE val == 2^N_EVENTS - 1
             off == 4 * NVectors
  <2>1. Code[a] = Instr("store", 1, off, val, Idle)
    BY <1>3, CodeAt
  <2>2. Idle = a + 1
    BY <1>3, Regions
  <2> HIDE DEF off, val
  <2>3. /\ Code[a].op = "store" /\ Code[a].next = Idle
        /\ Code[a].base = 1 /\ Code[a].off = off /\ Code[a].val = val
    BY <2>1 DEF Instr
  <2>4. a # Trigger /\ \A n \in Lines : a # Vector(n)
    BY <1>3, Alternatives, VectorAddress, Zenon
  <2>5. QED
    BY <2>2, <2>3, <2>4 DEF off, val
<1>4. QED
  BY <1>1, <1>2, <1>3

\* The handlers.
LEMMA HandlerAt ==
    ASSUME NEW a \in Addresses
    PROVE  /\ a \in Loads => /\ Code[a].op = "load" /\ Code[a].next = a + 1
                             /\ Code[a].base = 5 /\ Code[a].off = 0 /\ Code[a].val = 0
           /\ a \in Emits => /\ Code[a].op = "emit" /\ Code[a].next = Idle
                             /\ Code[a].base = 6 /\ Code[a].off = 0
                             /\ Code[a].image = Image(LineOf(a))
<1>1. CASE a \in Loads
  <2> DEFINE next == a + 1
  <2> HIDE DEF next
  <2>1. Code[a] = Instr("load", 5, 0, 0, next)
    BY <1>1, CodeAt DEF next
  <2>2. /\ Code[a].op = "load" /\ Code[a].next = next
        /\ Code[a].base = 5 /\ Code[a].off = 0 /\ Code[a].val = 0
    BY <2>1 DEF Instr
  <2>3. QED
    BY <1>1, <2>2, Apart DEF next
<1>2. CASE a \in Emits
  <2>1. Code[a] = [Instr("emit", 6, 0, 0, Idle) EXCEPT !.image = Image(LineOf(a))]
    BY <1>2, CodeAt
  <2> DEFINE im == Image(LineOf(a))
             base == Image(0)
  <2> HIDE DEF im, base
  <2>2. Code[a] = [[op |-> "emit", rom |-> FALSE, base |-> 6, off |-> 0, val |-> 0,
                    image |-> base, next |-> Idle] EXCEPT !.image = im]
    BY <2>1, Zenon DEF Instr, im, base
  <2>3. /\ Code[a].op = "emit" /\ Code[a].next = Idle
        /\ Code[a].base = 6 /\ Code[a].off = 0 /\ Code[a].image = im
    BY <2>2
  <2>4. QED
    BY <1>2, <2>3, Apart DEF im
<1>3. QED
  BY <1>1, <1>2

\* Which instructions there are where.
LEMMA OpRegion ==
    ASSUME NEW a \in Addresses
    PROVE  /\ Code[a].op = "local" => a \in {0, ADDR_RESET}
           /\ Code[a].op = "store" => a = Trigger \/ a = Enable \/ \E n \in Lines : a = Vector(n)
           /\ Code[a].op = "wfi" => a = Idle
           /\ Code[a].op = "load" => a \in Loads
           /\ Code[a].op = "emit" => a \in Emits
<1>1. a \in {0, ADDR_RESET} => Code[a].op = "local"
  BY LocalAt
<1>2. a = Trigger \/ a = Enable \/ (\E n \in Lines : a = Vector(n)) => Code[a].op = "store"
  BY StoreAt
<1>3. a = Idle => Code[a].op = "wfi"
  BY LocalAt
<1>4. (a \in Loads => Code[a].op = "load") /\ (a \in Emits => Code[a].op = "emit")
  BY HandlerAt
<1>5. \/ a \in {0, ADDR_RESET} \/ a = Trigger \/ a = Enable \/ a = Idle
      \/ a \in Loads \/ a \in Emits \/ \E n \in Lines : a = Vector(n)
  BY Apart
<1>6. QED
  BY <1>1, <1>2, <1>3, <1>4, <1>5

\* The fields of the requests.
LEMMA RequestFields ==
    /\ TriggerReq.op = "W" /\ TriggerReq.base = 5 /\ TriggerReq.val = Unreachable
    /\ EnableReq.op = "W" /\ EnableReq.base = 1 /\ EnableReq.off = 4 * NVectors
    /\ \A n \in Lines : /\ VectorReq(n).op = "W" /\ VectorReq(n).base = 1
                        /\ VectorReq(n).off = 4 * n /\ VectorReq(n).val = Isr(n)
    /\ LoadReq.op = "R" /\ LoadReq.base = 5
    /\ \A r \in Results : /\ ResultReq(r).op = "W" /\ ResultReq(r).base = 6
                          /\ ResultReq(r).val = r
<1>1. /\ TriggerReq.op = "W" /\ TriggerReq.base = 5 /\ TriggerReq.val = Unreachable
      /\ LoadReq.op = "R" /\ LoadReq.base = 5
  BY DEF TriggerReq, LoadReq
<1>2. EnableReq.op = "W" /\ EnableReq.base = 1 /\ EnableReq.off = 4 * NVectors
  <2> DEFINE off == 4 * NVectors
             val == 2^N_EVENTS - 1
  <2> HIDE DEF off, val
  <2>1. EnableReq = [op |-> "W", base |-> 1, off |-> off, val |-> val]
    BY DEF EnableReq, off, val
  <2>2. EnableReq.op = "W" /\ EnableReq.base = 1 /\ EnableReq.off = off
    BY <2>1
  <2>3. QED
    BY <2>2 DEF off
<1>3. ASSUME NEW n \in Lines
      PROVE  /\ VectorReq(n).op = "W" /\ VectorReq(n).base = 1
             /\ VectorReq(n).off = 4 * n /\ VectorReq(n).val = Isr(n)
  <2> DEFINE off == 4 * n
             val == Isr(n)
  <2> HIDE DEF off, val
  <2>1. VectorReq(n) = [op |-> "W", base |-> 1, off |-> off, val |-> val]
    BY DEF VectorReq, off, val
  <2>2. /\ VectorReq(n).op = "W" /\ VectorReq(n).base = 1 /\ VectorReq(n).off = off
        /\ VectorReq(n).val = val
    BY <2>1
  <2>3. QED
    BY <2>2 DEF off, val
<1>4. ASSUME NEW r \in Results
      PROVE  ResultReq(r).op = "W" /\ ResultReq(r).base = 6 /\ ResultReq(r).val = r
  BY DEF ResultReq
<1>5. QED
  BY <1>1, <1>2, <1>3, <1>4

\* What they look like to a router.
LEMMA RequestKinds ==
    /\ \A r \in Stores : /\ r.op = "W" /\ r # LoadReq /\ ~MMU!IsRead(r) /\ ~Demux!IsRead(r)
                         /\ r.base >= 4 => r \in OuterStores
                         /\ r.base = 1 => r = EnableReq \/ r \in VectorReqs
    /\ \A r \in OuterStores : /\ r \in Stores /\ r.base \in {5, 6}
                              /\ r.base = 5 => r = TriggerReq
                              /\ r.base = 6 => r \in ResultReqs
    /\ MMU!IsRead(LoadReq) /\ Demux!IsRead(LoadReq)
<1>1. \A r \in ResultReqs : r.op = "W" /\ r.base = 6
  BY RequestFields DEF ResultReqs
<1>2. \A r \in VectorReqs : r.op = "W" /\ r.base = 1
  BY RequestFields DEF VectorReqs
<1>3. ASSUME NEW r \in OuterStores
      PROVE  /\ r \in Stores /\ r.op = "W" /\ r.base \in {5, 6}
             /\ r.base = 5 => r = TriggerReq
             /\ r.base = 6 => r \in ResultReqs
  BY <1>1, RequestFields DEF OuterStores, Stores
<1>4. ASSUME NEW r \in Stores
      PROVE  /\ r.op = "W" /\ (r.base >= 4 => r \in OuterStores)
             /\ r.base = 1 => r = EnableReq \/ r \in VectorReqs
  BY <1>2, <1>3, RequestFields DEF Stores
<1>5. \A r : r.op = "W" => r # LoadReq /\ ~MMU!IsRead(r) /\ ~Demux!IsRead(r)
  BY RequestFields DEF MMU!IsRead, Demux!IsRead
<1>6. MMU!IsRead(LoadReq) /\ Demux!IsRead(LoadReq)
  BY RequestFields DEF MMU!IsRead, Demux!IsRead
<1>7. QED
  BY <1>3, <1>4, <1>5, <1>6, Zenon

\* What the CPU sends from each address.
LEMMA Sends ==
    ASSUME pc \in Addresses
    PROVE  /\ pc = Trigger => CPU!Request = TriggerReq
           /\ \A n \in Lines : pc = Vector(n) => CPU!Request = VectorReq(n)
           /\ pc = Enable => CPU!Request = EnableReq
           /\ pc \in Loads => CPU!Request = LoadReq
           /\ pc \in Emits => CPU!Request = ResultReq(Image(LineOf(pc))[Head(v)])
<1>1. /\ Code[pc].op = "store" => CPU!Request = [op |-> "W", base |-> Code[pc].base,
                                       off |-> Code[pc].off, val |-> Code[pc].val]
      /\ Code[pc].op = "load" => CPU!Request = [op |-> "R", base |-> Code[pc].base,
                                       off |-> Code[pc].off, val |-> Code[pc].val]
      /\ Code[pc].op = "emit" => CPU!Request = [op |-> "W", base |-> Code[pc].base,
                                       off |-> Code[pc].off,
                                       val |-> Code[pc].image[Head(v)]]
  BY DEF CPU!Request
<1>2. pc = Trigger => CPU!Request = TriggerReq
  BY <1>1, StoreAt, Zenon DEF TriggerReq
<1>3. ASSUME NEW n \in Lines, pc = Vector(n)
      PROVE  CPU!Request = VectorReq(n)
  BY <1>1, <1>3, StoreAt, Zenon DEF VectorReq
<1>4. pc = Enable => CPU!Request = EnableReq
  BY <1>1, StoreAt, Zenon DEF EnableReq
<1>5. pc \in Loads => CPU!Request = LoadReq
  BY <1>1, HandlerAt, Zenon DEF LoadReq
<1>6. pc \in Emits => CPU!Request = ResultReq(Image(LineOf(pc))[Head(v)])
  BY <1>1, HandlerAt, Zenon DEF ResultReq
<1>7. QED
  BY <1>2, <1>3, <1>4, <1>5, <1>6

-----------------------------------------------------------------------------
(***************************************************************************)
(* The CPU.                                                                *)
(***************************************************************************)
\* A handler between its load and its store holds one word, never filtered.
LEMMA WordCarried ==
    ASSUME Control, pc \in Emits
    PROVE  /\ v[1] \in Data /\ v = <<v[1]>> /\ Head(v) = v[1] /\ Tail(v) = << >>
           /\ LineOf(pc) \in Lines
           /\ Image(LineOf(pc))[Head(v)] = v[1] + (LineOf(pc) + 1)
           /\ v[1] + (LineOf(pc) + 1) \in Results
           /\ Image(LineOf(pc))[Head(v)] # Dropped
<1>1. v \in Seq(Data) /\ Len(v) = 1
  BY DEF Control, CpuType, Carried
<1>2. v[1] \in Data /\ Head(v) = v[1]
  BY <1>1, ElementOfSeq
<1>3. Tail(v) = << >>
  <2>1. v # << >>
    BY <1>1, EmptySeq
  <2>2. Tail(v) \in Seq(Data) /\ Len(Tail(v)) = 0
    BY <1>1, <2>1, HeadTailProperties
  <2>3. QED
    BY <2>2, EmptySeq
<1>4. v = <<v[1]>>
  <2> DEFINE s == <<v[1]>>
  <2>1. s \in Seq(Data) /\ Len(s) = 1 /\ s[1] = v[1]
    BY <1>2
  <2>2. \A i \in 1 .. 1 : v[i] = s[i]
    BY <2>1
  <2> HIDE DEF s
  <2>3. v = s
    BY <1>1, <2>1, <2>2, SeqEqual
  <2>4. QED
    BY <2>3 DEF s
<1>5. PICK n \in Lines : pc = Isr(n) + 1
  BY DEF Emits
<1>6. LineOf(pc) \in Lines
  BY <1>5, LineOfHandler
<1>7. Image(LineOf(pc))[Head(v)] = v[1] + (LineOf(pc) + 1)
  BY <1>2, Zenon DEF Image
<1>8. v[1] + (LineOf(pc) + 1) \in Results
  BY <1>2, <1>6, SumsAssumption, Zenon
<1>9. QED
  BY <1>2, <1>3, <1>4, <1>6, <1>7, <1>8, WordsAssumption, Zenon

(***************************************************************************)
(* What a step may do to the CPU.                                          *)
(***************************************************************************)
CpuMove == \/ CPU!TakeReset("cold")
           \/ CPU!Relayed \/ CPU!Proceed
           \/ CPU!ExecLocal \/ CPU!ExecStore
           \/ CPU!ExecSkip \/ CPU!ExecEmit
           \/ CPU!ExecLoad \/ CPU!ExecWfi
           \/ cst = "load" /\ CPU!Loaded(mmu_rdata) /\ mmu_st = "reply"
           \/ CPU!Wake(IC!Target) /\ holding # NoLine
           \/ UNCHANGED cpu

\* Every step is one of the CPU's moves.
LEMMA CpuMoves == [Next]_vars => CpuMove
<1> SUFFICES ASSUME [Next]_vars PROVE CpuMove
  OBVIOUS
<1>1. CASE UNCHANGED vars
  BY <1>1 DEF vars, CpuMove
<1>2. CASE CpuStep
  BY <1>2, Zenon DEF CpuStep, Probe, Execute, Access, LoadReply, CpuMove, MMU!Reply,
     CPU!Loaded
<1>3. CASE BusStep
  BY <1>3, Zenon DEF BusStep, WriteIntCtrl, ToDemux, ToFifoIn, ToFifoOut, DemuxReply,
     CpuMove
<1>4. CASE ColdBoot \/ Relay \/ Wake
  BY <1>4, Zenon DEF ColdBoot, Reset, Relay, Wake, CpuMove, IC!Deliver, IC!Selecting
<1>5. CASE PowerOn \/ Pop \/ (\E d \in Data : Push(d)) \/ \E n \in Lines : TesterFires(n)
  BY <1>5, Zenon DEF PowerOn, AssertReset, Pop, Push, TesterFires, LineEvent, CpuMove
<1>6. QED
  BY <1>1, <1>2, <1>3, <1>4, <1>5 DEF Next

\* An awakened CPU finds its line's handler.
LEMMA WokenAtHandler ==
    ASSUME Control, IntcType, VectorsSet, holding # NoLine, cst = "wfi"
    PROVE  pc = Idle /\ holding \in Lines /\ IC!Target = Isr(holding)
<1>1. pc = Idle /\ holding \in Lines
  BY DEF Control, PcFollows, IntcType
<1>2. Vector(holding) + 1 \in 3 .. Enable /\ Enable < Idle /\ Idle <= LastPc
      /\ {Enable, Idle, LastPc} \subseteq Nat
  BY <1>1, VectorAddress, Regions
<1>3. pc \in Vector(holding) + 1 .. LastPc /\ pc # Vector(holding) + 1
  BY <1>1, <1>2
<1>4. vectors[holding] = Isr(holding)
  BY <1>1, <1>3 DEF VectorsSet, VectorPosted
<1>5. QED
  BY <1>1, <1>4 DEF IC!Target

\* No other part of the program is a handler.
LEMMA NotHandling ==
    /\ ADDR_RESET \in Addresses \ (Loads \cup Emits)
    /\ 0 \in Addresses \ (Loads \cup Emits)
    /\ Trigger \in Addresses \ (Loads \cup Emits)
    /\ Trigger + 1 \in Addresses \ (Loads \cup Emits)
    /\ Idle \in Addresses \ (Loads \cup Emits)
    /\ Enable \in Addresses \ (Loads \cup Emits)
    /\ Enable + 1 = Idle
    /\ \A n \in Lines : /\ Vector(n) \in Addresses \ (Loads \cup Emits)
                        /\ Vector(n) + 1 \in Addresses \ (Loads \cup Emits)
    /\ Loads \cup Emits \subseteq Addresses
<1>1. \A a \in 0 .. Idle : a \in Addresses
  BY Regions
<1>2. \A a \in 0 .. Idle \cup {ADDR_RESET} : a \notin Idle + 1 .. LastPc
  BY Regions
<1>3. \A a \in Loads \cup Emits : a \in Idle + 1 .. LastPc
  BY Apart
<1>4. \A a \in 0 .. Idle \cup {ADDR_RESET} : a \notin Loads \cup Emits
  BY <1>2, <1>3
<1>5. {0, Trigger, Trigger + 1, Idle, Enable} \subseteq 0 .. Idle /\ Enable + 1 = Idle
  BY Regions
<1>6. \A n \in Lines : Vector(n) \in 0 .. Idle /\ Vector(n) + 1 \in 0 .. Idle
  <2>1. Enable \in Nat /\ Idle = Enable + 1
    BY Regions
  <2>2. ASSUME NEW n \in Lines
        PROVE  Vector(n) \in 0 .. Idle /\ Vector(n) + 1 \in 0 .. Idle
    BY <2>1, VectorAddress
  <2>3. QED
    BY <2>2
<1>7. ADDR_RESET \in Addresses /\ \A a \in Idle + 1 .. LastPc : a \in Addresses
  BY Regions
<1>8. QED
  BY <1>1, <1>3, <1>4, <1>5, <1>6, <1>7

\* The CPU follows the program.
LEMMA ControlKept ==
    ASSUME Control, Traffic, IntcType, VectorsSet, CpuMove
    PROVE  Control'
<1> USE DEF Control
<1>1. CASE CPU!TakeReset("cold")
  BY <1>1, NotHandling DEF CPU!TakeReset, CpuType, PcFollows, Carried
<1>2. CASE CPU!Relayed \/ CPU!Proceed \/ UNCHANGED cpu
  BY <1>2 DEF CPU!Relayed, CPU!Proceed, cpu, CpuType, PcFollows, Carried
<1>3. CASE CPU!ExecWfi \/ CPU!ExecLoad
  <2>1. /\ pc' = pc /\ v' = v
        /\ (cst' = "wfi" /\ pc = Idle) \/ (cst' = "load" /\ pc \in Loads)
    BY <1>3, OpRegion DEF CPU!ExecWfi, CPU!ExecLoad, CPU!At, CpuType
  <2>2. QED
    BY <2>1 DEF CpuType, PcFollows, Carried
<1>4. CASE CPU!ExecLocal \/ CPU!ExecStore
  <2>1. v' = v /\ cst' = "top" /\ pc' = Code[pc].next
    BY <1>4 DEF CPU!ExecLocal, CPU!ExecStore, CPU!Step
  <2>2. Code[pc].op = "local" \/ Code[pc].op = "store"
    BY <1>4 DEF CPU!ExecLocal, CPU!ExecStore, CPU!At
  <2>3. \/ pc = ADDR_RESET /\ pc' = 0
        \/ pc = 0 /\ pc' = Trigger
        \/ pc \in {Trigger, Enable} /\ pc' = pc + 1
        \/ \E n \in Lines : pc = Vector(n) /\ pc' = pc + 1
    <3>1. pc \in Addresses /\ Trigger = 1
      BY Regions DEF CpuType
    <3>2. \/ pc \in {0, ADDR_RESET} \/ pc = Trigger \/ pc = Enable
          \/ \E n \in Lines : pc = Vector(n)
      BY <2>2, <3>1, OpRegion
    <3>3. QED
      BY <2>1, <3>1, <3>2, LocalAt, StoreAt, Zenon
  <2>4. /\ pc \in Addresses \ (Loads \cup Emits)
        /\ pc' \in Addresses \ (Loads \cup Emits)
    BY <2>3, NotHandling, Zenon
  <2>5. QED
    BY <2>1, <2>4 DEF CpuType, PcFollows, Carried
<1>5. CASE CPU!ExecSkip \/ CPU!ExecEmit
  <2>1. Code[pc].op = "emit" /\ cst' = "top" /\ pc' = Code[pc].next /\ v' = Tail(v)
    BY <1>5 DEF CPU!ExecSkip, CPU!ExecEmit, CPU!Filtered, CPU!At, CPU!Step
  <2>2. pc \in Emits /\ pc' = Idle
    BY <2>1, OpRegion, HandlerAt DEF CpuType
  <2>3. v' = << >>
    BY <2>1, <2>2, WordCarried
  <2>4. Idle \in Addresses /\ Idle \notin Emits
    BY NotHandling
  <2>5. QED
    BY <2>1, <2>2, <2>3, <2>4 DEF CpuType, PcFollows, Carried
<1>6. CASE cst = "load" /\ CPU!Loaded(mmu_rdata) /\ mmu_st = "reply"
  <2>1. pc \in Loads /\ mmu_rdata \in Data
    BY <1>6 DEF PcFollows, Traffic, LoadEntering, LoadOutside, LoadBack
  <2>2. pc' = pc + 1 /\ cst' = "top" /\ v' = Append(v, mmu_rdata)
    BY <1>6, <2>1, HandlerAt DEF CPU!Loaded, CPU!Step, CpuType
  <2>3. Len(v) = 0 /\ v \in Seq(Data)
    BY <2>1, Apart DEF CpuType, Carried
  <2>4. v' \in Seq(Data) /\ Len(v') = 1
    BY <2>1, <2>2, <2>3
  <2>5. pc' \in Emits /\ pc' \in Addresses
    BY <2>1, <2>2, Apart, NotHandling, Zenon
  <2>6. QED
    BY <2>2, <2>4, <2>5 DEF CpuType, PcFollows, Carried
<1>7. CASE CPU!Wake(IC!Target) /\ holding # NoLine
  <2>1. pc = Idle /\ cst' = "top" /\ v' = v /\ holding \in Lines /\ pc' = Isr(holding)
    BY <1>7, WokenAtHandler DEF CPU!Wake
  <2>2. pc' \in Loads /\ pc' \in Addresses /\ pc' \notin Emits
    BY <2>1, LineOfHandler, Apart, NotHandling, Zenon
  <2>3. pc \notin Emits
    BY <2>1, NotHandling
  <2>4. QED
    BY <2>1, <2>2, <2>3 DEF CpuType, PcFollows, Carried
<1>8. QED
  BY <1>1, <1>2, <1>3, <1>4, <1>5, <1>6, <1>7 DEF CpuMove

\* What an instruction that leaves the core posts.
LEMMA Posts ==
    ASSUME Control, Access
    PROVE  /\ cst = "fetch" /\ mmu_st = "idle" /\ mmu_st' = "route"
           /\ UNCHANGED <<mmu_rdata, demux, intc, fifoIn, fifoOut>>
           /\ \/ /\ pc = Trigger /\ pc' = pc + 1 /\ cst' = "top" /\ v' = v
                 /\ mmu_req' = TriggerReq
              \/ \E n \in Lines :
                 /\ pc = Vector(n) /\ pc' = pc + 1 /\ cst' = "top" /\ v' = v
                 /\ mmu_req' = VectorReq(n)
              \/ /\ pc = Enable /\ pc' = Idle /\ cst' = "top" /\ v' = v
                 /\ mmu_req' = EnableReq
              \/ /\ pc \in Emits /\ pc' = Idle /\ cst' = "top" /\ v' = << >>
                 /\ mmu_req' = ResultReq(v[1] + (LineOf(pc) + 1))
              \/ /\ pc \in Loads /\ pc' = pc /\ cst' = "load" /\ v' = v
                 /\ mmu_req' = LoadReq
<1>1. /\ cst = "fetch" /\ mmu_st = "idle" /\ mmu_st' = "route" /\ mmu_req' = CPU!Request
      /\ UNCHANGED <<mmu_rdata, demux, intc, fifoIn, fifoOut>>
  BY DEF Access, MMU!Take, CPU!ExecStore, CPU!ExecEmit, CPU!ExecLoad, CPU!At
<1>2. pc \in Addresses
  BY DEF Control, CpuType
<1>3. CASE CPU!ExecStore
  <2>1. Code[pc].op = "store" /\ pc' = Code[pc].next /\ cst' = "top" /\ v' = v
    BY <1>3 DEF CPU!ExecStore, CPU!At, CPU!Step
  <2>2. pc = Trigger \/ pc = Enable \/ \E n \in Lines : pc = Vector(n)
    BY <1>2, <2>1, OpRegion
  <2>3. Code[pc].next = pc + 1
    BY <1>2, <2>2, StoreAt, Zenon
  <2>4. Enable + 1 = Idle
    BY NotHandling
  <2>5. QED
    BY <1>1, <1>2, <2>1, <2>2, <2>3, <2>4, Sends, Zenon
<1>4. CASE CPU!ExecEmit
  <2>1. Code[pc].op = "emit" /\ pc' = Code[pc].next /\ cst' = "top" /\ v' = Tail(v)
    BY <1>4 DEF CPU!ExecEmit, CPU!At, CPU!Step
  <2>2. pc \in Emits /\ pc' = Idle
    BY <1>2, <2>1, OpRegion, HandlerAt
  <2>3. v' = << >> /\ CPU!Request = ResultReq(v[1] + (LineOf(pc) + 1))
    BY <1>2, <2>1, <2>2, Sends, WordCarried, Zenon
  <2>4. QED
    BY <1>1, <2>1, <2>2, <2>3
<1>5. CASE CPU!ExecLoad
  <2>1. Code[pc].op = "load" /\ pc' = pc /\ cst' = "load" /\ v' = v
    BY <1>5 DEF CPU!ExecLoad, CPU!At
  <2>2. pc \in Loads
    BY <1>2, <2>1, OpRegion
  <2>3. QED
    BY <1>1, <1>2, <2>1, <2>2, Sends
<1>6. QED
  BY <1>3, <1>4, <1>5 DEF Access

-----------------------------------------------------------------------------
(***************************************************************************)
(* The routers.                                                            *)
(***************************************************************************)
\* The number of claims, by what makes one.
LEMMA ClaimsAre ==
    /\ holding = NoLine /\ ~LoadPending => Claims = 0
    /\ holding # NoLine /\ ~LoadPending => Claims = 1
    /\ holding = NoLine /\ LoadPending => Claims = 1
    /\ holding # NoLine /\ LoadPending => Claims = 2
    /\ Claims \in 0 .. 2
BY DEF Claims

\* A load that reaches the input FIFO finds its word there.
LEMMA LoadCovered ==
    ASSUME Control, Traffic, NeverFull, Covered, ToFifoIn, dmx_req.op = "R"
    PROVE  /\ cst = "load" /\ LoadOutside /\ dmx_st = "route" /\ pc \in Loads
           /\ LoadPending /\ fi_count > 0
<1>1. dmx_st = "route" /\ dmx_req \notin OuterStores
  BY RequestKinds DEF ToFifoIn, Demux!Exchange, OuterStores
<1>2. cst = "load" /\ LoadOutside
  BY <1>1 DEF Traffic, LoadEntering, LoadBack, OuterStoring
<1>3. pc \in Loads /\ LoadPending
  BY <1>1, <1>2 DEF Control, PcFollows, LoadOutside, LoadPending
<1>4. Claims \in {1, 2} /\ fi_count \in Nat
  BY <1>3, ClaimsAre, InputRegisters DEF NeverFull
<1>5. QED
  BY <1>1, <1>2, <1>3, <1>4 DEF Covered

(***************************************************************************)
(* Every other step leaves the routers alone and starts or ends no load.   *)
(***************************************************************************)
Quiet == /\ UNCHANGED <<mmu, demux>>
         /\ cst' = "load" <=> cst = "load"

\* The steps that touch the routers, and the rest.
LEMMA QuietSteps ==
    ASSUME [Next]_vars
    PROVE  \/ Access \/ LoadReply \/ WriteIntCtrl \/ ToDemux
           \/ ToFifoIn \/ ToFifoOut \/ DemuxReply
           \/ Quiet
<1> USE DEF Quiet
<1>1. CASE UNCHANGED vars
  BY <1>1 DEF vars, cpu
<1>2. CASE ColdBoot
  BY <1>2 DEF ColdBoot, Reset, CPU!TakeReset
<1>3. CASE Relay \/ Probe \/ Wake
  BY <1>3 DEF Relay, Probe, Wake, CPU!Relayed, CPU!Proceed, CPU!Wake
<1>4. CASE Execute
  BY <1>4 DEF Execute, CPU!ExecLocal, CPU!ExecSkip, CPU!Filtered, CPU!ExecWfi, CPU!Step,
              CPU!At
<1>5. CASE PowerOn \/ Pop \/ (\E d \in Data : Push(d)) \/ \E n \in Lines : TesterFires(n)
  BY <1>5 DEF PowerOn, AssertReset, Pop, Push, TesterFires, LineEvent, cpu
<1>6. QED
  BY <1>1, <1>2, <1>3, <1>4, <1>5 DEF Next, CpuStep, BusStep

\* Requests travel outwards one by one and answers come back to their load.
LEMMA TrafficKept ==
    ASSUME Control, Traffic, NeverFull, Covered, [Next]_vars
    PROVE  Traffic'
<1> USE DEF Traffic
<1>1. CASE Access
  <2>1. /\ mmu_st' = "route"
        /\ \/ cst' = "top" /\ mmu_req' \in Stores
           \/ cst' = "load" /\ mmu_req' = LoadReq
    <3>1. \A n \in Lines : VectorReq(n) \in Stores
      BY DEF Stores, VectorReqs
    <3>2. TriggerReq \in Stores /\ EnableReq \in Stores
      BY DEF Stores, OuterStores
    <3>3. pc \in Emits => ResultReq(v[1] + (LineOf(pc) + 1)) \in Stores
      BY WordCarried DEF Stores, OuterStores, ResultReqs
    <3>4. QED
      BY <1>1, <3>1, <3>2, <3>3, Posts, Zenon
  <2>2. OuterStoring /\ UNCHANGED demux
    BY <1>1, Posts
  <2>3. QED
    BY <2>1, <2>2 DEF LoadEntering, CoreStoring, OuterStoring, demux
<1>2. CASE LoadReply
  <2>1. LoadBack
    BY <1>2 DEF LoadReply, CPU!Loaded, MMU!Reply, LoadEntering, LoadOutside
  <2>2. mmu_st' = "idle" /\ UNCHANGED demux /\ cst' = "top"
    BY <1>2 DEF LoadReply, CPU!Loaded, CPU!Step, MMU!Reply
  <2>3. QED
    BY <2>1, <2>2 DEF LoadBack, CoreStoring, OuterStoring, demux
<1>3. CASE WriteIntCtrl
  <2>1. /\ mmu_st = "route" /\ mmu_req.base = 1 /\ UNCHANGED <<cst, demux>>
        /\ mmu_st' = IF MMU!IsRead(mmu_req) THEN "await" ELSE "idle"
        /\ mmu_req' = mmu_req
    BY <1>3 DEF WriteIntCtrl, MMU!Send, ADDR_INT_CTRL, cpu
  <2>2. mmu_req \in Stores /\ OuterStoring /\ cst # "load"
    BY <2>1, RequestFields DEF LoadEntering, LoadOutside, LoadBack, CoreStoring
  <2>3. QED
    BY <2>1, <2>2, RequestKinds DEF CoreStoring, OuterStoring, demux
<1>4. CASE ToDemux
  <2>1. /\ mmu_st = "route" /\ mmu_req.base >= 4
        /\ mmu_st' = IF MMU!IsRead(mmu_req) THEN "await" ELSE "idle"
        /\ mmu_req' = mmu_req
        /\ dmx_st' = "route" /\ dmx_req' = mmu_req
        /\ cst' = cst
    BY <1>4 DEF ToDemux, MMU!Send, Demux!Take, ADDR_EXT_MIN, cpu
  <2>2. CASE cst = "load"
    <3>1. mmu_req = LoadReq
      BY <2>1, <2>2 DEF LoadEntering, LoadOutside, LoadBack
    <3>2. QED
      BY <2>1, <2>2, <3>1, RequestKinds DEF LoadOutside
  <2>3. CASE cst # "load"
    <3>1. mmu_req \in Stores
      BY <2>1, <2>3 DEF CoreStoring
    <3>2. mmu_st' = "idle" /\ mmu_req \in OuterStores
      BY <2>1, <3>1, RequestKinds
    <3>3. QED
      BY <2>1, <2>3, <3>2 DEF CoreStoring, OuterStoring
  <2>4. QED
    BY <2>2, <2>3
<1>5. CASE ToFifoIn
  <2>1. /\ dmx_st = "route" /\ UNCHANGED <<cst, mmu>> /\ dmx_req' = dmx_req
        /\ dmx_st' = IF Demux!IsRead(dmx_req) THEN "reply" ELSE "idle"
        /\ dmx_rdata' = IF Demux!IsRead(dmx_req) THEN FI!Front ELSE dmx_rdata
    BY <1>5 DEF ToFifoIn, Demux!Exchange, cpu
  <2>2. CASE dmx_req.op = "R"
    <3>1. cst = "load" /\ LoadOutside /\ FI!Front \in Data
      BY <1>5, <2>2, LoadCovered, FrontTyped DEF NeverFull
    <3>2. Demux!IsRead(dmx_req)
      BY <2>2 DEF Demux!IsRead
    <3>3. QED
      BY <2>1, <3>1, <3>2 DEF LoadOutside, mmu
  <2>3. CASE dmx_req.op # "R"
    <3>1. dmx_req \in OuterStores
      BY <2>1, <2>3, RequestFields DEF LoadEntering, LoadOutside, LoadBack, OuterStoring
    <3>2. dmx_st' = "idle"
      BY <2>1, <3>1, RequestKinds
    <3>3. LoadEntering \/ (cst # "load" /\ CoreStoring)
      BY <2>1, <3>1, RequestKinds DEF LoadOutside, LoadBack
    <3>4. QED
      BY <2>1, <3>2, <3>3 DEF LoadEntering, CoreStoring, OuterStoring, mmu
  <2>4. QED
    BY <2>2, <2>3
<1>6. CASE ToFifoOut
  <2>1. /\ dmx_st = "route" /\ dmx_req.base = 6 /\ UNCHANGED <<cst, mmu>>
        /\ dmx_st' = IF Demux!IsRead(dmx_req) THEN "await" ELSE "idle"
        /\ dmx_req' = dmx_req
    BY <1>6 DEF ToFifoOut, Demux!Send, ADDR_FIFO_OUT, cpu
  <2>2. dmx_req \in OuterStores
    BY <2>1, RequestFields DEF LoadEntering, LoadOutside, LoadBack, OuterStoring
  <2>3. dmx_st' = "idle"
    BY <2>1, <2>2, RequestKinds
  <2>4. LoadEntering \/ (cst # "load" /\ CoreStoring)
    BY <2>1, <2>2, RequestKinds DEF LoadOutside, LoadBack
  <2>5. QED
    BY <2>1, <2>3, <2>4 DEF LoadEntering, CoreStoring, OuterStoring, mmu
<1>7. CASE DemuxReply
  <2>1. /\ dmx_st = "reply" /\ dmx_st' = "idle" /\ dmx_req' = dmx_req
        /\ mmu_st = "await" /\ mmu_st' = "reply" /\ mmu_req' = mmu_req
        /\ mmu_rdata' = dmx_rdata /\ cst' = cst
    BY <1>7 DEF DemuxReply, Demux!Reply, MMU!Answer, cpu
  <2>2. cst = "load" /\ LoadOutside
    BY <2>1 DEF LoadEntering, LoadBack, CoreStoring
  <2>3. QED
    BY <2>1, <2>2 DEF LoadOutside, LoadBack
<1>8. CASE Quiet
  BY <1>8, Zenon
     DEF Quiet, mmu, demux, LoadEntering, LoadOutside, LoadBack, CoreStoring, OuterStoring
<1>9. QED
  BY <1>1, <1>2, <1>3, <1>4, <1>5, <1>6, <1>7, <1>8, QuietSteps

-----------------------------------------------------------------------------
(***************************************************************************)
(* The interrupt controller.                                               *)
(***************************************************************************)
\* Bits are selected by positive powers.
LEMMA PowersPositive == \A i \in Nat : 2^i \in Nat \ {0}
<1> SUFFICES ASSUME NEW i \in Nat
             PROVE  2^i \in Nat \ {0}
  OBVIOUS
<1>1. IsFiniteSet(1 .. i) /\ Cardinality(1 .. i) = i
  <2>1. /\ IsFiniteSet(1 .. i)
        /\ Cardinality(1 .. i) = IF 1 > i THEN 0 ELSE i - 1 + 1
    BY FS_Interval
  <2>2. QED
    BY <2>1
<1> DEFINE U == SUBSET (1 .. i)
<1>2. IsFiniteSet(U) /\ Cardinality(U) = 2^i
  BY <1>1, FS_SUBSET, Zenon
<1>3. {} \in U
  OBVIOUS
<1> HIDE DEF U
<1>4. Cardinality(U) \in Nat /\ Cardinality(U) # 0
  BY <1>2, <1>3, FS_CardinalityType, FS_EmptySet
<1>5. QED
  BY <1>2, <1>4, Zenon

\* With no bit set, no line is enabled.
LEMMA EmptyMask ==
    ASSUME NEW n \in Lines, IC!Enabled(n)
    PROVE  enable_mask # 0
<1>1. n \in Nat
  BY AddressOf
<1>2. 2^n \in Nat \ {0}
  BY <1>1, PowersPositive
<1>3. \A f \in Nat \ {0} : (0 \div f) % 2 # 1
  OBVIOUS
<1>4. (0 \div 2^n) % 2 # 1
  BY <1>2, <1>3, Zenon
<1>5. QED
  BY <1>4 DEF IC!Enabled

InstallVector(n) == /\ holding = NoLine /\ holding' = NoLine
                    /\ mmu_st = "route" /\ mmu_req = VectorReq(n)
                    /\ vectors' = [vectors EXCEPT ![n] = Isr(n)]
                    /\ enable_mask' = enable_mask

EnableLines == /\ holding = NoLine /\ holding' = NoLine
               /\ mmu_st = "route" /\ mmu_req = EnableReq
               /\ vectors' = vectors

\* The offset of each line's vector.
LEMMA VectorOffset ==
    ASSUME NEW n \in Lines
    PROVE  /\ IC!VectorIndex(4 * n) = n /\ IC!ADDR_INT_CTRL_ENABLE # 4 * n
           /\ n \in IC!Vectors
<1>1. n \in Nat /\ n <= NVectors - 1 /\ NVectors \in Nat
  BY LinesAssumption
<1>2. \A k \in Nat : (4 * k) \div 4 = k
  OBVIOUS
<1>3. \A k, m \in Nat : k <= m - 1 => k % m = k
  OBVIOUS
<1>4. (4 * n) \div 4 = n /\ n % NVectors = n
  BY <1>1, <1>2, <1>3, Zenon
<1>5. IC!VectorIndex(4 * n) = n
  BY <1>4, Zenon DEF IC!VectorIndex
<1>6. \A k, m \in Nat : k <= m - 1 => 4 * m # 4 * k /\ k \in 0 .. m - 1
  OBVIOUS
<1>7. 4 * NVectors # 4 * n /\ n \in 0 .. NVectors - 1
  BY <1>1, <1>6, Zenon
<1>8. QED
  BY <1>5, <1>7, Zenon DEF IC!ADDR_INT_CTRL_ENABLE, IC!Vectors

\* The only stores it gets are those of main().
LEMMA StoreSets ==
    ASSUME Traffic, WriteIntCtrl
    PROVE  EnableLines \/ \E n \in Lines : InstallVector(n)
<1>1. /\ mmu_st = "route" /\ mmu_req.base = 1
      /\ IC!WriteRegister(mmu_req.off, mmu_req.val)
  BY DEF WriteIntCtrl, MMU!Send, ADDR_INT_CTRL
<1>2. mmu_req = EnableReq \/ mmu_req \in VectorReqs
  <2>1. mmu_req \in Stores
    BY <1>1, RequestFields DEF Traffic, LoadEntering, LoadOutside, LoadBack, CoreStoring
  <2>2. QED
    BY <1>1, <2>1, RequestKinds
<1>3. ASSUME NEW n \in Lines, mmu_req = VectorReq(n)
      PROVE  InstallVector(n)
  <2>1. IC!WriteVector(4 * n, Isr(n))
    <3>1. IC!WriteRegister(4 * n, Isr(n))
      BY <1>1, <1>3, RequestFields
    <3>2. QED
      BY <3>1, VectorOffset DEF IC!WriteRegister
  <2>2. QED
    BY <1>1, <1>3, <2>1, VectorOffset, Zenon
       DEF IC!WriteVector, IC!Selecting, InstallVector
<1>4. CASE mmu_req = EnableReq
  <2>1. IC!WriteEnable(mmu_req.val)
    BY <1>1, <1>4, RequestFields DEF IC!WriteRegister, IC!ADDR_INT_CTRL_ENABLE
  <2>2. QED
    BY <1>1, <1>4, <2>1 DEF IC!WriteEnable, IC!Selecting, EnableLines
<1>5. QED
  BY <1>2, <1>3, <1>4 DEF VectorReqs

\* What the other components do to it.
LEMMA IntcMoves ==
    ASSUME [Next]_vars
    PROVE  WriteIntCtrl \/ UNCHANGED intc \/ Relay \/ Wake \/ \E n \in Lines : TesterFires(n)
<1>1. CASE UNCHANGED vars
  BY <1>1 DEF vars
<1>2. CASE CpuStep \/ ToDemux \/ ToFifoIn \/ ToFifoOut \/ DemuxReply
  BY <1>2 DEF CpuStep, Probe, Execute, Access, LoadReply, ToDemux, ToFifoIn,
              ToFifoOut, DemuxReply
<1>3. CASE ColdBoot \/ PowerOn \/ Pop \/ \E d \in Data : Push(d)
  BY <1>3 DEF ColdBoot, Reset, PowerOn, AssertReset, Push, Pop
<1>4. QED
  BY <1>1, <1>2, <1>3 DEF Next, BusStep

\* Its registers stay typed.
LEMMA IntcTyped ==
    ASSUME Traffic, IntcType, [Next]_vars
    PROVE  IntcType'
<1> USE DEF IntcType
<1>1. CASE UNCHANGED intc
  BY <1>1 DEF intc
<1>2. CASE Relay
  BY <1>2 DEF Relay, IC!ResetIntCtrl
<1>3. ASSUME NEW n \in Lines, TesterFires(n)
      PROVE  IntcType'
  BY <1>3 DEF TesterFires, LineEvent, IC!Accept
<1>4. CASE Wake
  BY <1>4 DEF Wake, IC!Deliver
<1>5. CASE WriteIntCtrl
  <2>1. CASE EnableLines
    BY <2>1 DEF EnableLines
  <2>2. ASSUME NEW n \in Lines, InstallVector(n)
        PROVE  IntcType'
    <3>1. Isr(n) \in Nat
      BY LineOfHandler, AddressOf
    <3>2. QED
      BY <2>2, <3>1 DEF InstallVector
  <2>3. QED
    BY <1>5, <2>1, <2>2, StoreSets
<1>6. QED
  BY <1>1, <1>2, <1>3, <1>4, <1>5, IntcMoves

\* Once past main()'s stores, the program stays there.
LEMMA ReadyStays ==
    ASSUME Control, IntcType, VectorsSet, CpuMove, Ready
    PROVE  Ready'
<1>1. /\ pc \in Addresses /\ pc # ADDR_RESET /\ pc # 0 /\ pc # Trigger /\ pc # Enable
      /\ \A n \in Lines : pc # Vector(n)
  <2>1. /\ Idle = Enable + 1 /\ Trigger = 1 /\ Enable \in Nat /\ Enable > 2
        /\ ADDR_RESET \notin 0 .. LastPc
    BY Regions
  <2>2. pc \in Addresses /\ pc # ADDR_RESET /\ pc # 0 /\ pc # Trigger /\ pc # Enable
    <3>1. pc \in 0 .. LastPc
      BY Layout DEF Ready
    <3>2. QED
      BY <3>1, Layout DEF Ready
  <2>3. ASSUME NEW n \in Lines
        PROVE  pc # Vector(n)
    <3>1. Vector(n) \in 2 .. Enable - 1
      BY VectorAddress
    <3>2. Vector(n) \notin Idle .. LastPc
      BY <2>1, <3>1
    <3>3. QED
      BY <3>2 DEF Ready
  <2>4. QED
    BY <2>2, <2>3
<1>2. \A a \in Loads \cup Emits \cup {Idle} : a \in Idle .. LastPc
  <2>1. Idle \in Nat /\ LastPc \in Nat /\ Idle <= LastPc
    BY Regions
  <2>2. ASSUME NEW a \in Idle + 1 .. LastPc
        PROVE  a \in Idle .. LastPc
    BY <2>1
  <2>3. Idle \in Idle .. LastPc
    BY <2>1
  <2>4. QED
    BY <2>2, <2>3, Apart
<1>3. CASE CPU!TakeReset("cold")
  BY <1>1, <1>3 DEF CPU!TakeReset, Control, PcFollows
<1>4. CASE CPU!ExecLocal \/ CPU!ExecStore
  <2>1. Code[pc].op \in {"local", "store"}
    BY <1>4 DEF CPU!ExecLocal, CPU!ExecStore, CPU!At
  <2>2. QED
    BY <1>1, <2>1, OpRegion
<1>5. CASE CPU!ExecSkip \/ CPU!ExecEmit
  <2>1. Code[pc].op = "emit" /\ pc' = Code[pc].next
    BY <1>5 DEF CPU!ExecSkip, CPU!ExecEmit, CPU!Filtered, CPU!At, CPU!Step
  <2>2. pc' = Idle
    BY <1>1, <2>1, OpRegion, HandlerAt
  <2>3. QED
    BY <1>2, <2>2 DEF Ready
<1>6. CASE cst = "load" /\ CPU!Loaded(mmu_rdata) /\ mmu_st = "reply"
  <2>1. pc \in Loads /\ pc' = Code[pc].next
    BY <1>6 DEF CPU!Loaded, CPU!Step, Control, PcFollows
  <2>2. pc' \in Emits
    BY <1>1, <2>1, HandlerAt, Apart, Zenon
  <2>3. QED
    BY <1>2, <2>2 DEF Ready
<1>7. CASE CPU!Wake(IC!Target) /\ holding # NoLine
  <2>1. pc' = Isr(holding) /\ holding \in Lines
    BY <1>7, WokenAtHandler DEF CPU!Wake
  <2>2. pc' \in Loads
    BY <2>1, LineOfHandler
  <2>3. QED
    BY <1>2, <2>2 DEF Ready
<1>8. CASE pc' = pc
  BY <1>8 DEF Ready
<1>9. QED
  BY <1>3, <1>4, <1>5, <1>6, <1>7, <1>8, Zenon
     DEF CpuMove, CPU!Relayed, CPU!Proceed, CPU!ExecLoad, CPU!ExecWfi, cpu

\* So no line is enabled before the vectors are installed.
LEMMA EnabledLateKept ==
    ASSUME Control, Traffic, IntcType, VectorsSet, EnabledLate, [Next]_vars
    PROVE  EnabledLate'
<1>1. Ready => Ready'
  BY CpuMoves, ReadyStays
<1>2. CASE Ready
  BY <1>1, <1>2 DEF EnabledLate
<1>3. CASE ~Ready
  <2>1. enable_mask = 0 /\ holding = NoLine /\ ~(mmu_st = "route" /\ mmu_req = EnableReq)
    BY <1>3 DEF EnabledLate
  <2>2. enable_mask' = 0 /\ holding' = NoLine
    <3>1. CASE WriteIntCtrl
      <4>1. \E n \in Lines : InstallVector(n)
        BY <2>1, <3>1, StoreSets DEF EnableLines
      <4>2. QED
        BY <2>1, <4>1 DEF InstallVector
    <3>2. CASE UNCHANGED intc
      BY <2>1, <3>2 DEF intc
    <3>3. CASE Relay
      BY <2>1, <3>3 DEF Relay, IC!ResetIntCtrl
    <3>4. CASE Wake
      BY <2>1, <3>4 DEF Wake, IC!Deliver
    <3>5. CASE \E n \in Lines : TesterFires(n)
      BY <2>1, <3>5, EmptyMask DEF TesterFires, LineEvent, IC!Accept
    <3>6. QED
      BY <3>1, <3>2, <3>3, <3>4, <3>5, IntcMoves
  <2>3. (mmu_st = "route" /\ mmu_req = EnableReq)' => Ready'
    <3>1. CASE Access
      <4>1. \A n \in Lines : VectorReq(n) # EnableReq
        <5>1. ASSUME NEW n \in Lines
              PROVE  VectorReq(n) # EnableReq
          <6>1. 4 * n # 4 * NVectors
            BY VectorOffset, Zenon DEF IC!ADDR_INT_CTRL_ENABLE
          <6>2. VectorReq(n).off = 4 * n /\ EnableReq.off = 4 * NVectors
            BY RequestFields
          <6>3. QED
            BY <6>1, <6>2, Zenon
        <5>2. QED
          BY <5>1
      <4>2. /\ TriggerReq # EnableReq /\ LoadReq # EnableReq
            /\ \A r \in Results : ResultReq(r) # EnableReq
        BY RequestFields
      <4>3. pc \in Emits => ResultReq(v[1] + (LineOf(pc) + 1)) # EnableReq
        BY <4>2, WordCarried, Zenon
      <4>4. mmu_req' = EnableReq => pc' = Idle
        BY <3>1, <4>1, <4>2, <4>3, Posts, Zenon
      <4>5. Idle \in Idle .. LastPc
        BY Regions
      <4>6. QED
        BY <4>4, <4>5 DEF Ready
    <3>2. CASE UNCHANGED mmu
      BY <2>1, <3>2 DEF mmu
    <3>3. CASE LoadReply \/ WriteIntCtrl \/ ToDemux \/ DemuxReply
      BY <2>1, <3>3 DEF LoadReply, WriteIntCtrl, ToDemux, DemuxReply, MMU!Reply, MMU!Send,
                        MMU!Answer
    <3>4. CASE ToFifoIn \/ ToFifoOut
      BY <2>1, <3>4 DEF ToFifoIn, ToFifoOut, mmu
    <3>5. QED
      BY <3>1, <3>2, <3>3, <3>4, QuietSteps DEF Quiet
  <2>4. QED
    BY <2>2, <2>3 DEF EnabledLate
<1>4. QED
  BY <1>2, <1>3

\* How the program comes past the store of a vector.
LEMMA PastVector ==
    ASSUME Control, IntcType, VectorsSet, [Next]_vars, NEW n \in Lines,
           pc' \in Vector(n) + 1 .. LastPc
    PROVE  pc \in Vector(n) + 1 .. LastPc \/ (Access /\ pc = Vector(n))
<1>1. /\ Idle = Enable + 1 /\ Trigger = 1 /\ Enable \in Nat /\ LastPc \in Nat
      /\ ADDR_RESET \notin 0 .. LastPc
      /\ Vector(n) \in 2 .. Enable - 1
  BY Regions, VectorAddress
<1>2. \A a \in Idle .. LastPc : a \in Vector(n) + 1 .. LastPc
  BY <1>1
<1>3. CASE Ready
  BY <1>2, <1>3 DEF Ready
<1>4. CASE pc' = pc
  BY <1>4
<1>5. CASE Access /\ ~Ready
  <2>1. pc = Trigger \/ pc = Enable \/ (\E m \in Lines : pc = Vector(m))
        \/ pc \in Loads \/ pc \in Emits
    BY <1>5, Posts
  <2>2. pc \notin Loads /\ pc \notin Emits
    <3>1. pc \notin Idle + 1 .. LastPc
      BY <1>1, <1>5 DEF Ready
    <3>2. QED
      BY <3>1, Apart
  <2>3. pc' = pc + 1
    BY <1>5, <2>2, Posts, NotHandling, Zenon
  <2>4. pc \in Nat /\ pc <= Enable
    <3>1. \A m \in Lines : Vector(m) \in Nat /\ Vector(m) <= Enable
      BY VectorAddress, <1>1
    <3>2. Trigger \in Nat /\ Trigger <= Enable
      BY Regions
    <3>3. QED
      BY <1>1, <2>1, <2>2, <3>1, <3>2
  <2>5. QED
    BY <1>1, <1>5, <2>3, <2>4
<1>6. CASE ColdBoot
  BY <1>1, <1>6 DEF ColdBoot, Reset, CPU!TakeReset
<1>7. CASE Execute /\ ~Ready /\ pc' # pc
  <2>1. Code[pc].op \in {"local", "emit"} /\ pc' = Code[pc].next
    BY <1>7 DEF Execute, CPU!ExecLocal, CPU!ExecSkip, CPU!Filtered, CPU!At, CPU!Step,
                CPU!ExecWfi
  <2>2. pc \in Addresses
    BY DEF Control, CpuType
  <2>3. pc \notin Emits
    <3>1. pc \notin Idle + 1 .. LastPc
      BY <1>1, <1>7 DEF Ready
    <3>2. QED
      BY <3>1, Apart
  <2>4. pc' \in {0, 1}
    BY <2>1, <2>2, <2>3, OpRegion, LocalAt
  <2>5. QED
    BY <1>1, <2>4
<1>8. CASE LoadReply /\ ~Ready
  <2>1. pc \in Loads
    BY <1>8 DEF LoadReply, CPU!Loaded, Control, PcFollows
  <2>2. QED
    BY <1>1, <1>8, <2>1, Apart DEF Ready
<1>9. CASE Wake
  <2>1. pc = Idle
    BY <1>9 DEF Wake, CPU!Wake, Control, PcFollows
  <2>2. Idle \in Idle .. LastPc
    BY Regions
  <2>3. QED
    BY <1>2, <2>1, <2>2
<1>10. CASE Relay \/ Probe \/ BusStep \/ PowerOn \/ Pop \/ (\E d \in Data : Push(d))
            \/ (\E m \in Lines : TesterFires(m)) \/ UNCHANGED vars
  <2>1. pc' = pc
    BY <1>10, Zenon
       DEF Relay, CPU!Relayed, Probe, CPU!Proceed, BusStep, WriteIntCtrl, ToDemux,
           ToFifoIn, ToFifoOut, DemuxReply, PowerOn, AssertReset, Pop, Push,
           TesterFires, LineEvent, vars, cpu
  <2>2. QED
    BY <1>4, <2>1
<1>11. QED
  BY <1>3, <1>4, <1>5, <1>6, <1>7, <1>8, <1>9, <1>10 DEF Next, CpuStep

\* A vector on its way to the controller arrives.
LEMMA PostedArrives ==
    ASSUME Control, Traffic, IntcType, VectorsSet, [Next]_vars,
           NEW n \in Lines, VectorPosted(n)
    PROVE  VectorPosted(n)' \/ vectors'[n] = Isr(n)
<1>1. /\ pc = Vector(n) + 1 /\ mmu_st = "route" /\ mmu_req = VectorReq(n)
      /\ mmu_req.base = 1
  BY RequestFields DEF VectorPosted
<1>2. CASE WriteIntCtrl
  <2>1. VectorReq(n) # EnableReq /\ n \in DOMAIN vectors
    <3>1. 4 * n # 4 * NVectors
      BY VectorOffset, Zenon DEF IC!ADDR_INT_CTRL_ENABLE
    <3>2. QED
      BY <3>1, RequestFields, VectorOffset DEF IntcType
  <2>2. PICK m \in Lines : InstallVector(m)
    BY <1>1, <1>2, <2>1, StoreSets DEF EnableLines
  <2>3. 4 * m = 4 * n
    <3>1. VectorReq(m) = VectorReq(n)
      BY <1>1, <2>2, Zenon DEF InstallVector
    <3>2. VectorReq(m).off = 4 * m /\ VectorReq(n).off = 4 * n
      BY RequestFields
    <3>3. QED
      BY <3>1, <3>2, Zenon
  <2>4. m = n
    BY <2>3, LinesAreAll
  <2>5. QED
    BY <2>1, <2>2, <2>4, Zenon DEF InstallVector
<1>3. CASE UNCHANGED mmu
  <2>1. pc' = pc
    <3>1. pc # ADDR_RESET /\ pc # Idle
      <4>1. Vector(n) + 1 \in 3 .. Enable
        BY VectorAddress
      <4>2. QED
        BY <1>1, <4>1, Layout
    <3>2. cst \notin {"cold", "wfi", "load"}
      <4>1. pc \notin Loads
        BY <1>1, NotHandling
      <4>2. QED
        BY <3>1, <4>1 DEF Control, PcFollows
    <3>3. ~ColdBoot /\ ~Wake /\ ~LoadReply
      BY <3>2 DEF ColdBoot, Reset, CPU!TakeReset, Wake, CPU!Wake, LoadReply, CPU!Loaded
    <3>4. ~Execute /\ ~Access
      BY <1>1 DEF Execute, Access, Fetched
    <3>5. QED
      BY <3>3, <3>4, Zenon
         DEF Next, CpuStep, Relay, CPU!Relayed, Probe, CPU!Proceed, BusStep, WriteIntCtrl,
             ToDemux, ToFifoIn, ToFifoOut, DemuxReply, PowerOn, AssertReset, Pop, Push,
             TesterFires, LineEvent, vars, cpu
  <2>2. QED
    BY <1>1, <1>3, <2>1 DEF VectorPosted, mmu
<1>4. CASE Access \/ LoadReply \/ ToDemux \/ DemuxReply
  BY <1>1, <1>4 DEF Access, Fetched, LoadReply, ToDemux, DemuxReply, MMU!Reply, MMU!Answer,
                    ADDR_EXT_MIN
<1>5. CASE ToFifoIn \/ ToFifoOut
  BY <1>3, <1>5 DEF ToFifoIn, ToFifoOut
<1>6. QED
  BY <1>2, <1>3, <1>4, <1>5, QuietSteps DEF Quiet

\* Each vector is installed when the program is past its store.
LEMMA VectorsSetKept ==
    ASSUME Control, Traffic, IntcType, VectorsSet, [Next]_vars
    PROVE  VectorsSet'
<1> SUFFICES ASSUME NEW n \in Lines, pc' \in Vector(n) + 1 .. LastPc
             PROVE  vectors'[n] = Isr(n) \/ VectorPosted(n)'
  BY DEF VectorsSet
<1>1. CASE Access /\ pc = Vector(n)
  <2>1. mmu_st' = "route" /\ pc' = pc + 1 /\ mmu_req' = VectorReq(n)
    <3>1. pc # Trigger /\ pc # Enable /\ pc \notin Loads /\ pc \notin Emits
      BY <1>1, VectorAddress, NotHandling
    <3>2. PICK m \in Lines : pc = Vector(m) /\ pc' = pc + 1 /\ mmu_req' = VectorReq(m)
      BY <1>1, <3>1, Posts
    <3>3. m = n
      <4>1. Vector(m) - Vector(0) = m /\ Vector(n) - Vector(0) = n
        BY VectorAddress
      <4>2. QED
        BY <1>1, <3>2, <4>1, Zenon
    <3>4. QED
      BY <1>1, <3>2, <3>3, Posts
  <2>2. QED
    BY <1>1, <2>1 DEF VectorPosted
<1>2. CASE pc \in Vector(n) + 1 .. LastPc
  <2>1. CASE VectorPosted(n)
    BY <2>1, PostedArrives
  <2>2. CASE vectors[n] = Isr(n)
    <3>1. CASE WriteIntCtrl
      <4>1. CASE EnableLines
        BY <2>2, <4>1 DEF EnableLines
      <4>2. ASSUME NEW m \in Lines, InstallVector(m)
            PROVE  vectors'[n] = Isr(n)
        <5>1. n \in DOMAIN vectors
          BY VectorOffset DEF IntcType
        <5>2. QED
          BY <2>2, <4>2, <5>1, Zenon DEF InstallVector
      <4>3. QED
        BY <3>1, <4>1, <4>2, StoreSets
    <3>2. CASE UNCHANGED intc
      BY <2>2, <3>2 DEF intc
    <3>3. CASE Relay
      <4>1. pc = ADDR_RESET
        BY <3>3 DEF Relay, CPU!Relayed, Control, PcFollows
      <4>2. Vector(n) \in 2 .. Enable - 1
        BY VectorAddress
      <4>3. QED
        BY <1>2, <4>1, <4>2, Layout
    <3>4. CASE Wake
      BY <2>2, <3>4 DEF Wake, IC!Deliver
    <3>5. CASE \E m \in Lines : TesterFires(m)
      BY <2>2, <3>5 DEF TesterFires, LineEvent, IC!Accept
    <3>6. QED
      BY <3>1, <3>2, <3>3, <3>4, <3>5, IntcMoves
  <2>3. QED
    BY <1>2, <2>1, <2>2 DEF VectorsSet
<1>3. QED
  BY <1>1, <1>2, PastVector

-----------------------------------------------------------------------------
(***************************************************************************)
(* The FIFOs.                                                              *)
(***************************************************************************)
InputMove == \/ UNCHANGED fifoIn
             \/ fi_count > 0 /\ FI!Read
             \/ FI!SetTrigger(Unreachable)
             \/ \E d \in Data : FI!Push(d)

\* A store that reaches the input FIFO sets the level out of reach.
LEMMA LevelSet ==
    ASSUME Traffic, ToFifoIn, dmx_req.op # "R"
    PROVE  dmx_req = TriggerReq /\ dmx_st' = "idle" /\ FI!SetTrigger(Unreachable)
<1>1. /\ dmx_st = "route" /\ dmx_req.base = 5 /\ FI!SetTrigger(dmx_req.val)
      /\ dmx_st' = IF Demux!IsRead(dmx_req) THEN "reply" ELSE "idle"
  BY DEF ToFifoIn, Demux!Exchange, ADDR_FIFO_IN
<1>2. dmx_req \in OuterStores
  BY <1>1, RequestFields DEF Traffic, LoadEntering, LoadOutside, LoadBack, OuterStoring
<1>3. dmx_req = TriggerReq /\ dmx_st' = "idle"
  BY <1>1, <1>2, RequestKinds
<1>4. QED
  BY <1>1, <1>3, RequestFields

\* A store that reaches the output FIFO is a result.
LEMMA ResultStored ==
    ASSUME Traffic, ToFifoOut
    PROVE  /\ dmx_st = "route" /\ dmx_st' = "idle" /\ dmx_req.base = 6
           /\ dmx_req.op = "W" /\ dmx_req.val \in Results
           /\ FO!CpuAccess("W", dmx_req.val)
<1>1. /\ dmx_st = "route" /\ dmx_req.base = 6 /\ FO!CpuAccess(dmx_req.op, dmx_req.val)
      /\ dmx_st' = IF Demux!IsRead(dmx_req) THEN "await" ELSE "idle"
  BY DEF ToFifoOut, Demux!Send, ADDR_FIFO_OUT
<1>2. dmx_req \in OuterStores
  BY <1>1, RequestFields DEF Traffic, LoadEntering, LoadOutside, LoadBack, OuterStoring
<1>3. dmx_req \in ResultReqs /\ dmx_req.op = "W" /\ ~Demux!IsRead(dmx_req)
  BY <1>1, <1>2, RequestKinds
<1>4. dmx_req.val \in Results
  BY <1>3, RequestFields DEF ResultReqs
<1>5. QED
  BY <1>1, <1>3, <1>4

\* What the program and the environment do to them.
LEMMA FifoMoves ==
    ASSUME Control, Traffic, NeverFull, Covered, [Next]_vars
    PROVE  InputMove /\ OutputMove
<1> USE DEF InputMove, OutputMove
<1>1. CASE ToFifoIn
  <2>1. UNCHANGED fifoOut
    BY <1>1 DEF ToFifoIn
  <2>2. CASE dmx_req.op = "R"
    BY <1>1, <2>1, <2>2, LoadCovered DEF ToFifoIn
  <2>3. CASE dmx_req.op # "R"
    BY <1>1, <2>1, <2>3, LevelSet
  <2>4. QED
    BY <2>2, <2>3
<1>2. CASE ToFifoOut
  <2>1. UNCHANGED fifoIn
    BY <1>2 DEF ToFifoOut
  <2>2. QED
    BY <1>2, <2>1, ResultStored
<1>3. CASE (\E d \in Data : Push(d)) \/ Pop
  BY <1>3 DEF Push, Pop
<1>4. CASE UNCHANGED vars
  BY <1>4 DEF vars
<1>5. CASE CpuStep \/ WriteIntCtrl \/ ToDemux \/ DemuxReply
  BY <1>5 DEF CpuStep, Probe, Execute, Access, LoadReply, WriteIntCtrl, ToDemux,
              DemuxReply
<1>6. CASE ColdBoot \/ Relay \/ Wake \/ PowerOn \/ \E n \in Lines : TesterFires(n)
  BY <1>6 DEF ColdBoot, Reset, Relay, Wake, PowerOn, AssertReset, TesterFires, LineEvent
<1>7. QED
  BY <1>1, <1>2, <1>3, <1>4, <1>5, <1>6 DEF Next, BusStep

\* The level stays out of reach.
LEMMA NeverFullKept ==
    ASSUME NeverFull, InputMove
    PROVE  NeverFull'
<1>1. fi_count \in 0 .. DEPTH_IN /\ DEPTH_IN \in Nat
  BY InputRegisters DEF NeverFull
<1>2. Unreachable \in Nat /\ Unreachable > DEPTH_IN
  BY LevelAssumption, LevelsAssumption
<1>3. InputOrder'
  <2>1. CASE FI!SetTrigger(Unreachable)
    BY <2>1, InputKept DEF FI!SetTrigger, FI!ring, InputWords, NeverFull
  <2>2. CASE UNCHANGED fifoIn
    BY <2>2, InputKept DEF fifoIn, InputWords, NeverFull
  <2>3. CASE (fi_count > 0 /\ FI!Read) \/ \E d \in Data : FI!Push(d)
    BY <2>3, InputKept DEF InputWords, NeverFull
  <2>4. QED
    BY <2>1, <2>2, <2>3 DEF InputMove
<1>4. CASE UNCHANGED fifoIn
  BY <1>3, <1>4 DEF fifoIn, NeverFull
<1>5. CASE FI!SetTrigger(Unreachable)
  BY <1>3, <1>5 DEF FI!SetTrigger, FI!ring, NeverFull
<1>6. CASE fi_count > 0 /\ FI!Read
  <2>1. /\ fi_count # 0 /\ configured /\ configured' = configured
        /\ trigger_level' = trigger_level /\ trigger_level = Unreachable
    BY <1>1, <1>6 DEF FI!Read, NeverFull
  <2>2. /\ armed' = FI!Rearmed(reads_since_fire') /\ fi_count' = fi_count - 1
        /\ fi_st' = FI!NextState(armed', fi_count')
    BY <1>6, <2>1, Zenon DEF FI!Read
  <2>3. armed' = TRUE
    BY <2>2 DEF FI!Rearmed, NeverFull
  <2>4. fi_st' = "select"
    BY <1>1, <1>2, <2>1, <2>2 DEF FI!NextState
  <2>5. QED
    BY <1>3, <2>1, <2>3, <2>4 DEF NeverFull
<1>7. ASSUME NEW d \in Data, FI!Push(d)
      PROVE  NeverFull'
  <2>1. /\ configured /\ configured' = configured /\ armed' = armed
        /\ trigger_level' = trigger_level /\ trigger_level = Unreachable
        /\ fi_count' = fi_count + 1 /\ fi_count < DEPTH_IN
        /\ fi_st' = FI!NextState(armed, fi_count')
    BY <1>7 DEF FI!Push, NeverFull
  <2>2. fi_st' = "select"
    BY <1>1, <1>2, <2>1 DEF FI!NextState
  <2>3. QED
    BY <1>3, <2>1, <2>2 DEF NeverFull
<1>8. QED
  BY <1>4, <1>5, <1>6, <1>7 DEF InputMove

(***************************************************************************)
(* What a step does to the claims and to the words: it keeps them, pushes  *)
(* a word, claims one, hands a claim on to the handler, or loads a word.   *)
(***************************************************************************)
SameWords == UNCHANGED <<fi_buf, fi_head, fi_tail, fi_count>>

KeepsClaims == /\ UNCHANGED holding /\ LoadPending' = LoadPending
               /\ SameWords \/ \E d \in Data : FI!Push(d)

ClaimsWord == /\ \E n \in Lines : TesterFires(n)
              /\ holding = NoLine /\ holding' \in Lines
              /\ LoadPending' = LoadPending /\ SameWords

HandsOver == /\ Wake /\ holding \in Lines /\ holding' = NoLine
             /\ ~LoadPending /\ LoadPending' /\ SameWords

LoadsWord == /\ ToFifoIn /\ dmx_req.op = "R"
             /\ LoadPending /\ ~LoadPending' /\ UNCHANGED holding
             /\ fi_count > 0 /\ FI!Read

\* Only a load is answered.
LEMMA NoReply == Traffic /\ cst # "load" => "reply" \notin {mmu_st, dmx_st}
BY DEF Traffic, CoreStoring, OuterStoring

\* Instructions that stay in the core are outside the loads, before and after.
LEMMA LocalOutside ==
    ASSUME Control, Execute
    PROVE  /\ UNCHANGED <<mmu, demux, intc, fifoIn, fifoOut>>
           /\ pc' = pc \/ (pc \notin Loads /\ pc' \notin Loads)
<1>1. CASE CPU!ExecWfi
  BY <1>1 DEF Execute, CPU!ExecWfi
<1>2. CASE CPU!ExecLocal
  <2>1. Code[pc].op = "local" /\ pc' = Code[pc].next /\ pc \in Addresses
    BY <1>2 DEF CPU!ExecLocal, CPU!At, CPU!Step, Control, CpuType
  <2>2. pc \in {0, ADDR_RESET} /\ pc' \in {0, 1}
    BY <2>1, OpRegion, LocalAt
  <2>3. Trigger = 1
    BY Layout
  <2>4. pc \notin Loads /\ pc' \notin Loads
    BY <2>2, <2>3, NotHandling
  <2>5. QED
    BY <2>4 DEF Execute
<1>3. CASE CPU!ExecSkip
  <2>1. Code[pc].op = "emit" /\ pc' = Code[pc].next /\ pc \in Addresses
    BY <1>3 DEF CPU!ExecSkip, CPU!Filtered, CPU!At, CPU!Step, Control, CpuType
  <2>2. pc \in Emits /\ pc' = Idle
    BY <2>1, OpRegion, HandlerAt
  <2>3. QED
    BY <2>2, Apart, NotHandling DEF Execute
<1>4. QED
  BY <1>1, <1>2, <1>3 DEF Execute

\* Every step does one of these.
LEMMA ClaimMoves ==
    ASSUME Control, Traffic, IntcType, VectorsSet, NeverFull, Covered, [Next]_vars
    PROVE  KeepsClaims \/ ClaimsWord \/ HandsOver \/ LoadsWord
<1>1. CASE Access
  <2>1. pc \in Loads <=> pc' \in Loads
    BY <1>1, Posts, NotHandling, Apart, Layout, Zenon
  <2>2. "reply" \notin {mmu_st, dmx_st} /\ "reply" \notin {mmu_st', dmx_st'}
    BY <1>1, Posts, NoReply DEF demux
  <2>3. UNCHANGED <<holding, fi_buf, fi_head, fi_tail, fi_count>>
    BY <1>1, Posts DEF intc, fifoIn
  <2>4. QED
    BY <2>1, <2>2, <2>3 DEF KeepsClaims, SameWords, LoadPending
<1>2. CASE LoadReply
  <2>1. mmu_st = "reply" /\ pc \in Loads /\ pc' = Code[pc].next
        /\ UNCHANGED <<holding, fi_buf, fi_head, fi_tail, fi_count>>
    BY <1>2 DEF LoadReply, MMU!Reply, CPU!Loaded, CPU!Step, Control, PcFollows, intc, fifoIn
  <2>2. pc' \notin Loads
    BY <2>1, HandlerAt, Apart, NotHandling, Zenon
  <2>3. QED
    BY <2>1, <2>2 DEF KeepsClaims, SameWords, LoadPending
<1>3. CASE WriteIntCtrl \/ ToDemux
  <2>1. /\ pc' = pc /\ mmu_st = "route" /\ mmu_st' \in {"await", "idle"}
        /\ UNCHANGED <<fi_buf, fi_head, fi_tail, fi_count>>
    BY <1>3 DEF WriteIntCtrl, ToDemux, MMU!Send, cpu, fifoIn
  <2>2. dmx_st' = dmx_st \/ (dmx_st = "idle" /\ dmx_st' = "route")
    BY <1>3 DEF WriteIntCtrl, ToDemux, Demux!Take, demux
  <2>3. holding' = holding
    BY <1>3 DEF WriteIntCtrl, ToDemux, intc, IC!WriteRegister, IC!WriteEnable, IC!WriteVector
  <2>4. QED
    BY <2>1, <2>2, <2>3 DEF KeepsClaims, SameWords, LoadPending
<1>4. CASE ToFifoIn
  <2>1. dmx_st = "route" /\ UNCHANGED <<pc, mmu_st, holding>>
    BY <1>4 DEF ToFifoIn, Demux!Exchange, cpu, mmu, intc
  <2>2. CASE dmx_req.op = "R"
    <3>1. LoadPending /\ fi_count > 0 /\ FI!Read
      BY <1>4, <2>2, LoadCovered DEF ToFifoIn
    <3>2. dmx_st' = "reply"
      BY <1>4, <2>2 DEF ToFifoIn, Demux!Exchange, Demux!IsRead
    <3>3. QED
      BY <1>4, <2>1, <2>2, <3>1, <3>2 DEF LoadsWord, LoadPending
  <2>3. CASE dmx_req.op # "R"
    <3>1. dmx_st' = "idle" /\ UNCHANGED <<fi_buf, fi_head, fi_tail, fi_count>>
      BY <1>4, <2>3, LevelSet DEF FI!SetTrigger, FI!ring
    <3>2. QED
      BY <2>1, <3>1 DEF KeepsClaims, SameWords, LoadPending
  <2>4. QED
    BY <2>2, <2>3
<1>5. CASE ToFifoOut
  <2>1. /\ dmx_st = "route" /\ dmx_st' = "idle"
    BY <1>5, ResultStored
  <2>2. UNCHANGED <<pc, mmu_st, holding, fi_buf, fi_head, fi_tail, fi_count>>
    BY <1>5 DEF ToFifoOut, cpu, mmu, intc, fifoIn
  <2>3. QED
    BY <2>1, <2>2 DEF KeepsClaims, SameWords, LoadPending
<1>6. CASE DemuxReply
  <2>1. /\ dmx_st = "reply" /\ mmu_st' = "reply"
        /\ UNCHANGED <<holding, fi_buf, fi_head, fi_tail, fi_count>>
    BY <1>6 DEF DemuxReply, Demux!Reply, MMU!Answer, intc, fifoIn
  <2>2. QED
    BY <2>1 DEF KeepsClaims, SameWords, LoadPending
<1>7. CASE Execute
  <2>1. UNCHANGED <<mmu_st, dmx_st, holding, fi_buf, fi_head, fi_tail, fi_count>>
    BY <1>7, LocalOutside DEF mmu, demux, intc, fifoIn
  <2>2. QED
    BY <1>7, <2>1, LocalOutside DEF KeepsClaims, SameWords, LoadPending
<1>8. CASE Wake
  <2>1. /\ cst = "wfi" /\ holding # NoLine /\ holding' = NoLine /\ pc' = IC!Target
        /\ UNCHANGED <<mmu_st, dmx_st, fi_buf, fi_head, fi_tail, fi_count>>
    BY <1>8 DEF Wake, CPU!Wake, IC!Deliver, IC!Selecting, mmu, demux, fifoIn
  <2>2. pc = Idle /\ holding \in Lines /\ pc' = Isr(holding)
    BY <2>1, WokenAtHandler
  <2>3. pc' \in Loads /\ pc \notin Loads
    BY <2>2, LineOfHandler, NotHandling
  <2>4. "reply" \notin {mmu_st, dmx_st}
    BY <2>1, NoReply
  <2>5. QED
    BY <1>8, <2>1, <2>2, <2>3, <2>4 DEF HandsOver, SameWords, LoadPending
<1>9. ASSUME NEW n \in Lines, TesterFires(n)
      PROVE  ClaimsWord
  BY <1>9, Zenon
     DEF TesterFires, LineEvent, IC!Accept, IC!Selecting, ClaimsWord, SameWords,
         LoadPending, cpu, mmu, demux, fifoIn
<1>10. ASSUME NEW d \in Data, Push(d)
       PROVE  KeepsClaims
  BY <1>10, Zenon
     DEF Push, KeepsClaims, LoadPending, cpu, mmu, demux, intc
<1>11. CASE ColdBoot
  <2>1. pc' = pc /\ UNCHANGED <<mmu, demux, intc, fifoIn>>
    BY <1>11 DEF ColdBoot, Reset, CPU!TakeReset, Control, PcFollows
  <2>2. QED
    BY <2>1 DEF KeepsClaims, SameWords, LoadPending, mmu, demux, intc, fifoIn
<1>12. CASE Relay \/ Probe \/ PowerOn \/ Pop \/ UNCHANGED vars
  <2>1. pc' = pc /\ UNCHANGED <<mmu_st, dmx_st, holding, fi_buf, fi_head, fi_tail, fi_count>>
    BY <1>12, Zenon
       DEF Relay, CPU!Relayed, IC!ResetIntCtrl, Probe, CPU!Proceed, PowerOn, AssertReset, Pop,
           vars, cpu, mmu, demux, intc, fifoIn
  <2>2. QED
    BY <2>1 DEF KeepsClaims, SameWords, LoadPending
<1>13. QED
  BY <1>1, <1>2, <1>3, <1>4, <1>5, <1>6, <1>7, <1>8, <1>9, <1>10, <1>11, <1>12
     DEF Next, CpuStep, BusStep

\* Every claimed word is there.
LEMMA CoveredKept ==
    ASSUME IntcType, NeverFull, Covered,
           KeepsClaims \/ ClaimsWord \/ HandsOver \/ LoadsWord
    PROVE  Covered'
<1>1. fi_count \in Nat /\ Claims \in 0 .. 2 /\ Claims <= fi_count /\ NoLine \notin Lines
  BY InputRegisters, ClaimsAre, LinesAssumption DEF NeverFull, Covered
<1>2. CASE KeepsClaims
  <2>1. Claims' = Claims
    BY <1>2 DEF KeepsClaims, Claims
  <2>2. fi_count' = fi_count \/ fi_count' = fi_count + 1
    BY <1>2 DEF KeepsClaims, SameWords, FI!Push
  <2>3. QED
    BY <1>1, <2>1, <2>2 DEF Covered
<1>3. CASE ClaimsWord
  <2>1. Claims < fi_count /\ fi_count' = fi_count
    BY <1>3 DEF ClaimsWord, TesterFires, SameWords
  <2>2. Claims' = Claims + 1
    BY <1>1, <1>3 DEF ClaimsWord, Claims
  <2>3. QED
    BY <1>1, <2>1, <2>2 DEF Covered
<1>4. CASE HandsOver
  <2>1. Claims' = Claims /\ fi_count' = fi_count
    BY <1>1, <1>4 DEF HandsOver, Claims, SameWords
  <2>2. QED
    BY <1>1, <2>1 DEF Covered
<1>5. CASE LoadsWord
  <2>1. Claims' = Claims - 1 /\ fi_count' = fi_count - 1
    BY <1>5, ReadTakes DEF LoadsWord, Claims, NeverFull
  <2>2. QED
    BY <1>1, <2>1 DEF Covered
<1>6. QED
  BY <1>2, <1>3, <1>4, <1>5

-----------------------------------------------------------------------------
(***************************************************************************)
(* The invariant.                                                          *)
(***************************************************************************)
\* It holds at the start.
LEMMA InitInv == Init => IInv
<1> SUFFICES ASSUME Init PROVE IInv
  OBVIOUS
<1>1. pc = ADDR_RESET /\ cst = "cold" /\ v = << >>
  BY DEF Init, CPU!Init
<1>2. Control
  BY <1>1, NotHandling, EmptySeq DEF Control, CpuType, PcFollows, Carried
<1>3. Traffic
  BY <1>1 DEF Init, Traffic, CoreStoring, OuterStoring
<1>4. IntcType
  BY DEF Init, IC!IntCtrlInit, IntcType
<1>5. VectorsSet
  <2>1. ASSUME NEW n \in Lines
        PROVE  pc \notin Vector(n) + 1 .. LastPc
    <3>1. Vector(n) \in 2 .. Enable - 1
      BY VectorAddress
    <3>2. QED
      BY <1>1, <3>1, Layout
  <2>2. QED
    BY <2>1 DEF VectorsSet
<1>6. EnabledLate
  BY DEF Init, IC!IntCtrlInit, EnabledLate
<1>7. NeverFull
  BY CapacityAssumption
     DEF Init, FI!Init, NeverFull, InputOrder, FI!RingType, FI!RingConsistent, FI!Index
<1>8. Covered
  <2>1. holding = NoLine /\ pc \notin Loads /\ fi_count = 0
    BY <1>1, NotHandling DEF Init, IC!IntCtrlInit, FI!Init
  <2>2. Claims = 0
    BY <2>1, ClaimsAre DEF LoadPending
  <2>3. QED
    BY <2>1, <2>2 DEF Covered
<1>9. OutputFifo
  BY CapacityAssumption DEF Init, FO!FifoOutInit, OutputFifo, FO!FifoOutTypeOK, FO!Index
<1>10. QED
  BY <1>2, <1>3, <1>4, <1>5, <1>6, <1>7, <1>8, <1>9, OutputRingInit DEF IInv

\* Every step keeps it.
LEMMA StepInv == IInv /\ [Next]_vars => IInv'
<1> SUFFICES ASSUME IInv, [Next]_vars PROVE IInv'
  OBVIOUS
<1> USE DEF IInv
<1>1. Control'
  BY CpuMoves, ControlKept
<1>2. Traffic'
  BY TrafficKept
<1>3. IntcType' /\ VectorsSet' /\ EnabledLate'
  BY IntcTyped, VectorsSetKept, EnabledLateKept
<1>4. InputMove /\ OutputMove
  BY FifoMoves
<1>5. NeverFull'
  BY <1>4, NeverFullKept
<1>6. Covered'
  BY ClaimMoves, CoveredKept
<1>7. OutputFifo' /\ OutputRing'
  BY <1>4, OutputKept, OutputRingKept
<1>8. QED
  BY <1>1, <1>2, <1>3, <1>5, <1>6, <1>7

\* The chip running the multi-event program keeps to it: in particular a
\* line is enabled only with its vector installed, the input FIFO never
\* reaches its level, and no load finds it empty.
THEOREM InvCorrect == Spec => []IInv
<1>1. Init => IInv
  BY InitInv
<1>2. IInv /\ [Next]_vars => IInv'
  BY StepInv
<1>3. QED
  BY <1>1, <1>2, PTL DEF Spec
-----------------------------------------------------------------------------
(***************************************************************************)
(* The words and the results of TaggedPath.                                *)
(*                                                                         *)
(* The results that have left the CPU, and the word its handler is at,     *)
(* from where it is still in the input FIFO to where its result is stored. *)
(***************************************************************************)
DemuxPosts == Posted(dmx_st, dmx_req)
MmuPosts   == Posted(mmu_st, mmu_req)

Outside == FO!Contents \o DemuxPosts \o MmuPosts

Hand == IF pc \in Emits THEN v[1]
        ELSE IF mmu_st = "reply" THEN mmu_rdata
        ELSE IF dmx_st = "reply" THEN dmx_rdata
        ELSE FI!Contents[1]

InHand == IF pc \in Loads \cup Emits THEN <<Hand + (LineOf(pc) + 1)>> ELSE << >>

\* What is owed is outside, in hand, or held.
LEMMA OwedParts == Owed = (Outside \o Made) \o Held
BY DEF Owed, Outside, DemuxPosts, MmuPosts

\* The result of one word.
LEMMA TaggedOne ==
    ASSUME NEW d \in Data, NEW n \in Lines
    PROVE  Tagged(<<d>>, n) = <<d + (n + 1)>> /\ d + (n + 1) \in Results
<1>1. PICK r \in Results : r = d + (n + 1)
  BY SumsAssumption, Zenon
<1> DEFINE one == <<d>>
           f == [i \in 1 .. 1 |-> one[i] + (n + 1)]
           g == <<r>>
<1>2. Len(one) = 1 /\ one[1] = d
  OBVIOUS
<1>3. Tagged(one, n) = f
  BY <1>2, Zenon DEF Tagged
<1>4. f \in [1 .. 1 -> Results] /\ f[1] = r
  <2>1. \A i \in 1 .. 1 : i = 1
    OBVIOUS
  <2>2. \A i \in 1 .. 1 : one[i] + (n + 1) = r
    BY <1>1, <1>2, <2>1, Zenon
  <2> HIDE DEF one
  <2>3. QED
    BY <2>2
<1>5. g \in Seq(Results) /\ Len(g) = 1 /\ g[1] = r
  OBVIOUS
<1> HIDE DEF f, g
<1>6. f \in Seq(Results) /\ Len(f) = 1
  <2>1. f \in Seq(Results)
    BY <1>4, SeqDef
  <2>2. QED
    BY <1>4, <2>1, LenProperties
<1>7. f = g
  <2>1. \A i \in 1 .. 1 : f[i] = g[i]
    BY <1>4, <1>5
  <2>2. QED
    BY <1>5, <1>6, <2>1, SeqEqual
<1>8. QED
  BY <1>1, <1>3, <1>7 DEF g

\* The words of the input FIFO, as a sequence that holds every claimed one.
LEMMA WordsAre ==
    ASSUME IInv
    PROVE  /\ FI!Contents \in Seq(Data) /\ Len(FI!Contents) = fi_count
           /\ fi_count \in Nat /\ Claims \in Nat /\ Claims <= fi_count
           /\ Unclaimed = Beyond(FI!Contents, Claims)
           /\ fi_count > 0 => FI!Contents[1] \in Data /\ FI!Contents[1] = FI!Front
<1>1. InputOrder /\ Claims <= fi_count
  BY DEF IInv, NeverFull, Covered
<1>2. FI!Contents \in Seq(Data)
  BY <1>1, InputSeq
<1>3. fi_count \in Nat /\ Claims \in Nat
  BY <1>1, InputRegisters, ClaimsAre
<1>4. Len(FI!Contents) = fi_count
  BY <1>1, InputRegisters, InputWindow, WindowSeq
<1>5. Unclaimed = Beyond(FI!Contents, Claims)
  BY <1>4 DEF Unclaimed, Beyond
<1>6. ASSUME fi_count > 0
      PROVE  FI!Contents[1] \in Data /\ FI!Contents[1] = FI!Front
  <2>1. FI!Contents[1] = fi_buf[FI!Offset(0)]
    <3>1. 1 \in 1 .. fi_count /\ 1 - 1 = 0
      BY <1>3, <1>6
    <3>2. FI!Contents[1] = fi_buf[FI!Offset(1 - 1)]
      BY <3>1, Zenon DEF FI!Contents
    <3>3. QED
      BY <3>1, <3>2
  <2>2. FI!Offset(0) = fi_head
    BY <1>1, InputRegisters DEF FI!Offset
  <2>3. QED
    BY <1>1, <1>6, <2>1, <2>2, FrontTyped DEF FI!Front
<1>7. QED
  BY <1>1, <1>2, <1>3, <1>4, <1>5, <1>6

\* A load brings the front of the FIFO to the handler, one router at a time.
LEMMA RunningIs ==
    ASSUME IInv, pc \in Loads \cup Emits
    PROVE  Running = <<Hand>> /\ Hand \in Data
<1>1. Control /\ Traffic /\ InputOrder /\ v \in Seq(Data)
  BY DEF IInv, NeverFull, Control, CpuType
<1>2. << >> \in Seq(Data) /\ Len(<< >>) = 0
  BY EmptySeq
<1>3. \A d \in Data, s \in Seq(Data) :
          << >> \o <<d>> = <<d>> /\ s \o << >> = s /\ <<d>> \in Seq(Data)
  BY ConcatEmptySeq
<1>4. CASE pc \in Emits
  <2>1. v = <<v[1]>> /\ v[1] \in Data
    BY <1>1, <1>4, WordCarried
  <2>2. pc \notin Loads /\ cst # "load"
    BY <1>1, <1>4, Apart DEF Control, PcFollows
  <2>3. mmu_st # "reply" /\ dmx_st # "reply"
    BY <1>1, <2>2, NoReply
  <2>4. Running = v \o << >> \o << >> \o << >>
    BY <2>2, <2>3 DEF Running, Returning, LoadPending
  <2>5. v \o << >> = v
    BY <1>1, ConcatEmptySeq
  <2>6. Hand = v[1]
    BY <1>4 DEF Hand
  <2>7. QED
    BY <2>1, <2>4, <2>5, <2>6
<1>5. CASE pc \in Loads
  <2>1. pc \notin Emits /\ v = << >>
    <3>1. pc \notin Emits
      BY <1>5, Apart
    <3>2. Len(v) = 0
      BY <1>1, <3>1 DEF Control, Carried
    <3>3. QED
      BY <1>1, <3>1, <3>2, EmptySeq
  <2>2. CASE mmu_st = "reply"
    <3>1. dmx_st = "idle" /\ mmu_rdata \in Data
      BY <1>1, <2>2 DEF Traffic, LoadEntering, LoadOutside, LoadBack, CoreStoring
    <3>2. Running = << >> \o <<mmu_rdata>> \o << >> \o << >>
      BY <2>1, <2>2, <3>1 DEF Running, Returning, LoadPending
    <3>3. Hand = mmu_rdata
      BY <2>1, <2>2 DEF Hand
    <3>4. QED
      BY <1>3, <3>1, <3>2, <3>3
  <2>3. CASE mmu_st # "reply" /\ dmx_st = "reply"
    <3>1. dmx_rdata \in Data
      BY <1>1, <2>3 DEF Traffic, LoadEntering, LoadOutside, LoadBack, OuterStoring
    <3>2. Running = << >> \o << >> \o <<dmx_rdata>> \o << >>
      BY <2>1, <2>3 DEF Running, Returning, LoadPending
    <3>3. Hand = dmx_rdata
      BY <2>1, <2>3 DEF Hand
    <3>4. QED
      BY <1>2, <1>3, <3>1, <3>2, <3>3
  <2>4. CASE mmu_st # "reply" /\ dmx_st # "reply"
    <3>1. LoadPending
      BY <1>5, <2>4 DEF LoadPending
    <3>2. Claims \in {1, 2}
      BY <3>1, ClaimsAre
    <3>3. fi_count > 0
      BY <3>2, WordsAre
    <3>4. FI!Contents[1] \in Data /\ FI!Contents[1] = FI!Front
      BY <3>3, WordsAre
    <3>5. Running = << >> \o << >> \o << >> \o <<FI!Front>>
      BY <2>1, <2>4, <3>1 DEF Running, Returning, FI!Front
    <3>6. Hand = FI!Contents[1]
      BY <2>1, <2>4 DEF Hand
    <3>7. QED
      BY <1>2, <1>3, <3>4, <3>5, <3>6
  <2>5. QED
    BY <2>2, <2>3, <2>4
<1>6. QED
  BY <1>4, <1>5

\* Its line's handler makes one result of it.
LEMMA HandIs == IInv => Made = InHand /\ InHand \in Seq(Results)
<1> SUFFICES ASSUME IInv PROVE Made = InHand /\ InHand \in Seq(Results)
  OBVIOUS
<1>1. CASE pc \in Loads \cup Emits
  <2>1. Running = <<Hand>> /\ Hand \in Data
    BY <1>1, RunningIs
  <2>2. PICK n \in Lines : pc = Isr(n) \/ pc = Isr(n) + 1
    BY <1>1 DEF Loads, Emits
  <2>3. LineOf(pc) \in Lines
    BY <2>2, LineOfHandler
  <2>4. /\ Tagged(<<Hand>>, LineOf(pc)) = <<Hand + (LineOf(pc) + 1)>>
        /\ Hand + (LineOf(pc) + 1) \in Results
    BY <2>1, <2>3, TaggedOne
  <2>5. Made = <<Hand + (LineOf(pc) + 1)>> /\ InHand = <<Hand + (LineOf(pc) + 1)>>
    BY <1>1, <2>1, <2>4 DEF Made, InHand
  <2>6. \A r \in Results : <<r>> \in Seq(Results)
    OBVIOUS
  <2>7. QED
    BY <2>4, <2>5, <2>6, Zenon
<1>2. CASE pc \notin Loads \cup Emits
  BY <1>2, EmptySeq DEF Made, InHand
<1>3. QED
  BY <1>1, <1>2

\* The held line's handler will make one of the last word claimed.
LEMMA HeldIs ==
    IInv => /\ holding = NoLine => Held = << >>
            /\ holding # NoLine =>
                 /\ Claims > 0 /\ FI!Contents[Claims] \in Data /\ holding \in Lines
                 /\ Held = <<FI!Contents[Claims] + (holding + 1)>>
            /\ Held \in Seq(Results)
<1> SUFFICES ASSUME IInv
             PROVE  /\ holding = NoLine => Held = << >>
                    /\ holding # NoLine =>
                         /\ Claims > 0 /\ FI!Contents[Claims] \in Data /\ holding \in Lines
                         /\ Held = <<FI!Contents[Claims] + (holding + 1)>>
                    /\ Held \in Seq(Results)
  OBVIOUS
<1>1. CASE holding # NoLine
  <2>1. Claims \in {1, 2}
    BY <1>1, ClaimsAre
  <2>2. Claims \in 1 .. Len(FI!Contents) /\ FI!Contents \in Seq(Data)
    BY <2>1, WordsAre
  <2>3. FI!Contents[Claims] \in Data
    BY <2>2, ElementOfSeq
  <2>4. holding \in Lines
    BY <1>1 DEF IInv, IntcType
  <2>5. PICK r \in Results : r = FI!Contents[Claims] + (holding + 1)
    BY <2>3, <2>4, SumsAssumption, Zenon
  <2>6. Tagged(<<FI!Contents[Claims]>>, holding) = <<r>>
    BY <2>3, <2>4, <2>5, TaggedOne
  <2>7. Held = <<r>>
    BY <1>1, <2>6 DEF Held
  <2>8. <<r>> \in Seq(Results)
    OBVIOUS
  <2>9. QED
    BY <1>1, <2>1, <2>3, <2>4, <2>5, <2>7, <2>8
<1>2. CASE holding = NoLine
  BY <1>2, EmptySeq DEF Held
<1>3. QED
  BY <1>1, <1>2

(***************************************************************************)
(* What the steps of the claims do to the words nobody has claimed and to  *)
(* the result of the held line.                                            *)
(***************************************************************************)
\* Other steps do nothing to them.
LEMMA WordsKept ==
    ASSUME KeepsClaims, SameWords
    PROVE  FI!Contents' = FI!Contents /\ Unclaimed' = Unclaimed /\ Held' = Held
<1>1. FI!Contents' = FI!Contents
  BY InputKeeps DEF SameWords
<1>2. Claims' = Claims /\ holding' = holding /\ fi_count' = fi_count
  BY DEF KeepsClaims, SameWords, Claims
<1>3. QED
  BY <1>1, <1>2 DEF Unclaimed, Held

\* A push brings an unclaimed word.
LEMMA WordPushed ==
    ASSUME IInv, KeepsClaims, NEW d \in Data, FI!Push(d)
    PROVE  /\ Unclaimed' = Append(Unclaimed, d) /\ Held' = Held
           /\ fi_count > 0 => FI!Contents'[1] = FI!Contents[1]
<1> DEFINE W == FI!Contents
           k == Claims
           n == fi_count
<1>1. W' = Append(W, d)
  BY InputPuts DEF IInv, NeverFull
<1>2. Claims' = Claims /\ holding' = holding /\ fi_count' = fi_count + 1
  BY DEF KeepsClaims, Claims, FI!Push
<1>3. W \in Seq(Data) /\ Len(W) = n /\ n \in Nat /\ k \in Nat /\ k <= n /\ Unclaimed = Beyond(W, k)
  BY WordsAre
<1>4. Unclaimed' = SubSeq(Append(W, d), k + 1, n + 1)
  BY <1>1, <1>2 DEF Unclaimed
<1>5. Held' = IF holding = NoLine THEN << >> ELSE Tagged(<<Append(W, d)[k]>>, holding)
  BY <1>1, <1>2 DEF Held
<1>6. Held = IF holding = NoLine THEN << >> ELSE Tagged(<<W[k]>>, holding)
  BY DEF Held
<1>7. holding # NoLine => k > 0
  BY HeldIs
<1> HIDE DEF W, k, n
<1>8. Len(Append(W, d)) = n + 1
  BY <1>3, AppendProperties
<1>9. /\ Beyond(Append(W, d), k) = Append(Beyond(W, k), d)
      /\ \A i \in 1 .. n : Append(W, d)[i] = W[i]
  BY <1>3, BeyondAppend
<1>10. Unclaimed' = Append(Unclaimed, d)
  BY <1>3, <1>4, <1>8, <1>9 DEF Beyond
<1>11. Held' = Held
  <2>1. holding # NoLine => k \in 1 .. n
    BY <1>3, <1>7
  <2>2. QED
    BY <1>5, <1>6, <1>9, <2>1
<1>12. n > 0 => Append(W, d)[1] = W[1]
  BY <1>3, <1>9
<1>13. QED
  BY <1>1, <1>10, <1>11, <1>12 DEF W, n

\* An event takes the oldest unclaimed word.
LEMMA WordClaimed ==
    ASSUME IInv, NEW n \in Lines, TesterFires(n), ClaimsWord
    PROVE  /\ Unclaimed # << >> /\ Unclaimed' = Tail(Unclaimed)
           /\ Held = << >> /\ Held' = <<Head(Unclaimed) + (n + 1)>>
           /\ Head(Unclaimed) + (n + 1) \in Results
           /\ FI!Contents' = FI!Contents
<1> DEFINE W == FI!Contents
           k == Claims
<1>1. Claims < fi_count /\ holding' = n
  BY DEF TesterFires, LineEvent, IC!Accept
<1>2. W' = W /\ fi_count' = fi_count
  BY InputKeeps DEF ClaimsWord, SameWords
<1>3. NoLine \notin Lines
  BY LinesAssumption
<1>4. Claims' = Claims + 1
  <2>1. holding = NoLine /\ holding' # NoLine /\ LoadPending' = LoadPending
    BY <1>3 DEF ClaimsWord
  <2>2. QED
    BY <2>1 DEF Claims
<1>5. W \in Seq(Data) /\ Len(W) = fi_count /\ fi_count \in Nat /\ k \in Nat
      /\ Unclaimed = Beyond(W, k)
  BY WordsAre
<1>6. Unclaimed' = SubSeq(W, (k + 1) + 1, fi_count)
  BY <1>2, <1>4 DEF Unclaimed
<1>7. Held' = Tagged(<<W[k + 1]>>, n)
  BY <1>1, <1>2, <1>3, <1>4 DEF Held
<1>8. Held = << >>
  BY DEF Held, ClaimsWord
<1>9. k < Len(W)
  BY <1>1, <1>5
<1> HIDE DEF W, k
<1>10. /\ Beyond(W, k) # << >> /\ Head(Beyond(W, k)) = W[k + 1]
       /\ Tail(Beyond(W, k)) = Beyond(W, k + 1)
  BY <1>5, <1>9, BeyondLoses
<1>11. Unclaimed' = Tail(Unclaimed)
  BY <1>5, <1>6, <1>10 DEF Beyond
<1>12. W[k + 1] \in Data
  <2>1. k + 1 \in 1 .. Len(W)
    BY <1>5, <1>9
  <2>2. QED
    BY <1>5, <2>1, ElementOfSeq
<1>13. /\ Tagged(<<W[k + 1]>>, n) = <<W[k + 1] + (n + 1)>>
       /\ W[k + 1] + (n + 1) \in Results
  BY <1>12, TaggedOne
<1>14. QED
  BY <1>2, <1>5, <1>7, <1>8, <1>10, <1>11, <1>13, Zenon DEF W

\* The CPU that wakes takes over the only claim there is.
LEMMA ClaimHanded ==
    ASSUME IInv, HandsOver
    PROVE  /\ Unclaimed' = Unclaimed /\ FI!Contents' = FI!Contents
           /\ Held = <<FI!Contents[1] + (holding + 1)>> /\ Held' = << >>
<1>1. FI!Contents' = FI!Contents /\ fi_count' = fi_count
  BY InputKeeps DEF HandsOver, SameWords
<1>2. NoLine \notin Lines
  BY LinesAssumption
<1>3. Claims = 1 /\ Claims' = 1
  BY <1>2 DEF HandsOver, Claims
<1>4. Held = <<FI!Contents[1] + (holding + 1)>>
  BY <1>2, <1>3, HeldIs DEF HandsOver
<1>5. Held' = << >>
  BY DEF Held, HandsOver
<1>6. QED
  BY <1>1, <1>3, <1>4, <1>5 DEF Unclaimed

\* A load takes a claimed word, and the claims move up with the words.
LEMMA WordLoaded ==
    ASSUME IInv, LoadsWord
    PROVE  Unclaimed' = Unclaimed /\ Held' = Held
<1> DEFINE W == FI!Contents
           n == fi_count
<1>1. W' = Tail(W) /\ fi_count' = fi_count - 1
  BY InputGets, ReadTakes DEF LoadsWord, IInv, NeverFull
<1>2. PICK j \in {0, 1} : Claims' = j /\ Claims = j + 1 /\ (holding # NoLine => j = 1)
  BY DEF LoadsWord, Claims
<1>3. holding' = holding
  BY DEF LoadsWord
<1>4. /\ W \in Seq(Data) /\ Len(W) = n /\ n \in Nat /\ j + 1 <= n
      /\ Unclaimed = Beyond(W, j + 1)
  BY <1>2, WordsAre
<1>5. Unclaimed' = SubSeq(Tail(W), j + 1, n - 1)
  BY <1>1, <1>2 DEF Unclaimed
<1>6. Held' = IF holding = NoLine THEN << >> ELSE Tagged(<<Tail(W)[j]>>, holding)
  BY <1>1, <1>2, <1>3 DEF Held
<1>7. Held = IF holding = NoLine THEN << >> ELSE Tagged(<<W[j + 1]>>, holding)
  BY <1>2 DEF Held
<1> HIDE DEF W, n
<1>8. j \in Nat /\ j < Len(W)
  BY <1>4
<1>9. Beyond(Tail(W), j) = Beyond(W, j + 1) /\ \A i \in 1 .. j : Tail(W)[i] = W[i + 1]
  BY <1>4, <1>8, BeyondTail
<1>10. Len(Tail(W)) = n - 1
  <2>1. W # << >>
    BY <1>4, <1>8, EmptySeq
  <2>2. QED
    BY <1>4, <2>1, HeadTailProperties
<1>11. Unclaimed' = Unclaimed
  BY <1>4, <1>5, <1>9, <1>10 DEF Beyond
<1>12. Held' = Held
  <2>1. CASE holding = NoLine
    BY <1>6, <1>7, <2>1, Zenon
  <2>2. CASE holding # NoLine
    <3>1. j = 1 /\ j \in 1 .. j
      BY <1>2, <2>2
    <3>2. Tail(W)[j] = W[j + 1]
      BY <1>9, <3>1, Zenon
    <3>3. QED
      BY <1>6, <1>7, <3>2, Zenon
  <2>3. QED
    BY <2>1, <2>2
<1>13. QED
  BY <1>11, <1>12

-----------------------------------------------------------------------------
(***************************************************************************)
(* What the steps do to the results outside and to the one in hand.        *)
(***************************************************************************)
\* The pieces are sequences of results.
LEMMA PiecesTyped ==
    ASSUME IInv
    PROVE  /\ FO!Contents \in Seq(Results)
           /\ DemuxPosts \in Seq(Results) /\ MmuPosts \in Seq(Results)
           /\ FO!Contents \o DemuxPosts \in Seq(Results)
           /\ Outside \in Seq(Results) /\ InHand \in Seq(Results) /\ Held \in Seq(Results)
<1>1. FO!Contents \in Seq(Results)
  BY OutputSeq DEF IInv
<1>2. << >> \in Seq(Results)
  BY EmptySeq
<1>3. DemuxPosts \in Seq(Results)
  <2>1. CASE dmx_st = "route" /\ dmx_req.base = 6
    <3>1. dmx_req \in OuterStores
      BY <2>1, RequestFields
         DEF IInv, Traffic, LoadEntering, LoadOutside, LoadBack, OuterStoring
    <3>2. dmx_req.val \in Results
      BY <2>1, <3>1, RequestKinds, RequestFields DEF ResultReqs
    <3>3. DemuxPosts = <<dmx_req.val>>
      BY <2>1 DEF DemuxPosts, Posted, ADDR_FIFO_OUT
    <3>4. QED
      BY <3>2, <3>3
  <2>2. CASE ~(dmx_st = "route" /\ dmx_req.base = 6)
    BY <1>2, <2>2 DEF DemuxPosts, Posted, ADDR_FIFO_OUT
  <2>3. QED
    BY <2>1, <2>2
<1>4. MmuPosts \in Seq(Results)
  <2>1. CASE mmu_st = "route" /\ mmu_req.base = 6
    <3>1. mmu_req \in Stores
      BY <2>1, RequestFields
         DEF IInv, Traffic, LoadEntering, LoadOutside, LoadBack, CoreStoring
    <3>2. mmu_req \in OuterStores
      BY <2>1, <3>1, RequestKinds
    <3>3. mmu_req.val \in Results
      BY <2>1, <3>2, RequestKinds, RequestFields DEF ResultReqs
    <3>4. MmuPosts = <<mmu_req.val>>
      BY <2>1 DEF MmuPosts, Posted, ADDR_FIFO_OUT
    <3>5. QED
      BY <3>3, <3>4
  <2>2. CASE ~(mmu_st = "route" /\ mmu_req.base = 6)
    BY <1>2, <2>2 DEF MmuPosts, Posted, ADDR_FIFO_OUT
  <2>3. QED
    BY <2>1, <2>2
<1>5. FO!Contents \o DemuxPosts \in Seq(Results)
  BY <1>1, <1>3, ConcatProperties
<1>6. Outside \in Seq(Results)
  BY <1>4, <1>5, ConcatProperties DEF Outside
<1>7. QED
  BY <1>1, <1>3, <1>4, <1>5, <1>6, HandIs, HeldIs

\* The routers and the output FIFO hold the same.
LEMMA OutsideKept ==
    ASSUME UNCHANGED <<mmu, demux, fifoOut>>
    PROVE  Outside' = Outside
<1>1. FO!Contents' = FO!Contents
  BY OutputKeeps
<1>2. QED
  BY <1>1 DEF mmu, demux, Outside, DemuxPosts, MmuPosts, Posted

\* The handler is at the same word.
LEMMA InHandKept ==
    ASSUME UNCHANGED <<pc, v>>, pc \in Loads => Hand' = Hand
    PROVE  InHand' = InHand
<1>1. CASE pc \in Emits
  BY <1>1 DEF InHand, Hand
<1>2. CASE pc \in Loads
  BY <1>2 DEF InHand
<1>3. CASE pc \notin Loads \cup Emits
  BY <1>3 DEF InHand
<1>4. QED
  BY <1>1, <1>2, <1>3

\* The result in hand has gone outside, or neither has changed.
Stays == Outside' \o InHand' = Outside \o InHand

\* The handler's store posts the result, another instruction nothing.
LEMMA AccessStays ==
    ASSUME IInv, Access
    PROVE  Stays
<1>1. Control /\ Traffic
  BY DEF IInv
<1>2. /\ cst = "fetch" /\ mmu_st = "idle" /\ mmu_st' = "route"
      /\ UNCHANGED <<demux, fifoIn, fifoOut>>
  BY <1>1, Posts
<1>3. FI!Contents' = FI!Contents /\ FO!Contents' = FO!Contents
  BY <1>2, InputKeeps, OutputKeeps DEF fifoIn
<1>4. "reply" \notin {mmu_st, dmx_st} /\ "reply" \notin {mmu_st', dmx_st'}
  BY <1>1, <1>2, NoReply DEF demux
<1>5. MmuPosts = << >> /\ DemuxPosts' = DemuxPosts
  BY <1>2 DEF MmuPosts, DemuxPosts, Posted, demux
<1> DEFINE sent == FO!Contents \o DemuxPosts
<1>6. sent \in Seq(Results) /\ InHand \in Seq(Results)
  BY PiecesTyped
<1>7. Outside = sent /\ Outside' = sent \o MmuPosts'
  <2>1. Outside = sent \o << >> /\ Outside' = sent \o MmuPosts'
    BY <1>3, <1>5 DEF Outside
  <2> HIDE DEF sent
  <2>2. QED
    BY <1>6, <2>1, ConcatEmptySeq
<1> HIDE DEF sent
<1>8. CASE pc \in Emits
  <2>1. pc' = Idle /\ mmu_req' = ResultReq(v[1] + (LineOf(pc) + 1))
    BY <1>1, <1>8, Posts, NotHandling, Apart, Zenon
  <2>2. PICK r \in Results : r = v[1] + (LineOf(pc) + 1)
    BY <1>1, <1>8, WordCarried
  <2>3. mmu_req'.base = 6 /\ mmu_req'.val = r
    BY <2>1, <2>2, RequestFields
  <2>4. MmuPosts' = <<r>>
    BY <1>2, <2>3 DEF MmuPosts, Posted, ADDR_FIFO_OUT
  <2>5. InHand = <<r>>
    BY <1>8, <2>2 DEF InHand, Hand
  <2>6. InHand' = << >>
    BY <2>1, NotHandling DEF InHand
  <2>7. sent \o InHand \in Seq(Results)
    BY <1>6, ConcatProperties
  <2>8. (sent \o InHand) \o << >> = sent \o InHand
    BY <2>7, ConcatEmptySeq
  <2>9. QED
    BY <1>7, <2>4, <2>5, <2>6, <2>8 DEF Stays
<1>9. CASE pc \notin Emits
  <2>1. /\ v' = v /\ \/ pc \in Loads /\ pc' = pc
                     \/ pc \notin Loads /\ pc' \notin Loads \cup Emits
        /\ mmu_req' \in {TriggerReq, EnableReq, LoadReq} \cup VectorReqs
    <3>1. \A n \in Lines : VectorReq(n) \in VectorReqs
      BY DEF VectorReqs
    <3>2. QED
      BY <1>1, <1>9, <3>1, Posts, NotHandling, Zenon
  <2>2. mmu_req'.base # 6
    BY <2>1, RequestFields DEF VectorReqs
  <2>3. MmuPosts' = << >>
    BY <2>2 DEF MmuPosts, Posted, ADDR_FIFO_OUT
  <2>4. InHand' = InHand
    <3>1. CASE pc \in Loads
      <4>1. Hand = FI!Contents[1] /\ Hand' = FI!Contents[1]
        BY <1>3, <1>4, <1>9, <2>1, <3>1, Apart DEF Hand
      <4>2. QED
        BY <2>1, <3>1, <4>1, InHandKept
    <3>2. CASE pc \notin Loads
      BY <1>9, <2>1, <3>2 DEF InHand
    <3>3. QED
      BY <3>1, <3>2
  <2>5. QED
    BY <1>6, <1>7, <2>3, <2>4, ConcatEmptySeq DEF Stays
<1>10. QED
  BY <1>8, <1>9

\* The handler gets the word it was loading.
LEMMA ReplyStays ==
    ASSUME IInv, LoadReply
    PROVE  Stays
<1>1. Control /\ Traffic
  BY DEF IInv
<1>2. cst = "load" /\ mmu_st = "reply" /\ LoadBack /\ pc \in Loads
  BY <1>1 DEF LoadReply, CPU!Loaded, MMU!Reply, Traffic, LoadEntering, LoadOutside,
              Control, PcFollows
<1>3. /\ mmu_st' = "idle" /\ UNCHANGED <<demux, fifoIn, fifoOut>>
      /\ v' = Append(v, mmu_rdata) /\ pc' = Code[pc].next
  BY DEF LoadReply, CPU!Loaded, CPU!Step, MMU!Reply
<1>4. pc' = pc + 1 /\ pc' \in Emits /\ pc \notin Emits
  BY <1>2, <1>3, HandlerAt, NotHandling, Apart
<1>5. v'[1] = mmu_rdata
  <2>1. v \in Seq(Data) /\ Len(v) = 0 /\ mmu_rdata \in Data
    BY <1>1, <1>2, <1>4 DEF Control, CpuType, Carried, LoadBack
  <2>2. Append(v, mmu_rdata)[Len(v) + 1] = mmu_rdata
    BY <2>1, AppendProperties
  <2>3. QED
    BY <1>3, <2>1, <2>2
<1>6. LineOf(pc') = LineOf(pc)
  <2>1. PICK n \in Lines : pc = Isr(n)
    BY <1>2 DEF Loads
  <2>2. QED
    BY <1>4, <2>1, LineOfHandler
<1>7. Hand = mmu_rdata /\ Hand' = mmu_rdata
  BY <1>2, <1>4, <1>5 DEF Hand
<1>8. InHand' = InHand
  BY <1>2, <1>4, <1>6, <1>7 DEF InHand
<1>9. MmuPosts = << >> /\ MmuPosts' = << >> /\ DemuxPosts' = DemuxPosts
  BY <1>2, <1>3 DEF MmuPosts, DemuxPosts, Posted, demux
<1>10. FO!Contents' = FO!Contents
  BY <1>3, OutputKeeps
<1>11. QED
  BY <1>8, <1>9, <1>10 DEF Stays, Outside

\* A write to the interrupt controller carries no result.
LEMMA WriteStays ==
    ASSUME IInv, WriteIntCtrl
    PROVE  Stays
<1>1. /\ mmu_st = "route" /\ mmu_req.base = 1 /\ mmu_st' \notin {"route", "reply"}
      /\ UNCHANGED <<cpu, demux, fifoIn, fifoOut>>
  BY DEF WriteIntCtrl, MMU!Send, ADDR_INT_CTRL
<1>2. FI!Contents' = FI!Contents /\ FO!Contents' = FO!Contents
  BY <1>1, InputKeeps, OutputKeeps DEF fifoIn
<1>3. MmuPosts = << >> /\ MmuPosts' = << >> /\ DemuxPosts' = DemuxPosts
  BY <1>1 DEF MmuPosts, DemuxPosts, Posted, demux, ADDR_FIFO_OUT
<1>4. Hand' = Hand
  BY <1>1, <1>2 DEF Hand, cpu, demux
<1>5. InHand' = InHand
  BY <1>1, <1>4, InHandKept DEF cpu
<1>6. QED
  BY <1>2, <1>3, <1>5 DEF Stays, Outside

\* A request moves from one router to the next.
LEMMA ToDemuxStays ==
    ASSUME IInv, ToDemux
    PROVE  Stays
<1>1. /\ mmu_st = "route" /\ mmu_st' \notin {"route", "reply"}
      /\ dmx_st = "idle" /\ dmx_st' = "route" /\ dmx_req' = mmu_req
      /\ UNCHANGED <<cpu, fifoIn, fifoOut>>
  BY DEF ToDemux, MMU!Send, Demux!Take
<1>2. FI!Contents' = FI!Contents /\ FO!Contents' = FO!Contents
  BY <1>1, InputKeeps, OutputKeeps DEF fifoIn
<1>3. DemuxPosts = << >> /\ DemuxPosts' = MmuPosts /\ MmuPosts' = << >>
  BY <1>1 DEF MmuPosts, DemuxPosts, Posted
<1>4. Hand' = Hand
  BY <1>1, <1>2 DEF Hand, cpu
<1>5. InHand' = InHand
  BY <1>1, <1>4, InHandKept DEF cpu
<1>6. Outside' = Outside
  <2>1. FO!Contents \in Seq(Results) /\ MmuPosts \in Seq(Results)
    BY PiecesTyped
  <2>2. FO!Contents \o MmuPosts \o << >> = FO!Contents \o << >> \o MmuPosts
    BY <2>1, WithoutEmpty
  <2>3. QED
    BY <1>2, <1>3, <2>2 DEF Outside
<1>7. QED
  BY <1>5, <1>6 DEF Stays

\* The front of the FIFO goes to the demux; the trigger level is no result.
LEMMA ToFifoInStays ==
    ASSUME IInv, ToFifoIn
    PROVE  Stays
<1>1. /\ dmx_st = "route" /\ dmx_req.base = 5 /\ dmx_st' # "route"
      /\ UNCHANGED <<cpu, mmu, fifoOut>>
      /\ dmx_st' = IF Demux!IsRead(dmx_req) THEN "reply" ELSE "idle"
      /\ dmx_rdata' = IF Demux!IsRead(dmx_req) THEN FI!Front ELSE dmx_rdata
  BY DEF ToFifoIn, Demux!Exchange, ADDR_FIFO_IN
<1>2. FO!Contents' = FO!Contents
  BY <1>1, OutputKeeps
<1>3. DemuxPosts = << >> /\ DemuxPosts' = << >> /\ MmuPosts' = MmuPosts
  BY <1>1 DEF MmuPosts, DemuxPosts, Posted, mmu, ADDR_FIFO_OUT
<1>4. Outside' = Outside
  BY <1>2, <1>3 DEF Outside
<1>5. CASE dmx_req.op = "R"
  <2>1. LoadOutside /\ fi_count > 0 /\ pc \in Loads
    BY <1>5, LoadCovered DEF IInv
  <2>2. FI!Contents[1] = FI!Front
    BY <2>1, WordsAre
  <2>3. dmx_st' = "reply" /\ dmx_rdata' = FI!Front
    BY <1>1, <1>5 DEF Demux!IsRead
  <2>4. mmu_st # "reply" /\ mmu_st' # "reply" /\ pc \notin Emits /\ pc' \notin Emits
    BY <1>1, <2>1, Apart DEF LoadOutside, mmu, cpu
  <2>5. Hand' = Hand
    BY <1>1, <2>2, <2>3, <2>4 DEF Hand
  <2>6. QED
    BY <1>1, <1>4, <2>5, InHandKept DEF cpu, Stays
<1>6. CASE dmx_req.op # "R"
  <2>1. dmx_st' = "idle" /\ UNCHANGED <<fi_buf, fi_head, fi_count>>
    BY <1>6, LevelSet DEF IInv, FI!SetTrigger, FI!ring
  <2>2. FI!Contents' = FI!Contents
    BY <2>1, InputKeeps
  <2>3. Hand' = Hand
    BY <1>1, <2>1, <2>2 DEF Hand, mmu, cpu
  <2>4. QED
    BY <1>1, <1>4, <2>3, InHandKept DEF cpu, Stays
<1>7. QED
  BY <1>5, <1>6

\* A result reaches the output FIFO.
LEMMA ToFifoOutStays ==
    ASSUME IInv, ToFifoOut
    PROVE  Stays
<1>1. /\ dmx_st = "route" /\ dmx_st' = "idle" /\ dmx_req.base = 6
      /\ dmx_req.val \in Results /\ FO!CpuAccess("W", dmx_req.val)
      /\ UNCHANGED <<cpu, mmu, fifoIn>>
  BY ResultStored DEF IInv, ToFifoOut
<1>2. PICK r \in Results : r = dmx_req.val
  BY <1>1
<1>3. FO!Contents' = Append(FO!Contents, r)
  BY <1>1, <1>2, OutputPuts DEF IInv
<1>4. DemuxPosts = <<r>> /\ DemuxPosts' = << >> /\ MmuPosts' = MmuPosts
  BY <1>1, <1>2 DEF MmuPosts, DemuxPosts, Posted, mmu, ADDR_FIFO_OUT
<1>5. Outside' = Outside
  <2>1. /\ FO!Contents \in Seq(Results) /\ DemuxPosts \in Seq(Results)
        /\ FO!Contents \o DemuxPosts \in Seq(Results)
    BY PiecesTyped
  <2>2. Append(FO!Contents, r) = FO!Contents \o <<r>>
    BY <2>1, AppendIsConcat
  <2>3. FO!Contents' = FO!Contents \o DemuxPosts
    BY <1>3, <1>4, <2>2
  <2>4. FO!Contents' \o << >> = FO!Contents'
    BY <2>1, <2>3, ConcatEmptySeq
  <2>5. QED
    BY <1>4, <2>3, <2>4 DEF Outside
<1>6. FI!Contents' = FI!Contents
  BY <1>1, InputKeeps DEF fifoIn
<1>7. Hand' = Hand
  BY <1>1, <1>6 DEF Hand, mmu, cpu
<1>8. QED
  BY <1>1, <1>5, <1>7, InHandKept DEF cpu, Stays

\* The word comes back one router.
LEMMA DemuxReplyStays ==
    ASSUME IInv, DemuxReply
    PROVE  Stays
<1>1. /\ dmx_st = "reply" /\ dmx_st' = "idle" /\ mmu_st = "await" /\ mmu_st' = "reply"
      /\ mmu_rdata' = dmx_rdata /\ UNCHANGED <<cpu, fifoIn, fifoOut>>
  BY DEF DemuxReply, Demux!Reply, MMU!Answer
<1>2. FO!Contents' = FO!Contents
  BY <1>1, OutputKeeps
<1>3. DemuxPosts = << >> /\ DemuxPosts' = << >> /\ MmuPosts = << >> /\ MmuPosts' = << >>
  BY <1>1 DEF MmuPosts, DemuxPosts, Posted
<1>4. pc \in Loads => Hand' = Hand
  BY <1>1, Apart DEF Hand, cpu
<1>5. QED
  BY <1>1, <1>2, <1>3, <1>4, InHandKept DEF cpu, Stays, Outside

\* Instructions that stay in the core make no result: nothing is filtered.
LEMMA ExecuteStays ==
    ASSUME IInv, Execute
    PROVE  Stays
<1>1. Control
  BY DEF IInv
<1>2. UNCHANGED <<mmu, demux, fifoIn, fifoOut>>
  BY DEF Execute
<1>3. Outside' = Outside /\ FI!Contents' = FI!Contents
  BY <1>2, OutsideKept, InputKeeps DEF fifoIn
<1>4. CASE CPU!ExecWfi
  <2>1. UNCHANGED <<pc, v>>
    BY <1>4 DEF CPU!ExecWfi
  <2>2. Hand' = Hand
    BY <1>2, <1>3, <2>1 DEF Hand, mmu, demux
  <2>3. QED
    BY <1>3, <2>1, <2>2, InHandKept DEF Stays
<1>5. CASE CPU!ExecLocal
  <2>1. Code[pc].op = "local" /\ pc' = Code[pc].next /\ pc \in Addresses
    BY <1>1, <1>5 DEF CPU!ExecLocal, CPU!At, CPU!Step, Control, CpuType
  <2>2. pc \in {0, ADDR_RESET} /\ pc' \in {0, 1} /\ Trigger = 1
    BY <2>1, OpRegion, LocalAt, Layout
  <2>3. pc \notin Loads \cup Emits /\ pc' \notin Loads \cup Emits
    BY <2>2, NotHandling
  <2>4. QED
    BY <1>3, <2>3 DEF Stays, InHand
<1>6. CASE CPU!ExecSkip
  <2>1. /\ Code[pc].op = "emit" /\ Code[pc].image[Head(v)] = Dropped /\ pc \in Addresses
    BY <1>1, <1>6 DEF CPU!ExecSkip, CPU!Filtered, CPU!At, Control, CpuType
  <2>2. pc \in Emits /\ Code[pc].image = Image(LineOf(pc))
    BY <2>1, OpRegion, HandlerAt
  <2>3. FALSE
    BY <1>1, <2>1, <2>2, WordCarried
  <2>4. QED
    BY <2>3
<1>7. QED
  BY <1>4, <1>5, <1>6 DEF Execute

\* A reset at power-on finds no handler running.
LEMMA BootStays ==
    ASSUME IInv, ColdBoot
    PROVE  Stays
<1>1. /\ cst = "cold" /\ pc' = ADDR_RESET /\ UNCHANGED <<mmu, demux, fifoOut>>
  BY DEF ColdBoot, Reset, CPU!TakeReset
<1>2. pc = ADDR_RESET
  BY <1>1 DEF IInv, Control, PcFollows
<1>3. Outside' = Outside
  BY <1>1, OutsideKept
<1>4. InHand' = << >> /\ InHand = << >>
  BY <1>1, <1>2, NotHandling DEF InHand
<1>5. QED
  BY <1>3, <1>4 DEF Stays

(***************************************************************************)
(* The steps that leave the CPU's registers and both routers alone.        *)
(***************************************************************************)
Still == Relay \/ Probe \/ PowerOn \/ UNCHANGED vars \/ \E n \in Lines : TesterFires(n)

\* They make no result and take none.
LEMMA StillStays ==
    ASSUME Still
    PROVE  Outside' = Outside /\ InHand' = InHand
<1>1. UNCHANGED <<pc, v, mmu, demux, fifoIn, fifoOut>>
  BY Zenon DEF Still, Relay, CPU!Relayed, Probe, CPU!Proceed, PowerOn, AssertReset,
               TesterFires, LineEvent, vars, cpu
<1>2. FI!Contents' = FI!Contents
  BY <1>1, InputKeeps DEF fifoIn
<1>3. Hand' = Hand
  BY <1>1, <1>2 DEF Hand, mmu, demux
<1>4. QED
  BY <1>1, <1>3, InHandKept, OutsideKept

\* Nor does a push, which leaves the word a load is after.
LEMMA PushStays ==
    ASSUME IInv, NEW d \in Data, Push(d)
    PROVE  /\ Outside' = Outside /\ InHand' = InHand
           /\ Unclaimed' = Append(Unclaimed, d) /\ Held' = Held
<1>1. /\ FI!Push(d) /\ UNCHANGED <<pc, v, mmu, demux, fifoOut>> /\ KeepsClaims
  BY Zenon DEF Push, KeepsClaims, LoadPending, cpu, mmu, demux, intc
<1>2. /\ Unclaimed' = Append(Unclaimed, d) /\ Held' = Held
      /\ fi_count > 0 => FI!Contents'[1] = FI!Contents[1]
  BY <1>1, WordPushed
<1>3. ASSUME pc \in Loads
      PROVE  Hand' = Hand
  <2>1. CASE LoadPending
    <3>1. Claims \in {1, 2}
      BY <2>1, ClaimsAre
    <3>2. fi_count > 0
      BY <3>1, WordsAre
    <3>3. FI!Contents'[1] = FI!Contents[1]
      BY <1>2, <3>2
    <3>4. QED
      BY <1>1, <3>3 DEF Hand, mmu, demux
  <2>2. CASE ~LoadPending
    <3>1. mmu_st = "reply" \/ dmx_st = "reply"
      BY <1>3, <2>2 DEF LoadPending
    <3>2. QED
      BY <1>1, <3>1 DEF Hand, mmu, demux
  <2>3. QED
    BY <2>1, <2>2
<1>4. QED
  BY <1>1, <1>2, <1>3, InHandKept, OutsideKept

\* A pop takes the oldest result.
LEMMA PopLeaves ==
    ASSUME IInv, Pop
    PROVE  Outside # << >> /\ Outside' = Tail(Outside) /\ InHand' = InHand
<1>1. FO!Pop /\ UNCHANGED <<pc, v, mmu, demux, fifoIn>>
  BY DEF Pop, cpu
<1>2. /\ FO!Contents # << >> /\ FO!Contents' = Tail(FO!Contents)
      /\ FI!Contents' = FI!Contents
  BY <1>1, OutputGets, InputKeeps DEF IInv, fifoIn
<1>3. DemuxPosts' = DemuxPosts /\ MmuPosts' = MmuPosts
  BY <1>1 DEF DemuxPosts, MmuPosts, Posted, mmu, demux
<1> DEFINE f == FO!Contents
           p == DemuxPosts
           m == MmuPosts
<1>4. f \in Seq(Results) /\ p \in Seq(Results) /\ m \in Seq(Results) /\ f \o p \in Seq(Results)
  BY PiecesTyped
<1>5. Outside = (f \o p) \o m /\ Outside' = (Tail(f) \o p) \o m /\ f # << >>
  BY <1>2, <1>3 DEF Outside
<1>6. Hand' = Hand
  BY <1>1, <1>2 DEF Hand, mmu, demux
<1>7. InHand' = InHand
  BY <1>1, <1>6, InHandKept
<1> HIDE DEF f, p, m
<1>8. f \o p # << >> /\ Tail(f \o p) = Tail(f) \o p
  BY <1>4, <1>5, HeadOfConcat
<1>9. PICK q \in Seq(Results) : q = f \o p /\ q # << >>
  BY <1>4, <1>8
<1>10. q \o m # << >> /\ Tail(q \o m) = Tail(q) \o m
  BY <1>4, <1>9, HeadOfConcat
<1>11. QED
  BY <1>5, <1>7, <1>8, <1>9, <1>10

\* The CPU that wakes has the held line's result in hand.
LEMMA WakeTakes ==
    ASSUME IInv, Wake
    PROVE  /\ Outside' = Outside /\ InHand = << >> /\ InHand' = Held /\ Held' = << >>
           /\ Unclaimed' = Unclaimed
<1>1. /\ cst = "wfi" /\ holding # NoLine /\ holding' = NoLine /\ pc' = IC!Target
      /\ UNCHANGED <<v, mmu, demux, fifoIn, fifoOut>>
  BY DEF Wake, CPU!Wake, IC!Deliver, IC!Selecting
<1>2. pc = Idle /\ holding \in Lines /\ pc' = Isr(holding)
  BY <1>1, WokenAtHandler DEF IInv
<1>3. pc' \in Loads /\ pc' \notin Emits /\ pc \notin Loads \cup Emits /\ LineOf(pc') = holding
  BY <1>2, LineOfHandler, Apart, NotHandling
<1>4. "reply" \notin {mmu_st, dmx_st} /\ "reply" \notin {mmu_st', dmx_st'}
  BY <1>1, NoReply DEF IInv, mmu, demux
<1>5. HandsOver
  BY <1>1, <1>2, <1>3, <1>4 DEF HandsOver, SameWords, LoadPending, fifoIn
<1>6. /\ Unclaimed' = Unclaimed /\ FI!Contents' = FI!Contents
      /\ Held = <<FI!Contents[1] + (holding + 1)>> /\ Held' = << >>
  BY <1>5, ClaimHanded
<1>7. Hand' = FI!Contents[1]
  BY <1>3, <1>4, <1>6 DEF Hand
<1>8. InHand = << >> /\ InHand' = <<FI!Contents[1] + (holding + 1)>>
  BY <1>3, <1>7 DEF InHand
<1>9. QED
  BY <1>1, <1>6, <1>8, OutsideKept

-----------------------------------------------------------------------------
(***************************************************************************)
(* The refinement: every step is a step of TaggedPath or a stutter.        *)
(***************************************************************************)
\* Only a push brings the input FIFO a word.
LEMMA OnlyPushed ==
    ASSUME IInv, [Next]_vars, ~\E d \in Data : Push(d), NEW d \in Data
    PROVE  ~FI!Push(d)
<1> SUFFICES ASSUME FI!Push(d) PROVE FALSE
  OBVIOUS
<1>1. fi_count' = fi_count + 1 /\ fi_count \in Nat
  BY WordsAre DEF FI!Push
<1>2. CASE ToFifoIn
  <2>1. CASE dmx_req.op = "R"
    <3>1. fi_count > 0 /\ FI!Read
      BY <1>2, <2>1, LoadCovered DEF IInv, ToFifoIn
    <3>2. fi_count' = fi_count - 1
      BY <3>1, ReadTakes DEF IInv, NeverFull
    <3>3. QED
      BY <1>1, <3>2
  <2>2. CASE dmx_req.op # "R"
    <3>1. fi_count' = fi_count
      BY <1>2, <2>2, LevelSet DEF IInv, FI!SetTrigger, FI!ring
    <3>2. QED
      BY <1>1, <3>1
  <2>3. QED
    BY <2>1, <2>2
<1>3. CASE ~ToFifoIn
  <2>1. UNCHANGED fifoIn
    BY <1>3, Zenon
       DEF Next, ColdBoot, Reset, Relay, CpuStep, Probe, Execute, Access, LoadReply, BusStep,
           WriteIntCtrl, ToDemux, ToFifoOut, DemuxReply, Wake, PowerOn, AssertReset, Pop,
           TesterFires, LineEvent, vars
  <2>2. fi_count' = fi_count
    BY <2>1 DEF fifoIn
  <2>3. QED
    BY <1>1, <2>2
<1>4. QED
  BY <1>2, <1>3

\* Words are pushed and claimed by pushes and events alone.
LEMMA OthersKeepWords ==
    ASSUME IInv, [Next]_vars, ~Wake,
           ~\E d \in Data : Push(d), ~\E n \in Lines : TesterFires(n)
    PROVE  Unclaimed' = Unclaimed /\ Held' = Held
<1>1. KeepsClaims \/ LoadsWord
  BY ClaimMoves, Zenon DEF IInv, ClaimsWord, HandsOver
<1>2. CASE KeepsClaims
  <2>1. SameWords
    BY <1>2, OnlyPushed DEF KeepsClaims
  <2>2. QED
    BY <1>2, <2>1, WordsKept
<1>3. CASE LoadsWord
  BY <1>3, WordLoaded
<1>4. QED
  BY <1>1, <1>2, <1>3

\* What is owed, before a step and after.
LEMMA OwedIs ==
    ASSUME IInv, IInv'
    PROVE  /\ Owed  = (Outside \o InHand) \o Held
           /\ Owed' = (Outside' \o InHand') \o Held'
           /\ Outside \o InHand \in Seq(Results)
<1>1. (IInv => Made = InHand /\ InHand \in Seq(Results))'
  BY HandIs, PTL
<1>2. Made' = InHand' /\ Made = InHand
  BY <1>1, HandIs
<1>3. Owed = (Outside \o Made) \o Held /\ Owed' = (Outside' \o Made') \o Held'
  BY DEF Owed, Outside, DemuxPosts, MmuPosts
<1>4. Outside \o InHand \in Seq(Results)
  BY PiecesTyped, ConcatProperties
<1>5. QED
  BY <1>2, <1>3, <1>4

\* A push is a push.
LEMMA PushPushes ==
    ASSUME IInv, IInv', NEW d \in Data, Push(d)
    PROVE  TP!Push(d)
<1>1. Owed' = Owed /\ Unclaimed' = Append(Unclaimed, d)
  BY PushStays, OwedIs
<1>2. QED
  BY <1>1, Zenon DEF TP!Push

\* An event claims a word and owes its line's result.
LEMMA EventClaims ==
    ASSUME IInv, IInv', NEW n \in Lines, TesterFires(n)
    PROVE  TP!Event(n)
<1>1. ClaimsWord
  BY Zenon
     DEF TesterFires, LineEvent, IC!Accept, IC!Selecting, ClaimsWord, SameWords,
         LoadPending, cpu, mmu, demux, fifoIn
<1>2. PICK r \in Results : r = Head(Unclaimed) + (n + 1)
  BY <1>1, WordClaimed
<1>3. /\ Unclaimed # << >> /\ Unclaimed' = Tail(Unclaimed)
      /\ Held = << >> /\ Held' = <<r>>
  BY <1>1, <1>2, WordClaimed
<1>4. Outside' = Outside /\ InHand' = InHand
  BY StillStays DEF Still
<1>5. PICK q \in Seq(Results) : q = Outside \o InHand
  BY OwedIs
<1>6. Owed = q \o << >> /\ Owed' = q \o <<r>>
  BY <1>3, <1>4, <1>5, OwedIs
<1>7. q \o << >> = q /\ q \o <<r>> = Append(q, r)
  BY ConcatEmptySeq, AppendIsConcat
<1>8. Owed' = Append(Owed, Head(Unclaimed) + (n + 1))
  BY <1>2, <1>6, <1>7
<1>9. QED
  BY <1>3, <1>8, Zenon DEF TP!Event

\* A wake-up moves the held result into the CPU's hands.
LEMMA WakeOwesTheSame ==
    ASSUME IInv, IInv', Wake
    PROVE  Unclaimed' = Unclaimed /\ Owed' = Owed
<1>1. /\ Outside' = Outside /\ InHand = << >> /\ InHand' = Held /\ Held' = << >>
      /\ Unclaimed' = Unclaimed
  BY WakeTakes
<1>2. Owed = (Outside \o << >>) \o Held /\ Owed' = (Outside \o Held) \o << >>
  BY <1>1, OwedIs
<1>3. Outside \in Seq(Results) /\ Held \in Seq(Results)
  BY PiecesTyped
<1>4. Outside \o << >> \o Held = Outside \o Held /\ Outside \o Held \o << >> = Outside \o Held
  BY <1>3, WithoutEmpty
<1>5. QED
  BY <1>1, <1>2, <1>4

\* A pop takes the oldest result owed.
LEMMA PopPops ==
    ASSUME IInv, IInv', [Next]_vars, Pop, Unclaimed' = Unclaimed, Held' = Held
    PROVE  TP!Pop
<1>1. Outside # << >> /\ Outside' = Tail(Outside) /\ InHand' = InHand
  BY PopLeaves
<1>2. Outside \in Seq(Results) /\ InHand \in Seq(Results) /\ Held \in Seq(Results)
  BY PiecesTyped
<1>3. Outside \o InHand # << >> /\ Tail(Outside \o InHand) = Tail(Outside) \o InHand
  BY <1>1, <1>2, HeadOfConcat
<1>4. PICK q \in Seq(Results) : q = Outside \o InHand /\ q # << >>
  BY <1>3, OwedIs
<1>5. q \o Held # << >> /\ Tail(q \o Held) = Tail(q) \o Held
  BY <1>2, <1>4, HeadOfConcat
<1>6. Owed = q \o Held /\ Owed' = Tail(q) \o Held
  BY <1>1, <1>3, <1>4, OwedIs
<1>7. Owed # << >> /\ Owed' = Tail(Owed)
  BY <1>5, <1>6
<1>8. QED
  BY <1>7, Zenon DEF TP!Pop

\* So the steps are TaggedPath's.
LEMMA PathStep == IInv /\ IInv' /\ [Next]_vars => [TP!Next]_<<Unclaimed, Owed>>
<1> SUFFICES ASSUME IInv, IInv', [Next]_vars PROVE [TP!Next]_<<Unclaimed, Owed>>
  OBVIOUS
<1>1. CASE \E d \in Data : Push(d)
  BY <1>1, PushPushes DEF TP!Next
<1>2. CASE \E n \in Lines : TesterFires(n)
  BY <1>2, EventClaims DEF TP!Next
<1>3. CASE Wake
  BY <1>3, WakeOwesTheSame
<1>4. CASE ~Wake /\ (~\E d \in Data : Push(d)) /\ ~\E n \in Lines : TesterFires(n)
  <2>1. Unclaimed' = Unclaimed /\ Held' = Held
    BY <1>4, OthersKeepWords
  <2>2. CASE Pop
    BY <2>1, <2>2, PopPops DEF TP!Next
  <2>3. CASE ~Pop
    <3>1. ASSUME CpuStep \/ BusStep PROVE Stays
      <4>1. CASE Probe
        BY <4>1, StillStays DEF Still, Stays
      <4>2. CASE Execute \/ Access \/ LoadReply
        BY <4>2, ExecuteStays, AccessStays, ReplyStays, Zenon
      <4>3. CASE BusStep
        BY <4>3, WriteStays, ToDemuxStays, ToFifoInStays, ToFifoOutStays, DemuxReplyStays, Zenon
           DEF BusStep
      <4>4. QED
        BY <3>1, <4>1, <4>2, <4>3, Zenon DEF CpuStep
    <3>2. ASSUME ColdBoot \/ Relay \/ PowerOn \/ UNCHANGED vars PROVE Stays
      <4>1. CASE ColdBoot
        BY <4>1, BootStays, Zenon
      <4>2. CASE Relay \/ PowerOn \/ UNCHANGED vars
        BY <4>2, StillStays DEF Still, Stays
      <4>3. QED
        BY <3>2, <4>1, <4>2, Zenon
    <3>3. Stays
      BY <1>4, <2>3, <3>1, <3>2, Zenon DEF Next
    <3>4. Owed' = Owed
      BY <2>1, <3>3, OwedIs DEF Stays
    <3>5. QED
      BY <2>1, <3>4
  <2>4. QED
    BY <2>2, <2>3
<1>5. QED
  BY <1>1, <1>2, <1>3, <1>4

\* At power-on there is nothing.
LEMMA PathInit == Init => TP!Init
<1> SUFFICES ASSUME Init PROVE TP!Init
  OBVIOUS
<1>1. IInv
  BY InitInv
<1>2. /\ fi_count = 0 /\ fo_count = 0 /\ mmu_st = "idle" /\ dmx_st = "idle"
      /\ holding = NoLine /\ pc = ADDR_RESET
  BY DEF Init, FI!Init, FO!FifoOutInit, CPU!Init, IC!IntCtrlInit
<1>3. Unclaimed = << >>
  <2>1. PICK s : s = Unclaimed
    OBVIOUS
  <2>2. Claims = 0 /\ Len(FI!Contents) = 0 /\ FI!Contents \in Seq(Data)
    BY <1>1, <1>2, WordsAre
  <2>3. PICK w \in Seq(Data) : w = FI!Contents
    BY <2>2, Zenon
  <2>4. PICK k \in Nat : k = 0
    OBVIOUS
  <2>5. Claims = k /\ Len(w) = k + k
    BY <2>2, <2>3, <2>4
  <2>6. Moves(Data, w, k, k)
    BY <2>5, BeyondIs, Zenon
  <2>7. Beyond(w, k) = s
    BY <1>1, <2>1, <2>3, <2>5, WordsAre, Zenon
  <2>8. s \in Seq(Data) /\ Len(s) = 0
    BY <2>4, <2>6, <2>7, Zenon DEF Moves
  <2>9. QED
    BY <2>1, <2>8, EmptySeq
<1>4. FO!Contents = << >>
  <2>1. Len(FO!Contents) = 0 /\ FO!Contents \in Seq(Results)
    BY <1>1, <1>2, OutputWindow, OutputRegisters, WindowSeq DEF IInv
  <2>2. QED
    BY <2>1, EmptySeq
<1>5. DemuxPosts = << >> /\ MmuPosts = << >> /\ Held = << >>
  BY <1>1, <1>2, HeldIs DEF DemuxPosts, MmuPosts, Posted
<1>6. Made = << >>
  BY <1>2, NotHandling DEF Made
<1>7. << >> \o << >> = << >>
  BY EmptySeq, ConcatEmptySeq
<1>8. Owed = << >>
  BY <1>4, <1>5, <1>6, <1>7, OwedParts DEF Outside
<1>9. QED
  BY <1>3, <1>8 DEF TP!Init

(***************************************************************************)
(* Each event runs the handler of its own line on the oldest unclaimed     *)
(* word and the results come out in the order of the events, for every     *)
(* number of lines, every capacity and every set of words; and neither     *)
(* FIFO ever leaves its selection: the input FIFO never blocks on its      *)
(* unwired event_out, and neither trips its assertion.                     *)
(***************************************************************************)
THEOREM TaggedPathImplemented == Spec => ImplementsTaggedPath
<1>1. Init => IInv /\ TP!Init
  BY InitInv, PathInit
<1>2. IInv /\ [Next]_vars => IInv'
  BY StepInv
<1>3. IInv /\ IInv' /\ [Next]_vars => [TP!Next]_<<Unclaimed, Owed>>
  BY PathStep
<1>4. IInv => FifoNeverFires
  BY DEF IInv, NeverFull, OutputFifo, FO!FifoOutTypeOK, FifoNeverFires
<1>5. QED
  BY <1>1, <1>2, <1>3, <1>4, PTL DEF Spec, ImplementsTaggedPath, TP!Spec
=============================================================================
