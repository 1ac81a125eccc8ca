-------------------------------- MODULE Soc ---------------------------------
(***************************************************************************)
(* A chip variant: the core (cpu, mmu, interrupt controller) and its       *)
(* periphery (demux, ROM, input FIFO, output FIFO) wired as in             *)
(* chips/bench/soc.act and chips/fpga/soc.act, with the input FIFO's       *)
(* event_out on event line 0.  CHP channels are rendezvous, so every step  *)
(* below is one communication between two processes (both components' half *)
(* of it) or one local step of the CPU.                                    *)
(*                                                                         *)
(* The environment pushes events, pops results and asserts reset_ext.      *)
(***************************************************************************)
EXTENDS Naturals, Sequences

CONSTANTS Code, ADDR_RESET,       \* the program, see Cpu
          Lines, NoLine, NVectors,
          DEPTH_IN, DEPTH_OUT,
          Data,                   \* event words
          Results,                \* result words
          Dropped, NoData, NoRequest,
          Levels

ASSUME CapacityAssumption == {DEPTH_IN, DEPTH_OUT} \subseteq Nat \ {0}
ASSUME LinesAssumption    == /\ NVectors \in Nat \ {0}
                             /\ Lines \subseteq 0 .. NVectors - 1
                             /\ NoLine \notin Lines
ASSUME LevelsAssumption   == Levels \subseteq Nat
ASSUME WordsAssumption    == NoData \notin Data /\ Dropped \notin Results

VARIABLES pc, cst, v,
          mmu_st, mmu_req, mmu_rdata,
          dmx_st, dmx_req, dmx_rdata,
          vectors, enable_mask, holding,
          fi_buf, fi_head, fi_tail, fi_count, trigger_level, configured,
          armed, reads_since_fire, fi_st,
          fo_buf, fo_head, fo_tail, fo_count, fo_st,
          reset_ext        \* someone outside is blocked in reset_ext!true

cpu     == <<pc, cst, v>>
mmu     == <<mmu_st, mmu_req, mmu_rdata>>
demux   == <<dmx_st, dmx_req, dmx_rdata>>
intc    == <<vectors, enable_mask, holding>>
fifoIn  == <<fi_buf, fi_head, fi_tail, fi_count, trigger_level, configured,
             armed, reads_since_fire, fi_st>>
fifoOut == <<fo_buf, fo_head, fo_tail, fo_count, fo_st>>
vars    == <<cpu, mmu, demux, intc, fifoIn, fifoOut, reset_ext>>

ADDR_MEM      == 0
ADDR_INT_CTRL == 1
ADDR_EXT_MIN  == 4
ADDR_ROM      == 4
ADDR_FIFO_IN  == 5
ADDR_FIFO_OUT == 6
ADDR_NO_CATCHALL == 16

Addresses == DOMAIN Code

CPU   == INSTANCE Cpu
MMU   == INSTANCE Router WITH EXACT_BASES <- {ADDR_MEM, ADDR_INT_CTRL},
                              CATCHALL_MIN_BASE <- ADDR_EXT_MIN,
                              st <- mmu_st, req <- mmu_req, rdata <- mmu_rdata
Demux == INSTANCE Router WITH EXACT_BASES <- {ADDR_ROM, ADDR_FIFO_IN, ADDR_FIFO_OUT},
                              CATCHALL_MIN_BASE <- ADDR_NO_CATCHALL,
                              st <- dmx_st, req <- dmx_req, rdata <- dmx_rdata
IC    == INSTANCE Interrupt
FI    == INSTANCE FifoIn WITH DEPTH <- DEPTH_IN, buf <- fi_buf, head <- fi_head,
                              tail <- fi_tail, count <- fi_count, st <- fi_st
FO    == INSTANCE FifoOut WITH DEPTH <- DEPTH_OUT, Data <- Results,
                              buf <- fo_buf, head <- fo_head, tail <- fo_tail,
                              count <- fo_count, st <- fo_st

Init == /\ CPU!Init
        /\ mmu_st = "idle" /\ mmu_req = NoRequest /\ mmu_rdata = NoData
        /\ dmx_st = "idle" /\ dmx_req = NoRequest /\ dmx_rdata = NoData
        /\ IC!IntCtrlInit
        /\ FI!Init
        /\ FO!FifoOutInit
        /\ reset_ext = FALSE

-----------------------------------------------------------------------------
(***************************************************************************)
(* Reset: reset_ext is received by the CPU, then relayed to the interrupt  *)
(* controller.  The other components have no reset.                        *)
(***************************************************************************)
Reset(from) == /\ reset_ext
               /\ reset_ext' = FALSE
               /\ CPU!TakeReset(from)
               /\ UNCHANGED <<mmu, demux, intc, fifoIn, fifoOut>>

ColdBoot   == Reset("cold")
ProbeReset == Reset("top")
IdleReset  == Reset("wfi")

Relay == /\ CPU!Relayed
         /\ IC!ResetIntCtrl
         /\ UNCHANGED <<mmu, demux, fifoIn, fifoOut, reset_ext>>

(***************************************************************************)
(* The CPU.  A fetch needs the MMU (and the demux, for code in ROM) to     *)
(* have finished earlier posted writes; memory then answers at once.       *)
(***************************************************************************)
Probe == /\ ~reset_ext
         /\ CPU!Proceed
         /\ UNCHANGED <<mmu, demux, intc, fifoIn, fifoOut, reset_ext>>

Fetched == mmu_st = "idle" /\ (Code[pc].rom => dmx_st = "idle")

Execute == /\ Fetched
           /\ CPU!ExecLocal \/ CPU!ExecSkip \/ CPU!ExecWfi
           /\ UNCHANGED <<mmu, demux, intc, fifoIn, fifoOut, reset_ext>>

Access == /\ Fetched
          /\ CPU!ExecStore \/ CPU!ExecEmit \/ CPU!ExecLoad
          /\ MMU!Take(CPU!Request)
          /\ UNCHANGED <<demux, intc, fifoIn, fifoOut, reset_ext>>

LoadReply == /\ MMU!Reply
             /\ CPU!Loaded(mmu_rdata)
             /\ UNCHANGED <<demux, intc, fifoIn, fifoOut, reset_ext>>

(***************************************************************************)
(* The routers.  A write travels on its own once the CPU has posted it.    *)
(***************************************************************************)
WriteIntCtrl == /\ MMU!Send
                /\ mmu_req.base = ADDR_INT_CTRL
                /\ IC!WriteRegister(mmu_req.off, mmu_req.val)
                /\ UNCHANGED <<cpu, demux, fifoIn, fifoOut, reset_ext>>

ToDemux == /\ MMU!Send
           /\ mmu_req.base >= ADDR_EXT_MIN
           /\ Demux!Take(mmu_req)
           /\ UNCHANGED <<cpu, intc, fifoIn, fifoOut, reset_ext>>

ToFifoIn == /\ Demux!Exchange(FI!Front)
            /\ dmx_req.base = ADDR_FIFO_IN
            /\ IF dmx_req.op = "R" THEN FI!Read ELSE FI!SetTrigger(dmx_req.val)
            /\ UNCHANGED <<cpu, mmu, intc, fifoOut, reset_ext>>

ToFifoOut == /\ Demux!Send
             /\ dmx_req.base = ADDR_FIFO_OUT
             /\ FO!CpuAccess(dmx_req.op, dmx_req.val)
             /\ UNCHANGED <<cpu, mmu, intc, fifoIn, reset_ext>>

DemuxReply == /\ Demux!Reply
              /\ MMU!Answer(dmx_rdata)
              /\ UNCHANGED <<cpu, intc, fifoIn, fifoOut, reset_ext>>

(***************************************************************************)
(* Events: event_out of the input FIFO meets event_id[0], and event_pc     *)
(* meets the idle CPU.                                                     *)
(***************************************************************************)
FifoEvent == /\ FI!Fire
             /\ IC!Accept(0)
             /\ UNCHANGED <<cpu, mmu, demux, fifoOut, reset_ext>>

LineEvent(i) == /\ IC!Accept(i)
                /\ UNCHANGED <<cpu, mmu, demux, fifoIn, fifoOut, reset_ext>>

Wake == /\ IC!Deliver
        /\ CPU!Wake(IC!Target)
        /\ UNCHANGED <<mmu, demux, fifoIn, fifoOut, reset_ext>>

(***************************************************************************)
(* The environment.                                                        *)
(***************************************************************************)
AssertReset == /\ ~reset_ext
               /\ reset_ext' = TRUE
               /\ UNCHANGED <<cpu, mmu, demux, intc, fifoIn, fifoOut>>

Push(d) == /\ FI!Push(d)
           /\ UNCHANGED <<cpu, mmu, demux, intc, fifoOut, reset_ext>>

Pop == /\ FO!Pop
       /\ UNCHANGED <<cpu, mmu, demux, intc, fifoIn, reset_ext>>

-----------------------------------------------------------------------------
(***************************************************************************)
(* Steps of the chip itself, whatever the environment does.                *)
(***************************************************************************)
CpuStep == Probe \/ Execute \/ Access \/ LoadReply

BusStep == WriteIntCtrl \/ ToDemux \/ ToFifoIn \/ ToFifoOut \/ DemuxReply
=============================================================================
