----------------------------- MODULE Application ----------------------------
(***************************************************************************)
(* The chip of module Soc running software/application/main.c after        *)
(* software/bootloader/main.c: main() installs the handler of event 0,     *)
(* sets the input FIFO's trigger level to BATCH, enables event 0 and       *)
(* idles; the handler loads BATCH events and then stores the image of each *)
(* one that passes the filter.  The other batch programs (dvs_denoise,     *)
(* dvs_motion, dvs_rotate, dvs_timesurface, dvs_track) have the same       *)
(* main() and the same read-a-batch handler.                               *)
(***************************************************************************)
EXTENDS Soc

CONSTANTS BATCH,
          Image      \* transform_event: word -> result, or Dropped

ASSUME BatchAssumption == BATCH \in Nat \ {0} /\ BATCH <= DEPTH_IN /\ BATCH \in Levels
ASSUME LineAssumption  == Lines = {0}
ASSUME ImageAssumption == Image \in [Data -> Results \cup {Dropped}]

(***************************************************************************)
(* The program's addresses.  0 is the start of SRAM, where the bootloader  *)
(* puts crt0 and main(); Idle is the WFI that crt0 executes after main()   *)
(* and that the handler returns to.                                        *)
(***************************************************************************)
Idle      == 4
Handler   == 5
FirstEmit == Handler + BATCH
LastEmit  == FirstEmit + BATCH - 1
Loads     == Handler .. FirstEmit - 1
Emits     == FirstEmit .. LastEmit

Instr(op, base, off, val, next) ==
    [op |-> op, rom |-> FALSE, base |-> base, off |-> off, val |-> val,
     image |-> Image, next |-> next]

\* The bootloader, in ROM.
Bootloader == [op |-> "local", rom |-> TRUE, base |-> ADDR_MEM, off |-> 0,
               val |-> 0, image |-> Image, next |-> 0]

\* Faulty variants precede the definition they vary; only the mutation
\* runs use them.  Here: the vector is installed last.
MainVectorLast ==
    << Instr("store", ADDR_INT_CTRL, 4 * NVectors, 1, 2),
       Instr("store", ADDR_FIFO_IN, 0, BATCH, 3),
       Instr("store", ADDR_INT_CTRL, 0, Handler, 4) >>

\* Faulty: the handler is installed for another line.
MainWrongLine ==
    << Instr("store", ADDR_INT_CTRL, 4, Handler, 2),
       Instr("store", ADDR_FIFO_IN, 0, BATCH, 3),
       Instr("store", ADDR_INT_CTRL, 4 * NVectors, 1, 4) >>

Main ==
    << Instr("store", ADDR_INT_CTRL, 0, Handler, 2),         \* INT_CTRL_VECTOR0
       Instr("store", ADDR_FIFO_IN, 0, BATCH, 3),            \* trigger level
       Instr("store", ADDR_INT_CTRL, 4 * NVectors, 1, 4) >>   \* ENABLE, last

InstrAt(a) ==
    CASE a = ADDR_RESET -> Bootloader
      [] a = 0          -> Instr("local", ADDR_MEM, 0, 0, 1)
      [] a \in 1 .. 3   -> Main[a]
      [] a = Idle       -> Instr("wfi", ADDR_MEM, 0, 0, Idle)
      [] a \in Loads    -> Instr("load", ADDR_FIFO_IN, 0, 0, a + 1)
      [] a \in Emits    -> Instr("emit", ADDR_FIFO_OUT, 0, 0,
                                 IF a = LastEmit THEN Idle ELSE a + 1)

AppCode == [a \in 0 .. LastEmit \cup {ADDR_RESET} |-> InstrAt(a)]

ASSUME CodeAssumption == /\ ADDR_RESET \in Nat \ (0 .. LastEmit)
                         /\ Code = AppCode

-----------------------------------------------------------------------------
(***************************************************************************)
(* Once powered on, the chip runs on its own.                              *)
(***************************************************************************)
Chip == \/ ColdBoot \/ Relay
        \/ CpuStep \/ BusStep
        \/ FifoEvent \/ Wake

PowerOn == cst = "cold" /\ AssertReset

Ports == Pop \/ \E d \in Data : Push(d)

Next == Chip \/ PowerOn \/ Ports

Spec == Init /\ [][Next]_vars

(***************************************************************************)
(* Every process of the chip is a self-timed circuit: a communication both *)
(* ends are ready for, or a local step, happens eventually.  Whoever owns  *)
(* the chip powers it on and drains its results; nobody has to push.       *)
(***************************************************************************)
Fairness == /\ WF_vars(CpuStep) /\ WF_vars(BusStep)
            /\ WF_vars(FifoEvent) /\ WF_vars(Wake)
            /\ WF_vars(ColdBoot) /\ WF_vars(Relay)
            /\ WF_vars(PowerOn) /\ WF_vars(Pop)

(***************************************************************************)
(* Warm resets.  WarmSpec: reset_ext may be asserted at any time.          *)
(* IdleResetSpec: only while the program idles.  DrainedSpec: only as the  *)
(* PYNQ server does it, with the producer paused and the result path       *)
(* drained, and pushes resume after the relay.  The server waits until the *)
(* result counter has been still for 100 ms; Drained is what the chip has  *)
(* then come to if nothing in it takes that long.                          *)
(***************************************************************************)
WarmReset == ProbeReset \/ IdleReset

WarmSpec == Init /\ [][Next \/ WarmReset \/ AssertReset]_vars

IdleResetSpec ==
    /\ Init /\ [][Next \/ WarmReset \/ (cst = "wfi" /\ AssertReset)]_vars
    /\ Fairness /\ WF_vars(WarmReset)

BusIdle == mmu_st = "idle" /\ dmx_st = "idle"

\* Faulty variant, for the mutation runs only: the server does not wait for
\* the event path.
DrainedOutputOnly == cst = "wfi" /\ BusIdle /\ fo_count = 0

Drained == /\ cst = "wfi" /\ BusIdle
           /\ holding = NoLine /\ fi_st = "select" /\ fo_count = 0

Resetting == reset_ext \/ cst = "relay"

DrainedNext == \/ Chip \/ WarmReset \/ PowerOn \/ Pop
               \/ ~Resetting /\ \E d \in Data : Push(d)
               \/ Drained /\ AssertReset

DrainedSpec == Init /\ [][DrainedNext]_vars

DrainedFairSpec == DrainedSpec /\ Fairness /\ WF_vars(WarmReset)

-----------------------------------------------------------------------------
(***************************************************************************)
(* Type invariant of the composed chip.                                    *)
(***************************************************************************)
Values == Data \cup Results \cup Addresses \cup {1, BATCH}

Requests == [op : {"R", "W"}, base : Nat, off : Nat, val : Values]

RouterStates == {"idle", "route", "await", "reply"}

TypeOK == /\ pc \in Addresses
          /\ cst \in {"cold", "relay", "top", "fetch", "load", "wfi"}
          /\ v \in Seq(Data) /\ Len(v) <= BATCH
          /\ mmu_st \in RouterStates /\ dmx_st \in RouterStates
          /\ mmu_req \in Requests \cup {NoRequest}
          /\ dmx_req \in Requests \cup {NoRequest}
          /\ {mmu_rdata, dmx_rdata} \subseteq Data \cup {NoData}
          /\ vectors \in [IC!Vectors -> Addresses]
          /\ enable_mask \in {0, 1}
          /\ holding \in Lines \cup {NoLine}
          /\ FI!TypeOK
          /\ FO!FifoOutTypeOK
          /\ reset_ext \in BOOLEAN

(***************************************************************************)
(* Neither FIFO's assertion ever fails (fifo_in.act:62, fifo_out.act:41):  *)
(* the handler loads BATCH words without looking, and they are there.      *)
(***************************************************************************)
NoAssertionFails == fi_st # "failed" /\ fo_st # "failed"

(***************************************************************************)
(* An event is only ever in delivery to a handler that main() installed:   *)
(* the vector the controller is about to send is never a cleared one       *)
(* (interrupt.act:12-13, main.c's "last, once everything above is ready"). *)
(***************************************************************************)
NoUnconfiguredVector ==
    holding # NoLine => IC!Enabled(holding) /\ IC!Target = Handler

(***************************************************************************)
(* While the handler still has words to load, no second edge exists: the   *)
(* controller holds no event and the input FIFO is not blocked in          *)
(* event_out, where it could not answer the load (the pitfall of           *)
(* fifo_in.act:99-103).                                                    *)
(***************************************************************************)
Loading == /\ cst \in {"top", "fetch", "load"}
           /\ pc \in Loads
           /\ "reply" \notin {mmu_st, dmx_st}   \* no word on its way back

SingleEdge == Loading => fi_st = "select" /\ holding = NoLine

(***************************************************************************)
(* No batch is stranded (fifo_in.act:14-18 and 78-83): when the chip has   *)
(* come to rest, idle with its interrupt enabled, fewer than BATCH events  *)
(* wait in the input FIFO.                                                 *)
(***************************************************************************)
AtRest == /\ cst = "wfi" /\ ~reset_ext /\ BusIdle
          /\ holding = NoLine /\ fi_st = "select" /\ IC!Enabled(0)

NoStrandedBatch == AtRest => fi_count < BATCH

(***************************************************************************)
(* A producer cannot make the input FIFO miss firing once saturated        *)
(* (fifo_in.act:16-17): the chip never comes to rest with a full FIFO.     *)
(***************************************************************************)
SaturatedFires == AtRest => fi_count < DEPTH_IN

(***************************************************************************)
(* The chip is a queue (EventPath): a result is the image of an event, in  *)
(* push order, none lost, duplicated or invented, through the input FIFO,  *)
(* the handler, two routers and the output FIFO.  The results inside are,  *)
(* oldest first, those in the output FIFO, those posted in the routers,    *)
(* and the images of the words the handler holds, of the word a load is    *)
(* bringing back, and of those in the input FIFO.                          *)
(***************************************************************************)
Emitted(d) == IF Image[d] = Dropped THEN << >> ELSE <<Image[d]>>

Images[s \in Seq(Data)] ==
    IF s = << >> THEN << >> ELSE Emitted(Head(s)) \o Images[Tail(s)]

Posted(state, req) ==
    IF state = "route" /\ req.base = ADDR_FIFO_OUT THEN <<req.val>> ELSE << >>

Returning(state, d) == IF state = "reply" THEN <<d>> ELSE << >>

Path == FO!Contents \o Posted(dmx_st, dmx_req) \o Posted(mmu_st, mmu_req)
          \o Images[v \o Returning(mmu_st, mmu_rdata)
                      \o Returning(dmx_st, dmx_rdata) \o FI!Contents]

EP == INSTANCE EventPath WITH path <- Path

ImplementsEventPath == EP!Spec

(***************************************************************************)
(* Under warm resets at any moment the chip still never reorders,          *)
(* duplicates or invents a result; it loses results only in the step in    *)
(* which the CPU receives a reset, and then at most the one batch the      *)
(* handler had in hand.                                                    *)
(***************************************************************************)
ImplementsLossyPath ==
    EP!Init /\ [][EP!Next \/ (EP!Lose /\ cst' = "relay")]_Path

(***************************************************************************)
(* Every full batch is served: once BATCH events wait while no handler     *)
(* runs, the handler starts (fifo_in.act:12-13); and it ends, through any  *)
(* backpressure of the output FIFO, and the chip idles again.              *)
(***************************************************************************)
InHandler == pc \in Handler .. LastEmit

BatchServed == /\ fi_count >= BATCH /\ ~InHandler ~> pc = Handler
               /\ InHandler ~> cst = "wfi"

(***************************************************************************)
(* A reset the CPU has received is completed: the interrupt controller     *)
(* takes the relay and the CPU goes on to boot (README.md:77-85).          *)
(***************************************************************************)
ResetCompletes == cst = "relay" ~> cst = "top"

(***************************************************************************)
(* Reset clears the enable mask, unconditionally, same as a cold boot      *)
(* (interrupt.act:22-23): from the end of the relay until the rebooted     *)
(* main() writes ENABLE, no line is enabled.                               *)
(***************************************************************************)
Rebooting == cst \in {"top", "fetch"} /\ pc \in {ADDR_RESET} \cup 0 .. 3

ResetClearsMask == Rebooting => enable_mask = 0

(***************************************************************************)
(* Whatever the resets, the idle CPU is only ever woken at the installed   *)
(* handler (globals.act:43-46).                                            *)
(***************************************************************************)
WakesAtHandler == [][cst = "wfi" /\ cst' = "top" => pc' = Handler]_vars
=============================================================================
