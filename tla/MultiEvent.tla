----------------------------- MODULE MultiEvent -----------------------------
(***************************************************************************)
(* The chip of module Soc running software/multi_event/main.c: one handler *)
(* per event line, each loading one word and storing that word + (N + 1).  *)
(* The input FIFO's own event_out is not wired (its trigger level is set   *)
(* out of reach); the testbench e2e_multi_event_test pushes a word and     *)
(* then fires a line.  Here it may run ahead: it fires any line as long as *)
(* a pushed word is left that no earlier event claims.                     *)
(***************************************************************************)
EXTENDS Soc

CONSTANTS Unreachable,     \* main()'s 0xFFFFFFFF: any level above DEPTH_IN
          N_EVENTS         \* 16 in the code

ASSUME LinesAreAll == N_EVENTS \in Nat \ {0} /\ Lines = 0 .. N_EVENTS - 1
ASSUME LevelAssumption == Unreachable \in Levels /\ Unreachable > DEPTH_IN
ASSUME SumsAssumption == \A d \in Data, n \in Lines : d + (n + 1) \in Results

Trigger    == 1
Vector(n)  == 2 + n
Enable     == 2 + N_EVENTS
Idle       == Enable + 1
Isr(n)     == Idle + 1 + 2 * n       \* the load; the store is at Isr(n) + 1
LastPc     == Isr(N_EVENTS - 1) + 1

Loads == {Isr(n) : n \in Lines}
Emits == {Isr(n) + 1 : n \in Lines}

LineOf(a) == (a - Isr(0)) \div 2

Image(n) == [d \in Data |-> d + (n + 1)]

Instr(op, base, off, val, next) ==
    [op |-> op, rom |-> FALSE, base |-> base, off |-> off, val |-> val,
     image |-> Image(0), next |-> next]

\* Faulty variant, for the mutation runs only.
TriggerLevelReached == DEPTH_IN

TriggerLevel == Unreachable

MultiCode ==
    [a \in 0 .. LastPc \cup {ADDR_RESET} |->
       CASE a = ADDR_RESET -> [Instr("local", ADDR_MEM, 0, 0, 0) EXCEPT !.rom = TRUE]
         [] a = 0          -> Instr("local", ADDR_MEM, 0, 0, Trigger)
         [] a = Trigger    -> Instr("store", ADDR_FIFO_IN, 0, TriggerLevel, Vector(0))
         [] a \in Vector(0) .. Vector(N_EVENTS - 1)
                           -> Instr("store", ADDR_INT_CTRL, 4 * (a - Vector(0)),
                                    Isr(a - Vector(0)), a + 1)
         [] a = Enable     -> Instr("store", ADDR_INT_CTRL, 4 * NVectors,
                                    2^N_EVENTS - 1, Idle)
         [] a = Idle       -> Instr("wfi", ADDR_MEM, 0, 0, Idle)
         [] a \in Loads   -> Instr("load", ADDR_FIFO_IN, 0, 0, a + 1)
         [] a \in Emits   -> [Instr("emit", ADDR_FIFO_OUT, 0, 0, Idle)
                                 EXCEPT !.image = Image(LineOf(a))]]

ASSUME CodeAssumption == ADDR_RESET \in Nat \ (0 .. LastPc) /\ Code = MultiCode

-----------------------------------------------------------------------------
(***************************************************************************)
(* An accepted event claims a word until its handler's load takes it out   *)
(* of the FIFO.                                                            *)
(***************************************************************************)
LoadPending == pc \in Loads /\ "reply" \notin {mmu_st, dmx_st}

Claims == (IF holding # NoLine THEN 1 ELSE 0) + (IF LoadPending THEN 1 ELSE 0)

TesterFires(n) == Claims < fi_count /\ LineEvent(n)

PowerOn == cst = "cold" /\ AssertReset

Next == \/ ColdBoot \/ Relay \/ CpuStep \/ BusStep \/ Wake
        \/ PowerOn \/ Pop
        \/ \E d \in Data : Push(d)
        \/ \E n \in Lines : TesterFires(n)

Spec == Init /\ [][Next]_vars

-----------------------------------------------------------------------------
(***************************************************************************)
(* Each event runs the handler of its own line on the oldest unclaimed     *)
(* word, and the results come out in the order of the events (TaggedPath), *)
(* although a handler may be running and another event already held while  *)
(* further lines fire.  And the input FIFO never blocks on its unwired     *)
(* event_out (the deadlock that main.c:51-56 guards against).              *)
(***************************************************************************)
Unclaimed == SubSeq(FI!Contents, Claims + 1, fi_count)

Tagged(s, n) == [i \in 1 .. Len(s) |-> s[i] + (n + 1)]

Posted(state, req) ==
    IF state = "route" /\ req.base = ADDR_FIFO_OUT THEN <<req.val>> ELSE << >>

Returning(state, d) == IF state = "reply" THEN <<d>> ELSE << >>

Running == v \o Returning(mmu_st, mmu_rdata) \o Returning(dmx_st, dmx_rdata)
             \o (IF LoadPending THEN <<fi_buf[fi_head]>> ELSE << >>)

Held == IF holding = NoLine THEN << >>
        ELSE Tagged(<<FI!Contents[Claims]>>, holding)

Made == IF pc \in Loads \cup Emits THEN Tagged(Running, LineOf(pc)) ELSE << >>

Owed == FO!Contents \o Posted(dmx_st, dmx_req) \o Posted(mmu_st, mmu_req)
          \o Made \o Held

TP == INSTANCE TaggedPath WITH words <- Unclaimed, results <- Owed

FifoNeverFires == fi_st = "select" /\ fo_st = "select"

ImplementsTaggedPath == TP!Spec /\ []FifoNeverFires
=============================================================================
