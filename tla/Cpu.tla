-------------------------------- MODULE Cpu ---------------------------------
(***************************************************************************)
(* assets/core/cpu.act: the control of the core.  Code is the program in   *)
(* memory, reduced to the instructions that leave the core; everything     *)
(* between two of them (register and SRAM work) belongs to the             *)
(* instruction it prepares.  An instruction is a record with fields        *)
(*   op     "local" no access outside the core                             *)
(*          "store" of the constant val to base/off                        *)
(*          "load"  from base/off, kept in v                               *)
(*          "emit"  store image[w], w the oldest word kept in v, or do     *)
(*                  not store when image[w] is Dropped                     *)
(*          "wfi"                                                          *)
(*   rom    fetched through the external port rather than from SRAM        *)
(*   next   the address that follows                                       *)
(***************************************************************************)
EXTENDS Naturals, Sequences

CONSTANTS Code,         \* address -> instruction
          ADDR_RESET,   \* the boot address
          Dropped       \* the image of a word the program filters out

VARIABLES pc,
          cst,   \* "cold", "relay" (in reset_int_ctrl!), "top" of the loop,
                 \* "fetch", "load" (in rdata_data?), "wfi"
          v      \* words loaded and not yet dealt with, oldest first

vars == <<pc, cst, v>>

Init == /\ pc = ADDR_RESET
        /\ cst = "cold"
        /\ v = << >>

(***************************************************************************)
(* reset_ext is received in three places: at power-on, between two         *)
(* instructions (a probe) and while idle (an arbitrated selection).  Each  *)
(* time the process goes on to send reset_int_ctrl.  Registers keep their  *)
(* content, but the rebooted program reads none of it: v is dead.          *)
(***************************************************************************)
TakeReset(from) == /\ cst = from
                   /\ cst' = "relay"
                   /\ pc' = ADDR_RESET
                   /\ v' = << >>

Relayed == /\ cst = "relay"
           /\ cst' = "top"
           /\ UNCHANGED <<pc, v>>

(***************************************************************************)
(* The probe finds no reset: on to the fetch.                              *)
(***************************************************************************)
Proceed == /\ cst = "top"
           /\ cst' = "fetch"
           /\ UNCHANGED <<pc, v>>

At(op) == cst = "fetch" /\ Code[pc].op = op

Filtered == At("emit") /\ Code[pc].image[Head(v)] = Dropped

Step == cst' = "top" /\ pc' = Code[pc].next

ExecLocal == /\ At("local")
             /\ Step
             /\ UNCHANGED v

ExecSkip == /\ Filtered
            /\ Step
            /\ v' = Tail(v)

(***************************************************************************)
(* A store is complete once the MMU has taken the data.                    *)
(***************************************************************************)
ExecStore == /\ At("store")
             /\ Step
             /\ UNCHANGED v

ExecEmit == /\ At("emit") /\ ~Filtered
            /\ Step
            /\ v' = Tail(v)

ExecLoad == /\ At("load")
            /\ cst' = "load"
            /\ UNCHANGED <<pc, v>>

\* Faulty variants precede the definition they vary; only the mutation
\* runs use them.  Here: the batch comes out in reverse.
LoadedReversed(d) == /\ cst = "load"
                     /\ Step
                     /\ v' = <<d>> \o v

Loaded(d) == /\ cst = "load"
             /\ Step
             /\ v' = Append(v, d)

ExecWfi == /\ At("wfi")
           /\ cst' = "wfi"
           /\ UNCHANGED <<pc, v>>

(***************************************************************************)
(* What the instruction at pc sends to the MMU.                            *)
(***************************************************************************)
Request == LET i == Code[pc] IN
    [op   |-> IF i.op = "load" THEN "R" ELSE "W",
     base |-> i.base,
     off  |-> i.off,
     val  |-> IF i.op = "emit" THEN i.image[Head(v)] ELSE i.val]

(***************************************************************************)
(* event_pc? while idle.                                                   *)
(***************************************************************************)
Wake(target) == /\ cst = "wfi"
                /\ cst' = "top"
                /\ pc' = target
                /\ UNCHANGED v
=============================================================================
