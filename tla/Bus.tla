-------------------------------- MODULE Bus ---------------------------------
(***************************************************************************)
(* The path of a load or a store: the CPU's data port, the MMU in the core *)
(* (assets/core/mmu.act), the demux in the periphery                       *)
(* (assets/peripherals/demux.act) and a word of storage behind every       *)
(* mapped base, wired as in cpu.act:89-109 and chips/bench/periphery.act.  *)
(* The CPU goes on as soon as the MMU has taken a store, so up to two      *)
(* stores travel behind it.                                                *)
(***************************************************************************)
EXTENDS BusConstants

VARIABLES mmu_st, mmu_req, mmu_rdata,
          dmx_st, dmx_req, dmx_rdata,
          cells,      \* the word behind each mapped base
          loading     \* the CPU is in rdata_data?

mmu   == <<mmu_st, mmu_req, mmu_rdata>>
demux == <<dmx_st, dmx_req, dmx_rdata>>
vars  == <<mmu, demux, cells, loading>>

MMU   == INSTANCE Router WITH EXACT_BASES <- Internal,
                              CATCHALL_MIN_BASE <- ADDR_EXT_MIN,
                              st <- mmu_st, req <- mmu_req, rdata <- mmu_rdata
Demux == INSTANCE Router WITH EXACT_BASES <- External,
                              CATCHALL_MIN_BASE <- ADDR_NO_CATCHALL,
                              st <- dmx_st, req <- dmx_req, rdata <- dmx_rdata

(***************************************************************************)
(* The rdata registers have no initial value; 0 stands for what they hold  *)
(* before the first load.                                                  *)
(***************************************************************************)
Init == /\ mmu_st = "idle" /\ mmu_req = NoRequest /\ mmu_rdata \in Words
        /\ dmx_st = "idle" /\ dmx_req = NoRequest /\ dmx_rdata \in Words
        /\ cells = [b \in Mapped |-> 0]
        /\ loading = FALSE

Request(op, b, w) == [op |-> op, base |-> b, off |-> 0, val |-> w]

(***************************************************************************)
(* cpu.act:288 and 375-376.                                                *)
(***************************************************************************)
Store(b, w) == /\ ~loading
               /\ MMU!Take(Request("W", b, w))
               /\ UNCHANGED <<demux, cells, loading>>

Load(b) == /\ ~loading
           /\ MMU!Take(Request("R", b, 0))
           /\ loading' = TRUE
           /\ UNCHANGED <<demux, cells>>

Loaded == /\ loading
          /\ MMU!Reply
          /\ loading' = FALSE
          /\ UNCHANGED <<demux, cells>>

(***************************************************************************)
(* A router exchanges a word with the port it selected.                    *)
(***************************************************************************)
\* Faulty variant, for the mutation runs only: stores the address.
AccessAddress(req) == cells' = IF req.op = "W" THEN [cells EXCEPT ![req.base] = req.base]
                                               ELSE cells

Access(req) == cells' = IF req.op = "W" THEN [cells EXCEPT ![req.base] = req.val]
                                        ELSE cells

ToInternal == /\ mmu_st = "route" /\ mmu_req.base \in Internal
              /\ MMU!Exchange(cells[mmu_req.base])
              /\ Access(mmu_req)
              /\ UNCHANGED <<demux, loading>>

ToDemux == /\ MMU!Send
           /\ mmu_req.base >= ADDR_EXT_MIN
           /\ Demux!Take(mmu_req)
           /\ UNCHANGED <<cells, loading>>

ToExternal == /\ dmx_st = "route" /\ dmx_req.base \in External
              /\ Demux!Exchange(cells[dmx_req.base])
              /\ Access(dmx_req)
              /\ UNCHANGED <<mmu, loading>>

NoPort == /\ \/ MMU!Skip /\ UNCHANGED demux
             \/ Demux!Skip /\ UNCHANGED mmu
          /\ UNCHANGED <<cells, loading>>

DemuxReply == /\ Demux!Reply
              /\ MMU!Answer(dmx_rdata)
              /\ UNCHANGED <<cells, loading>>

BusStep == ToInternal \/ ToDemux \/ ToExternal \/ NoPort \/ DemuxReply \/ Loaded

Next == \/ \E b \in Bases : Load(b) \/ \E w \in Words : Store(b, w)
        \/ BusStep

(***************************************************************************)
(* A communication both ends are ready for happens eventually; the CPU     *)
(* need not issue anything.                                                *)
(***************************************************************************)
Spec == Init /\ [][Next]_vars /\ WF_vars(BusStep)

-----------------------------------------------------------------------------
RouterStates == {"idle", "route", "await", "reply"}

Requests == {Request(op, b, w) : op \in {"R", "W"}, b \in Bases, w \in Words}

(***************************************************************************)
(* Type invariant.                                                         *)
(***************************************************************************)
TypeOK == /\ {mmu_st, dmx_st} \subseteq RouterStates
          /\ {mmu_req, dmx_req} \subseteq Requests \cup {NoRequest}
          /\ {mmu_rdata, dmx_rdata} \subseteq Words
          /\ cells \in [Mapped -> Words]
          /\ loading \in BOOLEAN

(***************************************************************************)
(* The two routers agree on what is in flight.  At most one load is, and   *)
(* it is the youngest request: the MMU waits for the demux exactly while   *)
(* the demux deals with that load, and no store can be between the CPU and *)
(* the word the load gets.                                                 *)
(***************************************************************************)
MmuHolds == mmu_st # "idle" => mmu_req \in Requests

DemuxHolds == dmx_st # "idle" => /\ dmx_req \in Requests
                                 /\ dmx_req.base >= ADDR_EXT_MIN

LoadIsYoungest ==
    /\ ~loading => mmu_st = "idle" \/ (mmu_st = "route" /\ mmu_req.op = "W")
    /\ loading => mmu_st # "idle" /\ mmu_req.op = "R"

Waiting == /\ dmx_st # "await"
           /\ mmu_st = "await" => dmx_st \in {"route", "reply"} /\ dmx_req = mmu_req
           /\ dmx_st = "reply" => mmu_st = "await"
           /\ dmx_st = "route" /\ dmx_req.op = "R" => mmu_st = "await"

Fresh(state, req, d) == state = "reply" /\ req.base \in Mapped => d = cells[req.base]

AnswersFresh == /\ Fresh(mmu_st, mmu_req, mmu_rdata)
                /\ Fresh(dmx_st, dmx_req, dmx_rdata)
                /\ mmu_st = "reply" /\ mmu_req.base \in External => dmx_st = "idle"

RoutersAgree == /\ MmuHolds /\ DemuxHolds
                /\ LoadIsYoungest /\ Waiting /\ AnswersFresh

(***************************************************************************)
(* The routers and their posted stores implement WordMemory: although a    *)
(* store is still on its way when the CPU goes on, and stores to different *)
(* ports may land out of program order, every load returns the last word   *)
(* stored to its base.  The memory the CPU sees is what lies behind the    *)
(* ports, overwritten by the store in the demux and then by the one in the *)
(* MMU.                                                                    *)
(***************************************************************************)
Posted(state, req) == state = "route" /\ req.op = "W"

Memory == [b \in Mapped |->
    IF Posted(mmu_st, mmu_req) /\ mmu_req.base = b THEN mmu_req.val
    ELSE IF Posted(dmx_st, dmx_req) /\ dmx_req.base = b THEN dmx_req.val
    ELSE cells[b]]

None == 0 - 1

WM == INSTANCE WordMemory WITH
        mem    <- Memory,
        asked  <- IF loading THEN mmu_req.base ELSE None,
        answer <- IF loading /\ mmu_st = "reply" THEN mmu_rdata ELSE None

ImplementsWordMemory == WM!Spec

(***************************************************************************)
(* No load hangs, at a mapped base or at an unmapped one                   *)
(* (globals.act:26-27).                                                    *)
(***************************************************************************)
LoadAnswered == loading ~> ~loading
=============================================================================
