----------------------------- MODULE Chip_proofs -----------------------------
(***************************************************************************)
(* Proofs about the chip: the load/store path, for every assignment of     *)
(* bases to ports and every set of words, the interrupt controller, for    *)
(* every number of vectors and lines, and the output FIFO, for every       *)
(* capacity and word set.                                                  *)
(***************************************************************************)
EXTENDS Bus, Interrupt, FifoOut, SequenceTheorems, TLAPS

-----------------------------------------------------------------------------
(***************************************************************************)
(* The load/store path.  Types and agreement, proved together.             *)
(***************************************************************************)
\* The inductive invariant.
Inv == TypeOK /\ RoutersAgree

\* At power-on the routers are idle and agree.
LEMMA InitInv == Init => Inv
BY BasesAssumption, WordsAssumption
   DEF Init, Inv, TypeOK, RouterStates, RoutersAgree, MmuHolds, DemuxHolds,
       LoadIsYoungest, Waiting, AnswersFresh, Fresh, Mapped

\* A request has the fields it was built with.
LEMMA RequestFields ==
    ASSUME NEW op \in {"R", "W"}, NEW b \in Bases, NEW w \in Words
    PROVE  /\ Request(op, b, w) \in Requests
           /\ Request(op, b, w).op = op
           /\ Request(op, b, w).base = b
           /\ Request(op, b, w).val = w
BY DEF Requests, Request

\* What the CPU sends the MMU is a typed request.
LEMMA RequestTypes ==
    ASSUME NEW r \in Requests
    PROVE  /\ r.op \in {"R", "W"}
           /\ r.base \in Bases
           /\ r.val \in Words
           /\ MMU!IsRead(r) <=> r.op = "R"
           /\ Demux!IsRead(r) <=> r.op = "R"
BY DEF Requests, Request, MMU!IsRead, Demux!IsRead

\* A base belongs to the MMU, to the demux, or to nobody.
LEMMA BasesSplit ==
    ASSUME NEW b \in Bases
    PROVE  /\ b \in Internal => b \notin External
           /\ b \in Internal => ~(b >= ADDR_EXT_MIN)
           /\ b \in External => b >= ADDR_EXT_MIN
           /\ ~MMU!Mapped(b) => b \notin Mapped
           /\ Demux!Mapped(b) <=> b \in External
<1>1. /\ b \in Internal => ~(b >= ADDR_EXT_MIN)
      /\ b \in External => b >= ADDR_EXT_MIN
      /\ ~(b >= ADDR_NO_CATCHALL)
  BY BasesAssumption DEF Bases
<1>2. QED
  BY <1>1, Zenon DEF MMU!Mapped, Demux!Mapped, Mapped

(***************************************************************************)
(* One lemma per step: each one keeps Inv.                                 *)
(***************************************************************************)
LEMMA StoreKeeps ==
    ASSUME Inv, NEW b \in Bases, NEW w \in Words, Store(b, w)
    PROVE  Inv'
<1> USE DEF Inv
<1>1. Request("W", b, w) \in Requests /\ Request("W", b, w).op = "W"
  BY RequestFields
<1>2. TypeOK'
  BY <1>1 DEF Store, MMU!Take, TypeOK, RouterStates, demux
<1>3. RoutersAgree'
  BY <1>1 DEF Store, MMU!Take, demux, RoutersAgree, MmuHolds, DemuxHolds,
              LoadIsYoungest, Waiting, AnswersFresh, Fresh
<1>4. QED
  BY <1>2, <1>3

\* A load that the MMU takes is the youngest request.
LEMMA LoadKeeps ==
    ASSUME Inv, NEW b \in Bases, Load(b)
    PROVE  Inv'
<1> USE DEF Inv
<1>1. Request("R", b, 0) \in Requests /\ Request("R", b, 0).op = "R"
  BY RequestFields, WordsAssumption
<1>2. TypeOK'
  BY <1>1 DEF Load, MMU!Take, TypeOK, RouterStates, demux
<1>3. RoutersAgree'
  BY <1>1 DEF Load, MMU!Take, demux, RoutersAgree, MmuHolds, DemuxHolds,
              LoadIsYoungest, Waiting, AnswersFresh, Fresh
<1>4. QED
  BY <1>2, <1>3

\* The CPU getting its word leaves nothing younger in flight.
LEMMA LoadedKeeps ==
    ASSUME Inv, Loaded
    PROVE  Inv'
BY DEF Inv, Loaded, MMU!Reply, TypeOK, RouterStates, demux, RoutersAgree,
       MmuHolds, DemuxHolds, LoadIsYoungest, Waiting, AnswersFresh, Fresh

\* An exchange at an internal port answers with the word stored there.
LEMMA ToInternalKeeps ==
    ASSUME Inv, ToInternal
    PROVE  Inv'
<1> USE DEF Inv
<1>1. /\ mmu_req \in Requests
      /\ mmu_req.op \in {"R", "W"} /\ mmu_req.val \in Words
      /\ MMU!IsRead(mmu_req) <=> mmu_req.op = "R"
      /\ mmu_req.base \in Mapped /\ mmu_req.base \notin External
  <2>1. mmu_req \in Requests
    BY DEF ToInternal, RoutersAgree, MmuHolds
  <2>2. QED
    BY <2>1, RequestTypes, BasesSplit DEF ToInternal, Mapped
<1>2. TypeOK'
  BY <1>1 DEF ToInternal, MMU!Exchange, Access, TypeOK, RouterStates, demux
<1>3. RoutersAgree'
  BY <1>1 DEF ToInternal, MMU!Exchange, Access, demux, TypeOK, RoutersAgree, MmuHolds,
              DemuxHolds, LoadIsYoungest, Waiting, AnswersFresh, Fresh
<1>4. QED
  BY <1>2, <1>3

\* A request handed to the demux leaves no store between CPU and load.
LEMMA ToDemuxKeeps ==
    ASSUME Inv, ToDemux
    PROVE  Inv'
<1> USE DEF Inv
<1>1. /\ mmu_req \in Requests
      /\ mmu_req.op \in {"R", "W"}
      /\ MMU!IsRead(mmu_req) <=> mmu_req.op = "R"
  BY RequestTypes DEF ToDemux, MMU!Send, RoutersAgree, MmuHolds
<1>2. TypeOK'
  BY <1>1 DEF ToDemux, MMU!Send, Demux!Take, TypeOK, RouterStates
<1>3. RoutersAgree'
  BY <1>1 DEF ToDemux, MMU!Send, Demux!Take, RoutersAgree, MmuHolds,
              DemuxHolds, LoadIsYoungest, Waiting, AnswersFresh, Fresh
<1>4. QED
  BY <1>2, <1>3

\* An exchange at a peripheral answers with the word stored there.
LEMMA ToExternalKeeps ==
    ASSUME Inv, ToExternal
    PROVE  Inv'
<1> USE DEF Inv
<1>1. /\ dmx_req \in Requests
      /\ dmx_req.op \in {"R", "W"} /\ dmx_req.val \in Words
      /\ Demux!IsRead(dmx_req) <=> dmx_req.op = "R"
      /\ dmx_req.base \in Mapped
  BY RequestTypes DEF ToExternal, RoutersAgree, DemuxHolds, Mapped
<1>2. TypeOK'
  BY <1>1 DEF ToExternal, Demux!Exchange, Access, TypeOK, RouterStates, mmu
<1>3. RoutersAgree'
  BY <1>1 DEF ToExternal, Demux!Exchange, Access, mmu, TypeOK, RoutersAgree, MmuHolds,
              DemuxHolds, LoadIsYoungest, Waiting, AnswersFresh, Fresh
<1>4. QED
  BY <1>2, <1>3

\* A request no port claims does not disturb the others.
LEMMA NoPortKeeps ==
    ASSUME Inv, NoPort
    PROVE  Inv'
<1> USE DEF Inv
<1>1. CASE MMU!Skip /\ UNCHANGED demux
  <2>1. /\ mmu_req \in Requests
        /\ MMU!IsRead(mmu_req) <=> mmu_req.op = "R"
        /\ mmu_req.base \notin Mapped
    <3>1. mmu_req \in Requests /\ ~MMU!Mapped(mmu_req.base)
      BY <1>1 DEF MMU!Skip, RoutersAgree, MmuHolds
    <3>2. QED
      BY <3>1, RequestTypes, BasesSplit
  <2>2. TypeOK'
    BY <1>1, <2>1 DEF NoPort, MMU!Skip, TypeOK, RouterStates, demux
  <2>3. RoutersAgree'
    BY <1>1, <2>1 DEF NoPort, MMU!Skip, demux, RoutersAgree, MmuHolds, Mapped,
              DemuxHolds, LoadIsYoungest, Waiting, AnswersFresh, Fresh
  <2>4. QED
    BY <2>2, <2>3
<1>2. CASE Demux!Skip /\ UNCHANGED mmu
  <2>1. /\ dmx_req \in Requests
        /\ Demux!IsRead(dmx_req) <=> dmx_req.op = "R"
        /\ dmx_req.base \notin Mapped
    <3>1. /\ dmx_req \in Requests /\ dmx_req.base >= ADDR_EXT_MIN
          /\ ~Demux!Mapped(dmx_req.base)
      BY <1>2 DEF Demux!Skip, RoutersAgree, DemuxHolds
    <3>2. dmx_req.base \in Bases /\ dmx_req.base \notin External
      BY <3>1, RequestTypes, BasesSplit
    <3>3. dmx_req.base \notin Internal
      BY <3>1, <3>2, BasesAssumption DEF Bases
    <3>4. QED
      BY <3>1, <3>2, <3>3, RequestTypes DEF Mapped
  <2>2. TypeOK'
    BY <1>2, <2>1 DEF NoPort, Demux!Skip, TypeOK, RouterStates, mmu
  <2>3. RoutersAgree'
    BY <1>2, <2>1 DEF NoPort, Demux!Skip, mmu, RoutersAgree, MmuHolds, Mapped,
              DemuxHolds, LoadIsYoungest, Waiting, AnswersFresh, Fresh
  <2>4. QED
    BY <2>2, <2>3
<1>3. QED
  BY <1>1, <1>2 DEF NoPort

\* The answer that the demux passes up is still the word in storage.
LEMMA DemuxReplyKeeps ==
    ASSUME Inv, DemuxReply
    PROVE  Inv'
<1> USE DEF Inv
<1>1. TypeOK'
  BY DEF DemuxReply, Demux!Reply, MMU!Answer, TypeOK, RouterStates
<1>2. RoutersAgree'
  BY DEF DemuxReply, Demux!Reply, MMU!Answer, RoutersAgree, MmuHolds,
         DemuxHolds, LoadIsYoungest, Waiting, AnswersFresh, Fresh
<1>3. QED
  BY <1>1, <1>2

\* The invariant is kept by every step.
LEMMA StepInv == Inv /\ [Next]_vars => Inv'
<1> SUFFICES ASSUME Inv, [Next]_vars
             PROVE  Inv'
  OBVIOUS
<1>1. CASE UNCHANGED vars
  BY <1>1 DEF vars, mmu, demux, Inv, TypeOK, RoutersAgree, MmuHolds, DemuxHolds,
              LoadIsYoungest, Waiting, AnswersFresh, Fresh
<1>2. QED
  BY <1>1, StoreKeeps, LoadKeeps, LoadedKeeps, ToInternalKeeps, ToDemuxKeeps,
     ToExternalKeeps, NoPortKeeps, DemuxReplyKeeps DEF Next, BusStep

(***************************************************************************)
(* Type correctness, and the agreement of the two routers on what is in    *)
(* flight.                                                                 *)
(***************************************************************************)
THEOREM BusTyped == Spec => []TypeOK
BY InitInv, StepInv, PTL DEF Spec, Inv

\* The two routers always agree on what is in flight (mmu.act, demux.act).
THEOREM AgreementCorrect == Spec => []RoutersAgree
BY InitInv, StepInv, PTL DEF Spec, Inv

-----------------------------------------------------------------------------
(***************************************************************************)
(* Refinement.  asked and reading are the abstract registers; each step of *)
(* the path is a step of WordMemory or leaves <<Memory, asked, reading>>   *)
(* alone.                                                                  *)
(***************************************************************************)
asked  == IF loading THEN mmu_req.base ELSE None
reading == IF loading /\ mmu_st = "reply" THEN mmu_rdata ELSE None

Stutter == Memory' = Memory /\ asked' = asked /\ reading' = reading

\* The refinement mapping's "no base, no word" is neither a base nor a word.
LEMMA NoneApart == None \notin Bases /\ None \notin Words
BY BasesAssumption, WordsAssumption DEF None, Bases

\* A store the MMU takes is a store in program order.
LEMMA StoreRefines ==
    ASSUME Inv, NEW b \in Bases, NEW w \in Words, Store(b, w)
    PROVE  WM!Store(b, w)
<1>1. /\ mmu_st = "idle" /\ mmu_st' = "route" /\ mmu_req' = Request("W", b, w)
      /\ dmx_st' = dmx_st /\ dmx_req' = dmx_req /\ cells' = cells
      /\ ~loading /\ ~loading'
  BY DEF Store, MMU!Take, demux
<1>2. asked = None /\ asked' = None /\ reading = None /\ reading' = None
  BY <1>1 DEF asked, reading
<1>3. Memory' = IF b \in Mapped THEN [Memory EXCEPT ![b] = w] ELSE Memory
  BY <1>1, RequestFields DEF Memory, Posted
<1>4. QED
  BY <1>2, <1>3 DEF WM!Store, WM!None, asked, reading, None

\* A load the MMU takes asks the memory.
LEMMA LoadRefines ==
    ASSUME Inv, NEW b \in Bases, Load(b)
    PROVE  WM!Load(b)
<1>1. /\ mmu_st = "idle" /\ mmu_st' = "route" /\ mmu_req' = Request("R", b, 0)
      /\ dmx_st' = dmx_st /\ dmx_req' = dmx_req /\ cells' = cells
      /\ ~loading /\ loading'
  BY DEF Load, MMU!Take, demux
<1>2. Request("R", b, 0).op = "R" /\ Request("R", b, 0).base = b
  BY RequestFields, WordsAssumption
<1>3. asked = None /\ asked' = b /\ reading = None /\ reading' = None
  BY <1>1, <1>2 DEF asked, reading
<1>4. Memory' = Memory
  BY <1>1, <1>2 DEF Memory, Posted
<1>5. QED
  BY <1>3, <1>4 DEF WM!Load, WM!None, asked, reading, None

\* The CPU getting its word finishes the load.
LEMMA LoadedRefines ==
    ASSUME Inv, Loaded
    PROVE  WM!Done
<1>1. /\ mmu_st = "reply" /\ mmu_st' = "idle" /\ loading /\ ~loading'
      /\ dmx_st' = dmx_st /\ dmx_req' = dmx_req /\ cells' = cells
  BY DEF Loaded, MMU!Reply, demux
<1>2. reading = mmu_rdata /\ asked' = None /\ reading' = None
  BY <1>1 DEF asked, reading
<1>3. reading # None
  BY <1>2, NoneApart DEF Inv, TypeOK
<1>4. Memory' = Memory
  BY <1>1 DEF Memory, Posted
<1>5. QED
  BY <1>2, <1>3, <1>4 DEF WM!Done, WM!None, asked, reading, None

(***************************************************************************)
(* A load is answered: what reaches the MMU's rdata register is the        *)
(* abstract word of a mapped base, and any word for an unmapped one.       *)
(***************************************************************************)
LEMMA AnswerRefines ==
    ASSUME Inv, loading, loading', mmu_st # "reply", mmu_st' = "reply",
           mmu_req' = mmu_req, Memory' = Memory, mmu_rdata' \in Words,
           mmu_req.base \in Mapped => mmu_rdata' = Memory[mmu_req.base]
    PROVE  WM!Answer
<1>1. mmu_req.base \in Bases
  BY RequestTypes DEF Inv, RoutersAgree, LoadIsYoungest, MmuHolds
<1>2. asked = mmu_req.base /\ asked' = asked /\ reading = None /\ reading' = mmu_rdata'
  BY DEF asked, reading
<1>3. asked # None
  BY <1>1, <1>2, NoneApart
<1>4. reading' \in IF asked \in Mapped THEN {Memory[asked]} ELSE Words
  BY <1>2
<1>5. QED
  BY <1>2, <1>3, <1>4 DEF WM!Answer, WM!None, asked, reading, None

\* An internal exchange answers the load, or lands a store that already counted.
LEMMA ToInternalRefines ==
    ASSUME Inv, ToInternal
    PROVE  WM!Answer \/ Stutter
<1>1. /\ mmu_st = "route" /\ mmu_req' = mmu_req
      /\ mmu_req.base \in Internal /\ mmu_req.base \in Mapped
      /\ dmx_st' = dmx_st /\ dmx_req' = dmx_req /\ loading' = loading
  BY DEF ToInternal, MMU!Exchange, demux, Mapped
<1>2. /\ mmu_req.op \in {"R", "W"} /\ mmu_req.val \in Words
      /\ MMU!IsRead(mmu_req) <=> mmu_req.op = "R"
      /\ ~(mmu_req.base >= ADDR_EXT_MIN)
  BY <1>1, RequestTypes, BasesSplit DEF Inv, RoutersAgree, MmuHolds
<1>3. Posted(dmx_st, dmx_req) => dmx_req.base # mmu_req.base
  BY <1>2 DEF Posted, Inv, RoutersAgree, DemuxHolds
<1>4. CASE mmu_req.op = "W"
  <2>1. mmu_st' = "idle" /\ ~loading
    BY <1>1, <1>2, <1>4 DEF ToInternal, MMU!Exchange, Inv, RoutersAgree, LoadIsYoungest
  <2>2. cells' = [cells EXCEPT ![mmu_req.base] = mmu_req.val]
    BY <1>4 DEF ToInternal, Access
  <2>3. Memory' = Memory
    BY <1>1, <1>3, <1>4, <2>1, <2>2 DEF Memory, Posted, Inv, TypeOK
  <2>4. asked' = asked /\ reading' = reading
    BY <1>1, <2>1 DEF asked, reading
  <2>5. QED
    BY <2>3, <2>4 DEF Stutter
<1>5. CASE mmu_req.op = "R"
  <2>1. /\ mmu_st' = "reply" /\ mmu_rdata' = cells[mmu_req.base] /\ cells' = cells
        /\ loading
    BY <1>1, <1>2, <1>5 DEF ToInternal, MMU!Exchange, Access, Inv, RoutersAgree,
                            LoadIsYoungest
  <2>2. Memory' = Memory
    BY <1>1, <1>5, <2>1 DEF Memory, Posted
  <2>3. mmu_rdata' = Memory[mmu_req.base] /\ mmu_rdata' \in Words
    BY <1>1, <1>3, <1>5, <2>1 DEF Memory, Posted, Inv, TypeOK
  <2>4. QED
    BY <1>1, <2>1, <2>2, <2>3, AnswerRefines
<1>6. QED
  BY <1>2, <1>4, <1>5

\* Handing a request to the demux changes nothing the CPU can see.
LEMMA ToDemuxRefines ==
    ASSUME Inv, ToDemux
    PROVE  Stutter
<1>1. /\ mmu_st = "route" /\ mmu_req' = mmu_req /\ mmu_req \in Requests
      /\ mmu_st' # "reply" /\ mmu_st' # "route" /\ dmx_st = "idle"
      /\ dmx_st' = "route" /\ dmx_req' = mmu_req
      /\ cells' = cells /\ loading' = loading
  BY DEF ToDemux, MMU!Send, Demux!Take, Inv, RoutersAgree, MmuHolds
<1>2. Memory' = Memory
  BY <1>1 DEF Memory, Posted
<1>3. QED
  BY <1>1, <1>2 DEF Stutter, asked, reading

\* Nor does the peripheral's exchange.
LEMMA ToExternalRefines ==
    ASSUME Inv, ToExternal
    PROVE  Stutter
<1>1. /\ dmx_st = "route" /\ dmx_st' # "route" /\ dmx_req' = dmx_req
      /\ dmx_req.base \in Mapped /\ dmx_req.val \in Words
      /\ mmu_st' = mmu_st /\ mmu_req' = mmu_req /\ mmu_rdata' = mmu_rdata
      /\ loading' = loading
  BY RequestTypes DEF ToExternal, Demux!Exchange, mmu, Mapped, Inv, RoutersAgree,
                      DemuxHolds
<1>2. Memory' = Memory
  BY <1>1 DEF ToExternal, Access, Memory, Posted, Inv, TypeOK
<1>3. QED
  BY <1>1, <1>2 DEF Stutter, asked, reading

\* An unmapped load gets some word; an unmapped store has no effect.
LEMMA NoPortRefines ==
    ASSUME Inv, NoPort
    PROVE  WM!Answer \/ Stutter
<1>1. cells' = cells /\ loading' = loading
  BY DEF NoPort
<1>2. CASE MMU!Skip /\ UNCHANGED demux
  <2>1. /\ mmu_st = "route" /\ mmu_req' = mmu_req /\ mmu_rdata' = mmu_rdata
        /\ mmu_req \in Requests /\ ~MMU!Mapped(mmu_req.base)
        /\ dmx_st' = dmx_st /\ dmx_req' = dmx_req
    BY <1>2 DEF MMU!Skip, demux, Inv, RoutersAgree, MmuHolds
  <2>2. /\ MMU!IsRead(mmu_req) <=> mmu_req.op = "R"
        /\ mmu_req.op \in {"R", "W"}
        /\ mmu_req.base \notin Mapped
    BY <2>1, RequestTypes, BasesSplit
  <2>3. mmu_st' # "route"
    BY <1>2 DEF MMU!Skip
  <2>4. Memory' = Memory
    BY <1>1, <2>1, <2>2, <2>3 DEF Memory, Posted
  <2>5. CASE mmu_req.op = "W"
    <3>1. ~loading
      BY <2>5 DEF Inv, RoutersAgree, LoadIsYoungest
    <3>2. QED
      BY <1>1, <2>4, <3>1 DEF Stutter, asked, reading
  <2>6. CASE mmu_req.op = "R"
    <3>1. loading /\ mmu_st' = "reply"
      BY <1>2, <2>1, <2>2, <2>6 DEF MMU!Skip, Inv, RoutersAgree, LoadIsYoungest
    <3>2. mmu_rdata' \in Words
      BY <2>1 DEF Inv, TypeOK
    <3>3. QED
      BY <1>1, <2>1, <2>2, <2>4, <3>1, <3>2, AnswerRefines
  <2>7. QED
    BY <2>2, <2>5, <2>6
<1>3. CASE Demux!Skip /\ UNCHANGED mmu
  <2>1. /\ mmu_st' = mmu_st /\ mmu_req' = mmu_req /\ mmu_rdata' = mmu_rdata
        /\ dmx_st = "route" /\ dmx_req' = dmx_req /\ dmx_st' # "route"
        /\ dmx_req \in Requests /\ dmx_req.base >= ADDR_EXT_MIN
        /\ ~Demux!Mapped(dmx_req.base)
    BY <1>3 DEF Demux!Skip, mmu, Inv, RoutersAgree, DemuxHolds
  <2>2. dmx_req.base \in Bases /\ dmx_req.base \notin External
    BY <2>1, RequestTypes, BasesSplit
  <2>3. dmx_req.base \notin Mapped
    BY <2>1, <2>2, BasesAssumption DEF Bases, Mapped
  <2>4. Memory' = Memory
    BY <1>1, <2>1, <2>3 DEF Memory, Posted
  <2>5. QED
    BY <1>1, <2>1, <2>4 DEF Stutter, asked, reading
<1>4. QED
  BY <1>2, <1>3 DEF NoPort

\* The demux's reply answers the load with the word last stored.
LEMMA DemuxReplyRefines ==
    ASSUME Inv, DemuxReply
    PROVE  WM!Answer
<1>1. /\ dmx_st = "reply" /\ dmx_st' = "idle" /\ dmx_req' = dmx_req
      /\ mmu_st = "await" /\ mmu_st' = "reply" /\ mmu_req' = mmu_req
      /\ mmu_rdata' = dmx_rdata /\ cells' = cells /\ loading' = loading
  BY DEF DemuxReply, Demux!Reply, MMU!Answer
<1>2. loading /\ dmx_req = mmu_req
  BY <1>1 DEF Inv, RoutersAgree, LoadIsYoungest, Waiting
<1>3. Memory' = Memory
  BY <1>1 DEF Memory, Posted
<1>4. mmu_rdata' \in Words
  BY <1>1 DEF Inv, TypeOK
<1>5. ASSUME mmu_req.base \in Mapped
      PROVE  mmu_rdata' = Memory[mmu_req.base]
  <2>1. dmx_rdata = cells[mmu_req.base]
    BY <1>1, <1>2, <1>5 DEF Inv, RoutersAgree, AnswersFresh, Fresh
  <2>2. QED
    BY <1>1, <1>5, <2>1 DEF Memory, Posted
<1>6. QED
  BY <1>1, <1>2, <1>3, <1>4, <1>5, AnswerRefines

(***************************************************************************)
(* A core that sees the bus only through its loads and stores cannot tell  *)
(* it from a word memory: posted stores in two routers never let a load    *)
(* return an old word.                                                     *)
(***************************************************************************)
THEOREM WordMemoryRefined == Spec => ImplementsWordMemory
<1>1. Init => WM!Init
  <2> SUFFICES ASSUME Init PROVE WM!Init
    OBVIOUS
  <2>1. Memory = cells /\ cells \in [Mapped -> Words]
    BY WordsAssumption DEF Init, Memory, Posted
  <2>2. asked = None /\ reading = None
    BY DEF Init, asked, reading
  <2>3. QED
    BY <2>1, <2>2 DEF WM!Init, WM!None, asked, reading, None
<1>2. Inv /\ [Next]_vars => [WM!Next]_<<Memory, asked, reading>>
  <2> SUFFICES ASSUME Inv, [Next]_vars
               PROVE  WM!Next \/ Stutter
    BY DEF Stutter
  <2>1. ASSUME NEW b \in Bases, NEW w \in Words, Store(b, w)
        PROVE  WM!Next
    BY <2>1, StoreRefines DEF WM!Next
  <2>2. ASSUME NEW b \in Bases, Load(b)
        PROVE  WM!Next
    BY <2>2, LoadRefines DEF WM!Next
  <2>3. CASE UNCHANGED vars
    BY <2>3 DEF vars, mmu, demux, Stutter, Memory, Posted, asked, reading
  <2>4. ASSUME BusStep
        PROVE  WM!Next \/ Stutter
    BY <2>4, LoadedRefines, ToInternalRefines, ToDemuxRefines, ToExternalRefines,
       NoPortRefines, DemuxReplyRefines DEF BusStep, WM!Next
  <2>5. QED
    BY <2>1, <2>2, <2>3, <2>4 DEF Next
<1>3. Spec => []Inv
  BY InitInv, StepInv, PTL DEF Spec
<1>4. QED
  BY <1>1, <1>2, <1>3, PTL
     DEF Spec, ImplementsWordMemory, WM!Spec, asked, reading

-----------------------------------------------------------------------------
(***************************************************************************)
(* The interrupt controller.  Type correctness.                            *)
(***************************************************************************)
THEOREM IntCtrlTyped == IntCtrlSpec => []IntCtrlTypeOK
<1> USE LinesAssumption, AddressAssumption DEF IntCtrlTypeOK
<1>1. IntCtrlInit => IntCtrlTypeOK
  BY DEF IntCtrlInit
<1>2. IntCtrlTypeOK /\ [IntCtrlNext]_intCtrl => IntCtrlTypeOK'
  <2> SUFFICES ASSUME IntCtrlTypeOK, [IntCtrlNext]_intCtrl
               PROVE  IntCtrlTypeOK'
    OBVIOUS
  <2>1. CASE ResetIntCtrl
    BY <2>1 DEF ResetIntCtrl
  <2>2. ASSUME NEW offset \in Offsets, NEW w \in Addresses,
               WriteRegister(offset, w)
        PROVE  IntCtrlTypeOK'
    BY <2>2 DEF WriteRegister, WriteEnable, WriteVector
  <2>3. ASSUME NEW i \in Lines, Accept(i)
        PROVE  IntCtrlTypeOK'
    BY <2>3 DEF Accept
  <2>4. CASE Deliver
    BY <2>4 DEF Deliver
  <2>5. CASE UNCHANGED intCtrl
    BY <2>5 DEF intCtrl
  <2>6. QED
    BY <2>1, <2>2, <2>3, <2>4, <2>5 DEF IntCtrlNext
<1>3. QED
  BY <1>1, <1>2, PTL DEF IntCtrlSpec

(***************************************************************************)
(* An event in delivery is an enabled one: nothing changes the mask        *)
(* between the acceptance of an event and its delivery.                    *)
(***************************************************************************)
THEOREM HeldCorrect == IntCtrlSpec => []HeldIsEnabled
<1>1. IntCtrlInit => HeldIsEnabled
  BY DEF IntCtrlInit, HeldIsEnabled
<1>2. HeldIsEnabled /\ [IntCtrlNext]_intCtrl => HeldIsEnabled'
  <2> SUFFICES ASSUME HeldIsEnabled, [IntCtrlNext]_intCtrl
               PROVE  HeldIsEnabled'
    OBVIOUS
  <2> USE NoLineAssumption DEF HeldIsEnabled, Selecting, Enabled
  <2>1. CASE ResetIntCtrl
    BY <2>1 DEF ResetIntCtrl
  <2>2. ASSUME NEW offset \in Offsets, NEW w \in Addresses,
               WriteRegister(offset, w)
        PROVE  HeldIsEnabled'
    BY <2>2 DEF WriteRegister, WriteEnable, WriteVector
  <2>3. ASSUME NEW i \in Lines, Accept(i)
        PROVE  HeldIsEnabled'
    BY <2>3 DEF Accept
  <2>4. CASE Deliver
    BY <2>4 DEF Deliver
  <2>5. CASE UNCHANGED intCtrl
    BY <2>5 DEF intCtrl
  <2>6. QED
    BY <2>1, <2>2, <2>3, <2>4, <2>5 DEF IntCtrlNext
<1>3. QED
  BY <1>1, <1>2, PTL DEF IntCtrlSpec

(***************************************************************************)
(* The vector an event was accepted with is the one that is sent.          *)
(***************************************************************************)
THEOREM TargetCorrect == IntCtrlSpec => TargetFrozen
<1>1. [IntCtrlNext]_intCtrl => [holding # NoLine => vectors' = vectors]_intCtrl
  BY DEF IntCtrlNext, ResetIntCtrl, WriteRegister, WriteEnable, WriteVector, Accept,
         Deliver, Selecting, intCtrl
<1>2. QED
  BY <1>1, PTL DEF IntCtrlSpec, TargetFrozen

(***************************************************************************)
(* The documented offsets of the vectors reach distinct registers: the     *)
(* truncation to the width of the table index loses nothing.               *)
(***************************************************************************)
LEMMA OffsetsDistinct ==
    ASSUME NEW offset \in Offsets, offset # ADDR_INT_CTRL_ENABLE
    PROVE  /\ VectorIndex(offset) \in Vectors
           /\ offset = 4 * VectorIndex(offset)
<1>1. PICK n \in 0 .. NVectors : offset = 4 * n
  BY DEF Offsets
<1>2. n \in 0 .. NVectors - 1
  BY <1>1, LinesAssumption DEF ADDR_INT_CTRL_ENABLE
<1>3. offset \div 4 = n
  BY <1>1, <1>2
<1>4. n % NVectors = n
  BY <1>2, LinesAssumption
<1>5. QED
  BY <1>1, <1>2, <1>3, <1>4 DEF VectorIndex, Vectors

(***************************************************************************)
(* Stores through the register map are independent of one another.         *)
(***************************************************************************)
THEOREM RegistersCorrect == IntCtrlSpec => RegistersIndependent
<1>1. ASSUME IntCtrlTypeOK,
             NEW offset \in Offsets, NEW w \in Addresses, WriteRegister(offset, w),
             NEW other \in Offsets
      PROVE  Register(other)' = IF other = offset THEN w ELSE Register(other)
  <2>1. CASE offset = ADDR_INT_CTRL_ENABLE
    BY <1>1, <2>1 DEF WriteRegister, WriteEnable, Register
  <2>2. CASE offset # ADDR_INT_CTRL_ENABLE
    <3>1. /\ vectors' = [vectors EXCEPT ![VectorIndex(offset)] = w]
          /\ enable_mask' = enable_mask
      BY <1>1, <2>2 DEF WriteRegister, WriteVector
    <3>2. CASE other = ADDR_INT_CTRL_ENABLE
      BY <2>2, <3>1, <3>2 DEF Register
    <3>3. CASE other # ADDR_INT_CTRL_ENABLE
      <4>1. VectorIndex(offset) \in Vectors /\ VectorIndex(other) \in Vectors
        BY <2>2, <3>3, OffsetsDistinct
      <4>2. VectorIndex(other) = VectorIndex(offset) => other = offset
        BY <2>2, <3>3, OffsetsDistinct
      <4>3. Register(other)' = vectors'[VectorIndex(other)]
        BY <3>3 DEF Register, VectorIndex
      <4>4. Register(other) = vectors[VectorIndex(other)]
        BY <3>3 DEF Register
      <4>5. QED
        BY <1>1, <3>1, <4>1, <4>2, <4>3, <4>4 DEF IntCtrlTypeOK
    <3>4. QED
      BY <3>2, <3>3
  <2>3. QED
    BY <2>1, <2>2
<1>2. IntCtrlTypeOK =>
        [\A offset \in Offsets, w \in Addresses :
           WriteRegister(offset, w) =>
             \A other \in Offsets :
               Register(other)' = IF other = offset THEN w ELSE Register(other)]_intCtrl
  BY <1>1
<1>3. QED
  BY <1>2, IntCtrlTyped, PTL DEF IntCtrlSpec, RegistersIndependent

-----------------------------------------------------------------------------
(***************************************************************************)
(* The output FIFO.                                                        *)
(***************************************************************************)
\* The power-on state is typed.
LEMMA FifoOutInitTyped == FifoOutInit => FifoOutTypeOK
BY DepthAssumption DEF FifoOutInit, FifoOutTypeOK, Index

(***************************************************************************)
(* Type correctness.                                                       *)
(***************************************************************************)
THEOREM FifoOutTyped == FifoOutSpec => []FifoOutTypeOK
<1>1. FifoOutTypeOK /\ [FifoOutNext]_fifoOut => FifoOutTypeOK'
  <2> SUFFICES ASSUME FifoOutTypeOK, [FifoOutNext]_fifoOut
               PROVE  FifoOutTypeOK'
    OBVIOUS
  <2> USE DepthAssumption DEF FifoOutTypeOK, Index
  <2>1. CASE Pop
    BY <2>1 DEF Pop, Wrap
  <2>2. ASSUME NEW d \in Data, CpuAccess("W", d)
        PROVE  FifoOutTypeOK'
    BY <2>2 DEF CpuAccess, Room, Wrap
  <2>3. CASE UNCHANGED fifoOut
    BY <2>3 DEF fifoOut
  <2>4. QED
    BY <2>1, <2>2, <2>3 DEF FifoOutNext
<1>2. QED
  BY <1>1, FifoOutInitTyped, PTL DEF FifoOutSpec

(***************************************************************************)
(* A pop moves every remaining word one place towards the front.           *)
(***************************************************************************)
LEMMA PopShifts ==
    ASSUME FifoOutTypeOK, Pop, NEW i \in Index, i < count'
    PROVE  /\ i + 1 \in Index
           /\ i + 1 < count
           /\ Offset(i)' = Offset(i + 1)
           /\ buf' = buf
BY DepthAssumption DEF FifoOutTypeOK, Index, Pop, Wrap, Offset

(***************************************************************************)
(* A store writes the first free slot, which no stored word occupies.      *)
(***************************************************************************)
LEMMA StoreExtends ==
    ASSUME FifoOutTypeOK, RingConsistent, NEW d \in Data, CpuAccess("W", d),
           NEW i \in Index, i < count'
    PROVE  /\ Offset(i)' = Offset(i)
           /\ i < count => Offset(i) # tail /\ buf'[Offset(i)] = buf[Offset(i)]
           /\ i = count => Offset(i) = tail /\ buf'[Offset(i)] = d
<1> USE DepthAssumption DEF FifoOutTypeOK, Index, CpuAccess, Room, Offset
<1>1. tail = IF head + count < DEPTH THEN head + count ELSE head + count - DEPTH
  BY DEF RingConsistent
<1>2. Offset(i) \in Index /\ Offset(i)' = Offset(i)
  OBVIOUS
<1>3. i < count => Offset(i) # tail
  BY <1>1
<1>4. i = count => Offset(i) = tail
  BY <1>1
<1>5. QED
  BY <1>2, <1>3, <1>4

(***************************************************************************)
(* The indices and the count always agree, and every occupied slot holds a *)
(* written word.                                                           *)
(***************************************************************************)
THEOREM RingCorrect == FifoOutSpec => []RingConsistent
<1> USE DepthAssumption
<1>1. FifoOutInit => RingConsistent
  BY DEF FifoOutInit, RingConsistent, Index
<1>2. FifoOutTypeOK /\ RingConsistent /\ [FifoOutNext]_fifoOut => RingConsistent'
  <2> SUFFICES ASSUME FifoOutTypeOK, RingConsistent, [FifoOutNext]_fifoOut
               PROVE  RingConsistent'
    OBVIOUS
  <2>1. CASE Pop
    <3>1. tail' = IF head' + count' < DEPTH THEN head' + count'
                                            ELSE head' + count' - DEPTH
      BY <2>1 DEF FifoOutTypeOK, RingConsistent, Index, Pop, Wrap
    <3>2. ASSUME NEW i \in Index, i < count'
          PROVE  buf'[Offset(i)'] \in Data
      BY <2>1, <3>2, PopShifts DEF RingConsistent
    <3>3. QED
      BY <3>1, <3>2 DEF RingConsistent, Index
  <2>2. ASSUME NEW d \in Data, CpuAccess("W", d)
        PROVE  RingConsistent'
    <3>1. tail' = IF head' + count' < DEPTH THEN head' + count'
                                            ELSE head' + count' - DEPTH
      BY <2>2 DEF FifoOutTypeOK, RingConsistent, Index, CpuAccess, Room, Wrap
    <3>2. ASSUME NEW i \in Index, i < count'
          PROVE  buf'[Offset(i)'] \in Data
      <4>1. i < count \/ i = count
        BY <2>2, <3>2 DEF CpuAccess, Room, FifoOutTypeOK, Index
      <4>2. QED
        BY <2>2, <3>2, <4>1, StoreExtends DEF RingConsistent
    <3>3. QED
      BY <3>1, <3>2 DEF RingConsistent, Index
  <2>3. CASE UNCHANGED fifoOut
    BY <2>3 DEF fifoOut, RingConsistent, Index, Offset
  <2>4. QED
    BY <2>1, <2>2, <2>3 DEF FifoOutNext
<1>3. QED
  BY <1>1, <1>2, FifoOutTyped, PTL DEF FifoOutSpec

-----------------------------------------------------------------------------
(***************************************************************************)
(* The circular buffer as the sequence it stores.                          *)
(***************************************************************************)
Stores == /\ Contents \in Seq(Data)
          /\ Len(Contents) = count
          /\ \A j \in 1 .. count : Contents[j] = buf[Offset(j - 1)]

\* The occupied slots, oldest first, form a sequence of written words.
LEMMA ContentsSeq == FifoOutTypeOK /\ RingConsistent => Stores
<1> SUFFICES ASSUME FifoOutTypeOK, RingConsistent PROVE Stores
  OBVIOUS
<1>1. count \in Nat
  BY DepthAssumption DEF FifoOutTypeOK
<1>2. ASSUME NEW j \in 1 .. count
      PROVE  buf[Offset(j - 1)] \in Data
  BY DepthAssumption DEF FifoOutTypeOK, RingConsistent, Index
<1>3. Contents \in [1 .. count -> Data]
  BY <1>2 DEF Contents
<1>4. Contents \in Seq(Data)
  BY <1>1, <1>3, SeqDef
<1>5. Len(Contents) = count
  BY <1>1, <1>3, <1>4, LenProperties
<1>6. QED
  BY <1>4, <1>5 DEF Stores, Contents

(***************************************************************************)
(* A store appends to it and a pop takes its first element.                *)
(***************************************************************************)
LEMMA StorePuts ==
    ASSUME FifoOutTypeOK, RingConsistent, FifoOutTypeOK', RingConsistent',
           NEW d \in Data, CpuAccess("W", d)
    PROVE  Queue!Put(d)
<1>1. Stores /\ Stores'
  BY ContentsSeq, PTL
<1>2. count \in Nat /\ count < DEPTH /\ count' = count + 1
  BY DEF FifoOutTypeOK, CpuAccess, Room
<1>3. /\ Append(Contents, d) \in Seq(Data)
      /\ Len(Append(Contents, d)) = count'
  BY <1>1, <1>2 DEF Stores
<1>4. ASSUME NEW j \in 1 .. count'
      PROVE  Contents'[j] = Append(Contents, d)[j]
  <2>1. /\ j - 1 \in Index /\ j - 1 < count'
        /\ j - 1 < count \/ j - 1 = count
    BY <1>2, DepthAssumption DEF Index, FifoOutTypeOK
  <2>2. CASE j - 1 < count
    <3>1. Offset(j - 1)' = Offset(j - 1) /\ buf'[Offset(j - 1)] = buf[Offset(j - 1)]
      BY <2>1, <2>2, StoreExtends
    <3>2. j \in 1 .. count
      BY <1>2, <2>2
    <3>3. Contents'[j] = Contents[j]
      BY <1>1, <3>1, <3>2 DEF Stores
    <3>4. QED
      BY <1>1, <1>2, <3>2, <3>3 DEF Stores
  <2>3. CASE j - 1 = count
    <3>1. Contents'[j] = d
      BY <1>1, <1>2, <2>1, <2>3, StoreExtends DEF Stores
    <3>2. QED
      BY <1>1, <1>2, <2>3, <3>1 DEF Stores
  <2>4. QED
    BY <2>1, <2>2, <2>3
<1>5. Contents' = Append(Contents, d)
  BY <1>1, <1>3, <1>4, SeqEqual DEF Stores
<1>6. QED
  BY <1>1, <1>2, <1>5 DEF Stores, Queue!Put

\* A pop removes the head of that sequence.
LEMMA PopGets ==
    ASSUME FifoOutTypeOK, RingConsistent, FifoOutTypeOK', RingConsistent', Pop
    PROVE  Queue!Get
<1>1. Stores /\ Stores'
  BY ContentsSeq, PTL
<1>2. count \in Nat /\ count > 0 /\ count' = count - 1
  BY DEF FifoOutTypeOK, Pop
<1>3. Contents # << >>
  BY <1>1, <1>2 DEF Stores
<1>4. /\ Tail(Contents) \in Seq(Data)
      /\ Len(Tail(Contents)) = count'
      /\ \A j \in 1 .. count' : Tail(Contents)[j] = Contents[j + 1]
  BY <1>1, <1>2, <1>3, HeadTailProperties DEF Stores
<1>5. ASSUME NEW j \in 1 .. count'
      PROVE  Contents'[j] = Tail(Contents)[j]
  <2>1. j - 1 \in Index /\ j - 1 < count' /\ (j - 1) + 1 = j
    BY <1>2, DepthAssumption DEF Index, FifoOutTypeOK
  <2>2. Contents'[j] = buf[Offset(j)]
    BY <1>1, <2>1, PopShifts DEF Stores
  <2>3. Contents[j + 1] = buf[Offset(j)]
    BY <1>1, <1>2 DEF Stores
  <2>4. QED
    BY <1>4, <2>2, <2>3
<1>6. Contents' = Tail(Contents)
  BY <1>1, <1>4, <1>5, SeqEqual DEF Stores
<1>7. QED
  BY <1>3, <1>6 DEF Queue!Get

(***************************************************************************)
(* fifo_out.act implements the bounded queue, whatever its capacity: the   *)
(* words popped are the words written, in order, each one once.            *)
(***************************************************************************)
THEOREM QueueRefined == FifoOutSpec => RefinesQueue
<1>1. FifoOutInit => Queue!Init
  <2> SUFFICES ASSUME FifoOutInit PROVE Queue!Init
    OBVIOUS
  <2>1. FifoOutTypeOK /\ RingConsistent /\ count = 0
    BY FifoOutInitTyped, DepthAssumption DEF FifoOutInit, RingConsistent, Index
  <2>2. Contents \in Seq(Data) /\ Len(Contents) = 0
    BY <2>1, ContentsSeq DEF Stores
  <2>3. QED
    BY <2>2, EmptySeq DEF Queue!Init
<1>2. /\ FifoOutTypeOK /\ FifoOutTypeOK' /\ RingConsistent /\ RingConsistent'
      /\ [FifoOutNext]_fifoOut
      => [Queue!Next]_Contents
  <2> SUFFICES ASSUME FifoOutTypeOK, FifoOutTypeOK', RingConsistent, RingConsistent',
                      [FifoOutNext]_fifoOut
               PROVE  [Queue!Next]_Contents
    OBVIOUS
  <2>1. CASE UNCHANGED fifoOut
    BY <2>1 DEF fifoOut, Contents, Offset
  <2>2. QED
    BY <2>1, StorePuts, PopGets DEF FifoOutNext, Queue!Next
<1>3. QED
  BY <1>1, <1>2, FifoOutTyped, RingCorrect, PTL
     DEF FifoOutSpec, RefinesQueue, Queue!Spec
=============================================================================
