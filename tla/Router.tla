------------------------------- MODULE Router -------------------------------
(***************************************************************************)
(* assets/core/mmu.act and assets/peripherals/demux.act: the same          *)
(* sequential process twice, the first between the CPU and the core's      *)
(* internal ports, the second between the core and the peripherals.  It    *)
(* takes a request, routes it by its base address, and answers a read; a   *)
(* write is posted (nothing goes back upstream).                           *)
(*                                                                         *)
(* Words only: mask_data (utils.act) passes a WORD through unchanged.      *)
(***************************************************************************)
EXTENDS Naturals

CONSTANTS EXACT_BASES,        \* bases with a port of their own
          CATCHALL_MIN_BASE   \* the first base of the catch-all port

VARIABLES st,      \* "idle", "route", "await" a downstream answer, "reply"
          req,     \* addr, mode and wdata: [op, base, off, val]
          rdata    \* the read-data register, never cleared

vars == <<st, req, rdata>>

IsRead(r) == r.op \in {"R", "R_AND_W"}

Mapped(base) == base \in EXACT_BASES \/ base >= CATCHALL_MIN_BASE

(***************************************************************************)
(* addr?, mode? and, for a write, wdata?.                                  *)
(***************************************************************************)
Take(r) == /\ st = "idle"
           /\ st' = "route"
           /\ req' = r
           /\ UNCHANGED rdata

(***************************************************************************)
(* addr_out!, mode_out! and wdata_out! to the port that claims the base.   *)
(***************************************************************************)
\* Faulty variants precede the definition they vary; only the mutation
\* runs use them.  Here: a read is posted like a write.
SendPosting == /\ st = "route"
               /\ Mapped(req.base)
               /\ st' = "idle"
               /\ UNCHANGED <<req, rdata>>

Send == /\ st = "route"
        /\ Mapped(req.base)
        /\ st' = IF IsRead(req) THEN "await" ELSE "idle"
        /\ UNCHANGED <<req, rdata>>

(***************************************************************************)
(* No port claims the base: a write is absorbed, and a read is answered    *)
(* with whatever rdata held.                                               *)
(***************************************************************************)
\* Faulty: an unmapped read is not answered.
SkipSilent == /\ st = "route"
              /\ ~Mapped(req.base)
              /\ st' = "idle"
              /\ UNCHANGED <<req, rdata>>

Skip == /\ st = "route"
        /\ ~Mapped(req.base)
        /\ st' = IF IsRead(req) THEN "reply" ELSE "idle"
        /\ UNCHANGED <<req, rdata>>

Answer(d) == /\ st = "await"
             /\ st' = "reply"
             /\ rdata' = d
             /\ UNCHANGED req

(***************************************************************************)
(* Send and Answer in one, for a port that answers a read at once.         *)
(***************************************************************************)
\* Faulty: the answer is not latched.
ExchangeStale(d) == /\ st = "route"
                    /\ Mapped(req.base)
                    /\ st' = IF IsRead(req) THEN "reply" ELSE "idle"
                    /\ UNCHANGED <<req, rdata>>

Exchange(d) == /\ st = "route"
               /\ Mapped(req.base)
               /\ st' = IF IsRead(req) THEN "reply" ELSE "idle"
               /\ rdata' = IF IsRead(req) THEN d ELSE rdata
               /\ UNCHANGED req

Reply == /\ st = "reply"
         /\ st' = "idle"
         /\ UNCHANGED <<req, rdata>>
=============================================================================
