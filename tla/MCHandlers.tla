----------------------------- MODULE MCHandlers -----------------------------
(***************************************************************************)
(* The two places where several handlers share what they work on: the      *)
(* interrupt handlers of the multi-event firmware, with two different      *)
(* words and three lines; and the requests of two pages to the dashboard,  *)
(* each of which asks for some of the five kinds.  A behaviour is one of   *)
(* either; the other stays as it is at the start.                          *)
(***************************************************************************)
EXTENDS MultiEvent, Dashboard, TLC

CONSTANTS p, q

VARIABLE which

handlers == <<which, vars, dashboard>>

HandlersInit == /\ which \in {"chip", "dashboard"}
                /\ Init /\ DashboardInit

Chip_(A) == which = "chip" /\ A /\ UNCHANGED <<which, dashboard>>

Dashboard_(A) == which = "dashboard" /\ A /\ UNCHANGED <<which, vars>>

\* A dashboard that was closed, and has no work left, rests; the chip never
\* does.
AtRest == life # "open" /\ UNCHANGED dashboard

HandlersNext == Chip_(Next) \/ Dashboard_(DashboardNext) \/ Dashboard_(AtRest)

\* The fairness of the dashboard, as in its own specification.
HandlersSpec == /\ HandlersInit /\ [][HandlersNext]_handlers
                /\ WF_handlers(Dashboard_(PollFails))
                /\ \A t \in Tasks : WF_handlers(Dashboard_(Handler(t)))

-----------------------------------------------------------------------------
MCData == {10, 20}

MCResults == {d + (n + 1) : d \in Data, n \in Lines}

MCLines == 0 .. N_EVENTS - 1

MCAddressReset == 99

TwoPages == {p, q}

MCOffers == p :> {"apply", "track", "reconnect"} @@ q :> {"build", "reset"}
=============================================================================
