-------------------------- MODULE Dashboard_proofs --------------------------
(***************************************************************************)
(* Proofs about the dashboard backend, for every set of pages and of       *)
(* requests they may send and every number of deployments: an answer that  *)
(* says a firmware runs is true, two servers never drive one board, and no *)
(* ssh is left behind.  Conditions: the requests do not overlap (for all   *)
(* three), and no pkill fails while a server runs (for the first two);     *)
(* nothing is asked of the tunnels.                                        *)
(*                                                                         *)
(* The argument follows a request: the lock keeps                          *)
(* what is made its own (SourceCarried), an inbox entry is known by its    *)
(* request number (AnswersOwn), and terminate and pkill run before each    *)
(* spawn, so that a new server finds none, whether the tunnel of the last  *)
(* one stood or was cut (LinksOwned, ServersReplaced).                     *)
(***************************************************************************)
EXTENDS Dashboard, FiniteSetTheorems, SequenceTheorems, TLAPS

-----------------------------------------------------------------------------
(***************************************************************************)
(* The actions a step may be, once and for all.                            *)
(***************************************************************************)
LEMMA NextCases ==
    ASSUME [DashboardNext]_dashboard
    PROVE  \/ \E p \in Pages : Save(p)
           \/ \E p \in Pages : \E kind \in Offers[p] : Request(p, kind)
           \/ \E t \in Tasks : Lock(t)
           \/ \E t \in Tasks : Make(t, TRUE) \/ Make(t, FALSE)
           \/ \E t \in Tasks : Upload(t)
           \/ \E t \in Tasks : Ask(t)
           \/ \E t \in Tasks : Answered(t)
           \/ \E t \in Tasks : Terminate(t)
           \/ \E t \in Tasks : Scp(t)
           \/ \E t \in Tasks : Pkill(t)
           \/ \E t \in Tasks : PkillFails(t)
           \/ \E t \in Tasks : Spawn(t)
           \/ \E t \in Tasks : Status(t)
           \/ \E t \in Tasks : Fail(t)
           \/ Serve(TRUE) \/ Serve(FALSE)
           \/ \E d \in Deploys : Connect(d)
           \/ \E d \in Deploys : SshEnds(d)
           \/ \E d \in Deploys : Ready(d)
           \/ \E d \in Deploys : Deafen(d)
           \/ \E d \in Deploys : Crash(d)
           \/ \E d \in Deploys : Pipe(d)
           \/ PollFails \/ Close \/ Abort \/ Reopen
           \/ UNCHANGED dashboard
  BY DEF DashboardNext, Asking, Handler, SshStep

-----------------------------------------------------------------------------
(***************************************************************************)
(* Type correctness.  First the state the backend starts in.               *)
(***************************************************************************)
LEMMA TypeInit == DashboardInit => TypeOK
<1> SUFFICES ASSUME DashboardInit
             PROVE  TypeOK
  OBVIOUS
<1> USE DashboardAssumption DEF DashboardAssumption, DashboardInit, Tasks, Deploys
<1>1. HandlerTypes
  BY DEF HandlerTypes
<1>2. FileTypes
  BY DEF FileTypes
<1>3. LinkTypes
  BY DEF LinkTypes
<1>4. InboxTypes
  BY DEF InboxTypes
<1>5. FlagTypes
  BY DEF FlagTypes
<1>6. QED
  BY <1>1, <1>2, <1>3, <1>4, <1>5 DEF TypeOK

\* A handler that ends leaves the handlers well typed.
LEMMA DoneTyped ==
    ASSUME HandlerTypes, NEW t \in Tasks, stage[t] # "make", Done(t),
           build_lock' = build_lock
    PROVE  HandlerTypes'
<1> USE DEF HandlerTypes, Done, Goto
<1>1. /\ stage' = [stage EXCEPT ![t] = "idle"]
      /\ stage' \in [Tasks -> {"idle", "lock", "make", "upload", "ask", "asked",
                               "answered", "refused", "terminate", "scp", "pkill",
                               "spawn", "status"}]
  OBVIOUS
<1>2. job' \in [Tasks -> {"none", "build", "apply", "track", "reset",
                           "reconnect"}]
  OBVIOUS
<1>3. requests' \in Nat /\ mine' \in [Tasks -> 0 .. requests']
  OBVIOUS
<1>4. \A u \in Tasks : build_lock' = u <=> stage'[u] = "make"
  BY <1>1
<1>5. QED
  BY <1>1, <1>2, <1>3, <1>4

\* So does an answer of the board, also to a handler that has gone.
LEMMA ServeTyped ==
    ASSUME HandlerTypes, NEW ok, Serve(ok)
    PROVE  HandlerTypes'
<1> DEFINE r == Head(inbox)
           here == IF ok THEN "answered" ELSE "refused"
<1> USE DEF HandlerTypes
<1>1. stage' = stage \/ (stage[r.task] = "asked" /\ stage' = [stage EXCEPT ![r.task] = here])
  BY DEF Serve
<1>2. here \in {"answered", "refused"}
  OBVIOUS
<1>3. UNCHANGED <<job, mine, requests, build_lock>>
  BY DEF Serve, requested
<1> HIDE DEF here, r
<1>4. QED
  BY <1>1, <1>2, <1>3

\* Every step keeps where handlers are, and build_lock with its holder.
LEMMA HandlerTypesStep == HandlerTypes /\ Placed /\ [DashboardNext]_dashboard => HandlerTypes'
<1> SUFFICES ASSUME HandlerTypes, Placed, [DashboardNext]_dashboard
             PROVE  HandlerTypes'
  OBVIOUS
<1> USE DashboardAssumption DEF DashboardAssumption, HandlerTypes, dashboard,
     requested, files, tunnel, kria, history
<1>1. CASE \E p \in Pages : Save(p)
  BY <1>1 DEF Save, Tasks
<1>2. CASE \E p \in Pages : \E kind \in Offers[p] : Request(p, kind)
  BY <1>2 DEF Request, Goto, First, Tasks
<1>3. CASE \E t \in Tasks : Lock(t)
  BY <1>3 DEF Lock, Goto, Tasks
<1>4. CASE \E t \in Tasks : Make(t, TRUE) \/ Make(t, FALSE)
  BY <1>4, DoneTyped DEF Make, Goto, Done, AfterMake, HolderAfter, Tasks
<1>5. CASE \E t \in Tasks : Upload(t)
  BY <1>5 DEF Upload, Goto
<1>6. CASE \E t \in Tasks : Ask(t)
  BY <1>6 DEF Ask, Goto
<1>7. CASE \E t \in Tasks : Answered(t)
  BY <1>7, DoneTyped DEF Answered
<1>8. CASE \E t \in Tasks : Terminate(t)
  BY <1>8 DEF Terminate, Goto
<1>9. CASE \E t \in Tasks : Scp(t)
  BY <1>9 DEF Scp, Goto
<1>10. CASE \E t \in Tasks : Pkill(t)
  BY <1>10 DEF Pkill, Goto
<1>11. CASE \E t \in Tasks : PkillFails(t)
  BY <1>11 DEF PkillFails, Goto
<1>12. CASE \E t \in Tasks : Spawn(t)
  BY <1>12 DEF Spawn, Goto
<1>13. CASE \E t \in Tasks : Status(t)
  BY <1>13, DoneTyped DEF Status
<1>14. CASE \E t \in Tasks : Fail(t)
  BY <1>14, DoneTyped DEF Fail
<1>15. CASE Serve(TRUE) \/ Serve(FALSE)
  BY <1>15, ServeTyped DEF Serve
<1>16. CASE \E d \in Deploys : Connect(d)
  BY <1>16 DEF Connect
<1>17. CASE \E d \in Deploys : SshEnds(d)
  BY <1>17 DEF SshEnds
<1>18. CASE \E d \in Deploys : Ready(d)
  BY <1>18 DEF Ready
<1>19. CASE \E d \in Deploys : Deafen(d)
  BY <1>19 DEF Deafen
<1>20. CASE \E d \in Deploys : Crash(d)
  BY <1>20 DEF Crash
<1>21. CASE \E d \in Deploys : Pipe(d)
  BY <1>21 DEF Pipe
<1>22. CASE PollFails
  BY <1>22 DEF PollFails
<1>23. CASE Close
  BY <1>23 DEF Close, AllDone, Placed, Busy, Tasks
<1>24. CASE Abort
  BY <1>24 DEF Abort, AllDone, Placed, Tasks
<1>25. CASE Reopen
  BY <1>25 DEF Reopen, Goto, Placed, Tasks
<1>26. CASE UNCHANGED dashboard
  BY <1>26
<1>27. QED
  BY <1>1, <1>2, <1>3, <1>4, <1>5, <1>6, <1>7, <1>8, <1>9, <1>10, <1>11, <1>12,
     <1>13, <1>14, <1>15, <1>16, <1>17, <1>18, <1>19, <1>20, <1>21, <1>22,
     <1>23, <1>24, <1>25, <1>26, NextCases

\* Sources, images and memories hold what some request brought.
LEMMA FileTypesStep == HandlerTypes /\ FileTypes /\ [DashboardNext]_dashboard => FileTypes'
<1> SUFFICES ASSUME HandlerTypes, FileTypes, [DashboardNext]_dashboard
             PROVE  FileTypes'
  OBVIOUS
<1> USE DashboardAssumption DEF DashboardAssumption, HandlerTypes, FileTypes,
     dashboard, requested, files, tunnel, kria, history
<1>1. CASE \E p \in Pages : Save(p)
  BY <1>1 DEF Save
<1>2. CASE \E p \in Pages : \E kind \in Offers[p] : Request(p, kind)
  BY <1>2 DEF Request, Goto, First
<1>3. CASE \E t \in Tasks : Lock(t)
  BY <1>3 DEF Lock, Goto
<1>4. CASE \E t \in Tasks : Make(t, TRUE) \/ Make(t, FALSE)
  BY <1>4 DEF Make, Goto, Done, AfterMake, HolderAfter
<1>5. CASE \E t \in Tasks : Upload(t)
  BY <1>5 DEF Upload, Goto
<1>6. CASE \E t \in Tasks : Ask(t)
  BY <1>6 DEF Ask, Goto
<1>7. CASE \E t \in Tasks : Answered(t)
  BY <1>7 DEF Answered, Done
<1>8. CASE \E t \in Tasks : Terminate(t)
  BY <1>8 DEF Terminate, Goto
<1>9. CASE \E t \in Tasks : Scp(t)
  BY <1>9 DEF Scp, Goto
<1>10. CASE \E t \in Tasks : Pkill(t)
  BY <1>10 DEF Pkill, Goto
<1>11. CASE \E t \in Tasks : PkillFails(t)
  BY <1>11 DEF PkillFails, Goto
<1>12. CASE \E t \in Tasks : Spawn(t)
  BY <1>12 DEF Spawn, Goto
<1>13. CASE \E t \in Tasks : Status(t)
  BY <1>13 DEF Status, Done
<1>14. CASE \E t \in Tasks : Fail(t)
  BY <1>14 DEF Fail, Done
<1>15. CASE Serve(TRUE) \/ Serve(FALSE)
  BY <1>15 DEF Serve
<1>16. CASE \E d \in Deploys : Connect(d)
  BY <1>16 DEF Connect
<1>17. CASE \E d \in Deploys : SshEnds(d)
  BY <1>17 DEF SshEnds
<1>18. CASE \E d \in Deploys : Ready(d)
  BY <1>18 DEF Ready
<1>19. CASE \E d \in Deploys : Deafen(d)
  BY <1>19 DEF Deafen
<1>20. CASE \E d \in Deploys : Crash(d)
  BY <1>20 DEF Crash
<1>21. CASE \E d \in Deploys : Pipe(d)
  BY <1>21 DEF Pipe
<1>22. CASE PollFails
  BY <1>22 DEF PollFails
<1>23. CASE Close
  BY <1>23 DEF Close, AllDone
<1>24. CASE Abort
  BY <1>24 DEF Abort, AllDone
<1>25. CASE Reopen
  BY <1>25 DEF Reopen, Goto
<1>26. CASE UNCHANGED dashboard
  BY <1>26
<1>27. QED
  BY <1>1, <1>2, <1>3, <1>4, <1>5, <1>6, <1>7, <1>8, <1>9, <1>10, <1>11, <1>12,
     <1>13, <1>14, <1>15, <1>16, <1>17, <1>18, <1>19, <1>20, <1>21, <1>22,
     <1>23, <1>24, <1>25, <1>26, NextCases

\* deploy() has room for one more ssh when it starts it.
LEMMA SpawnFits ==
    ASSUME LinkTypes, DeploymentsBounded, NEW t \in Tasks, stage[t] = "spawn"
    PROVE  deploys + 1 \in Deploys
<1>1. t \in Deploying
  BY DEF Deploying
<1>2. Cardinality(Deploying) \in Nat /\ Cardinality(Deploying) # 0
  BY <1>1, FS_CardinalityType, FS_EmptySet DEF DeploymentsBounded
<1>3. QED
  BY <1>2, DashboardAssumption DEF DashboardAssumption, DeploymentsBounded,
     Deployments,
     LinkTypes, Deploys

\* Every step keeps the connections and the servers well typed.
LEMMA LinkTypesStep ==
    LinkTypes /\ DeploymentsBounded /\ [DashboardNext]_dashboard => LinkTypes'
<1> SUFFICES ASSUME LinkTypes, DeploymentsBounded, [DashboardNext]_dashboard
             PROVE  LinkTypes'
  OBVIOUS
<1> USE DashboardAssumption DEF DashboardAssumption, LinkTypes, Deploys, dashboard,
     requested, files, tunnel, kria, history
<1>1. CASE \E p \in Pages : Save(p)
  BY <1>1 DEF Save
<1>2. CASE \E p \in Pages : \E kind \in Offers[p] : Request(p, kind)
  BY <1>2 DEF Request, Goto, First
<1>3. CASE \E t \in Tasks : Lock(t)
  BY <1>3 DEF Lock, Goto
<1>4. CASE \E t \in Tasks : Make(t, TRUE) \/ Make(t, FALSE)
  BY <1>4 DEF Make, Goto, Done, AfterMake, HolderAfter
<1>5. CASE \E t \in Tasks : Upload(t)
  BY <1>5 DEF Upload, Goto
<1>6. CASE \E t \in Tasks : Ask(t)
  BY <1>6 DEF Ask, Goto
<1>7. CASE \E t \in Tasks : Answered(t)
  BY <1>7 DEF Answered
<1>8. CASE \E t \in Tasks : Terminate(t)
  BY <1>8 DEF Terminate, Goto, SshRuns, Ends
<1>9. CASE \E t \in Tasks : Scp(t)
  BY <1>9 DEF Scp, Goto
<1>10. CASE \E t \in Tasks : Pkill(t)
  BY <1>10 DEF Pkill, Goto, Dies
<1>11. CASE \E t \in Tasks : PkillFails(t)
  BY <1>11 DEF PkillFails, Goto
<1>12. CASE \E t \in Tasks : Spawn(t)
  BY <1>12, SpawnFits DEF Spawn, Goto
<1>13. CASE \E t \in Tasks : Status(t)
  BY <1>13 DEF Status
<1>14. CASE \E t \in Tasks : Fail(t)
  BY <1>14 DEF Fail
<1>15. CASE Serve(TRUE) \/ Serve(FALSE)
  BY <1>15 DEF Serve
<1>16. CASE \E d \in Deploys : Connect(d)
  BY <1>16 DEF Connect
<1>17. CASE \E d \in Deploys : SshEnds(d)
  BY <1>17 DEF SshEnds, Ends
<1>18. CASE \E d \in Deploys : Ready(d)
  BY <1>18 DEF Ready
<1>19. CASE \E d \in Deploys : Deafen(d)
  BY <1>19 DEF Deafen
<1>20. CASE \E d \in Deploys : Crash(d)
  BY <1>20 DEF Crash, Dies
<1>21. CASE \E d \in Deploys : Pipe(d)
  BY <1>21 DEF Pipe
<1>22. CASE PollFails
  BY <1>22 DEF PollFails
<1>23. CASE Close
  BY <1>23 DEF Close, AllDone, Ends, EndsOwn, SshRuns, Dies
<1>24. CASE Abort
  BY <1>24 DEF Abort, AllDone, SshRuns
<1>25. CASE Reopen
  BY <1>25 DEF Reopen, Goto
<1>26. CASE UNCHANGED dashboard
  BY <1>26
<1>27. QED
  BY <1>1, <1>2, <1>3, <1>4, <1>5, <1>6, <1>7, <1>8, <1>9, <1>10, <1>11, <1>12,
     <1>13, <1>14, <1>15, <1>16, <1>17, <1>18, <1>19, <1>20, <1>21, <1>22,
     <1>23, <1>24, <1>25, <1>26, NextCases

\* Every step keeps the flags of the page Boolean.
LEMMA FlagTypesStep == FlagTypes /\ [DashboardNext]_dashboard => FlagTypes'
<1> SUFFICES ASSUME FlagTypes, [DashboardNext]_dashboard
             PROVE  FlagTypes'
  OBVIOUS
<1> USE DashboardAssumption DEF DashboardAssumption, FlagTypes, dashboard,
     requested, files, tunnel, kria, history
<1>1. CASE \E p \in Pages : Save(p)
  BY <1>1 DEF Save
<1>2. CASE \E p \in Pages : \E kind \in Offers[p] : Request(p, kind)
  BY <1>2 DEF Request, Goto, First
<1>3. CASE \E t \in Tasks : Lock(t)
  BY <1>3 DEF Lock, Goto
<1>4. CASE \E t \in Tasks : Make(t, TRUE) \/ Make(t, FALSE)
  BY <1>4 DEF Make, Goto, Done, AfterMake, HolderAfter
<1>5. CASE \E t \in Tasks : Upload(t)
  BY <1>5 DEF Upload, Goto
<1>6. CASE \E t \in Tasks : Ask(t)
  BY <1>6 DEF Ask, Goto
<1>7. CASE \E t \in Tasks : Answered(t)
  BY <1>7 DEF Answered
<1>8. CASE \E t \in Tasks : Terminate(t)
  BY <1>8 DEF Terminate, Goto
<1>9. CASE \E t \in Tasks : Scp(t)
  BY <1>9 DEF Scp, Goto
<1>10. CASE \E t \in Tasks : Pkill(t)
  BY <1>10 DEF Pkill, Goto
<1>11. CASE \E t \in Tasks : PkillFails(t)
  BY <1>11 DEF PkillFails, Goto
<1>12. CASE \E t \in Tasks : Spawn(t)
  BY <1>12 DEF Spawn, Goto
<1>13. CASE \E t \in Tasks : Status(t)
  BY <1>13 DEF Status
<1>14. CASE \E t \in Tasks : Fail(t)
  BY <1>14 DEF Fail
<1>15. CASE Serve(TRUE) \/ Serve(FALSE)
  BY <1>15 DEF Serve
<1>16. CASE \E d \in Deploys : Connect(d)
  BY <1>16 DEF Connect
<1>17. CASE \E d \in Deploys : SshEnds(d)
  BY <1>17 DEF SshEnds
<1>18. CASE \E d \in Deploys : Ready(d)
  BY <1>18 DEF Ready
<1>19. CASE \E d \in Deploys : Deafen(d)
  BY <1>19 DEF Deafen
<1>20. CASE \E d \in Deploys : Crash(d)
  BY <1>20 DEF Crash
<1>21. CASE \E d \in Deploys : Pipe(d)
  BY <1>21 DEF Pipe
<1>22. CASE PollFails
  BY <1>22 DEF PollFails, AfterFailure
<1>23. CASE Close
  BY <1>23 DEF Close, AllDone
<1>24. CASE Abort
  BY <1>24 DEF Abort, AllDone
<1>25. CASE Reopen
  BY <1>25 DEF Reopen, Goto
<1>26. CASE UNCHANGED dashboard
  BY <1>26
<1>27. QED
  BY <1>1, <1>2, <1>3, <1>4, <1>5, <1>6, <1>7, <1>8, <1>9, <1>10, <1>11, <1>12,
     <1>13, <1>14, <1>15, <1>16, <1>17, <1>18, <1>19, <1>20, <1>21, <1>22,
     <1>23, <1>24, <1>25, <1>26, NextCases

\* A request that a page sends is a well-typed entry of the inbox.
LEMMA AskTyped ==
    ASSUME HandlerTypes, Placed, InboxTypes, NEW t \in Tasks, Ask(t)
    PROVE  InboxTypes'
<1> DEFINE Req == [task : Pages, id : 1 .. requests,
                   via : Deploys, reload : BOOLEAN]
<1>1. PICK d \in Up :
          inbox' = Append(inbox, [task |-> t, id |-> mine[t], via |-> d,
                                  reload |-> job[t] # "reset"])
  BY DEF Ask
<1>2. t \in Pages /\ mine[t] \in 1 .. requests
  BY DEF HandlerTypes, Placed, Ask, Tasks
<1>3. [task |-> t, id |-> mine[t], via |-> d,
       reload |-> job[t] # "reset"] \in Req
  BY <1>2 DEF Up
<1> HIDE DEF Req
<1>4. inbox' \in Seq(Req)
  BY <1>1, <1>3, AppendProperties DEF InboxTypes, Req
<1>5. QED
  BY <1>4 DEF Req, InboxTypes, Ask, requested

\* The inbox after its head is served.
LEMMA InboxTail ==
    ASSUME InboxTypes, inbox # << >>, inbox' = Tail(inbox), requests' = requests
    PROVE  InboxTypes'
  BY HeadTailProperties DEF InboxTypes

\* The inbox while another request may begin.
LEMMA InboxKept ==
    ASSUME HandlerTypes, InboxTypes, inbox' = inbox,
           requests' \in {requests, requests + 1}
    PROVE  InboxTypes'
<1> DEFINE Req(n) == [task : Pages, id : 1 .. n,
                      via : Deploys, reload : BOOLEAN]
<1>1. Req(requests) \subseteq Req(requests')
  BY DEF HandlerTypes
<1> HIDE DEF Req
<1>2. inbox \in Seq(Req(requests'))
  BY <1>1, SeqMonotonic DEF InboxTypes, Req
<1>3. QED
  BY <1>2 DEF InboxTypes, Req

\* The inbox of a server that has died.
LEMMA InboxEmptied ==
    ASSUME inbox' = << >>
    PROVE  InboxTypes'
  BY EmptySeq DEF InboxTypes

\* Every step keeps the inbox well typed.
LEMMA InboxTypesStep ==
    HandlerTypes /\ Placed /\ InboxTypes /\ [DashboardNext]_dashboard => InboxTypes'
<1> SUFFICES ASSUME HandlerTypes, Placed, InboxTypes, [DashboardNext]_dashboard
             PROVE  InboxTypes'
  OBVIOUS
<1> USE DEF dashboard, requested, files, tunnel, kria, history
<1>1. CASE \E p \in Pages : Save(p)
  BY <1>1, InboxKept DEF Save
<1>2. CASE \E p \in Pages : \E kind \in Offers[p] : Request(p, kind)
  BY <1>2, InboxKept DEF Request
<1>3. CASE \E t \in Tasks : Lock(t)
  BY <1>3, InboxKept DEF Lock
<1>4. CASE \E t \in Tasks : Make(t, TRUE) \/ Make(t, FALSE)
  BY <1>4, InboxKept DEF Make, Done
<1>5. CASE \E t \in Tasks : Upload(t)
  BY <1>5, InboxKept DEF Upload
<1>6. CASE \E t \in Tasks : Ask(t)
  BY <1>6, AskTyped DEF Ask
<1>7. CASE \E t \in Tasks : Answered(t)
  BY <1>7, InboxKept DEF Answered, Done
<1>8. CASE \E t \in Tasks : Terminate(t)
  BY <1>8, InboxKept DEF Terminate
<1>9. CASE \E t \in Tasks : Scp(t)
  BY <1>9, InboxKept DEF Scp
<1>10. CASE \E t \in Tasks : Pkill(t)
  BY <1>10, InboxEmptied DEF Pkill, Dies
<1>11. CASE \E t \in Tasks : PkillFails(t)
  BY <1>11, InboxKept DEF PkillFails
<1>12. CASE \E t \in Tasks : Spawn(t)
  BY <1>12, InboxKept DEF Spawn
<1>13. CASE \E t \in Tasks : Status(t)
  BY <1>13, InboxKept DEF Status, Done
<1>14. CASE \E t \in Tasks : Fail(t)
  BY <1>14, InboxKept DEF Fail, Done
<1>15. CASE Serve(TRUE) \/ Serve(FALSE)
  BY <1>15, InboxTail DEF Serve
<1>16. CASE \E d \in Deploys : Connect(d)
  BY <1>16, InboxKept DEF Connect
<1>17. CASE \E d \in Deploys : SshEnds(d)
  BY <1>17, InboxKept DEF SshEnds
<1>18. CASE \E d \in Deploys : Ready(d)
  BY <1>18, InboxKept DEF Ready
<1>19. CASE \E d \in Deploys : Deafen(d)
  BY <1>19, InboxEmptied DEF Deafen
<1>20. CASE \E d \in Deploys : Crash(d)
  BY <1>20, InboxEmptied DEF Crash, Dies
<1>21. CASE \E d \in Deploys : Pipe(d)
  BY <1>21, InboxKept DEF Pipe
<1>22. CASE PollFails
  BY <1>22, InboxKept DEF PollFails
<1>23. CASE Close
  BY <1>23, InboxEmptied, InboxKept DEF Close, Dies, AllDone
<1>24. CASE Abort
  BY <1>24, InboxKept DEF Abort, AllDone
<1>25. CASE Reopen
  BY <1>25, InboxKept DEF Reopen
<1>26. CASE UNCHANGED dashboard
  BY <1>26, InboxKept
<1>27. QED
  BY <1>1, <1>2, <1>3, <1>4, <1>5, <1>6, <1>7, <1>8, <1>9, <1>10, <1>11, <1>12,
     <1>13, <1>14, <1>15, <1>16, <1>17, <1>18, <1>19, <1>20, <1>21, <1>22,
     <1>23, <1>24, <1>25, <1>26, NextCases

-----------------------------------------------------------------------------
(***************************************************************************)
(* The handlers: who may be where, and with which request.  What the end   *)
(* of a handler changes, and what it leaves to the others.                 *)
(***************************************************************************)
LEMMA DoneEffect ==
    ASSUME HandlerTypes, NEW t \in Tasks, Done(t)
    PROVE  /\ stage'[t] = "idle" /\ job'[t] = "none" /\ mine'[t] = 0
           /\ \A u \in Tasks \ {t} :
                  stage'[u] = stage[u] /\ job'[u] = job[u] /\ mine'[u] = mine[u]
           /\ requests' = requests
  BY DEF HandlerTypes, Done, Goto

\* A handler only does what its request is about, in its order.
LEMMA PlacedStep ==
    HandlerTypes /\ FlagTypes /\ InboxTypes /\ Placed /\ [DashboardNext]_dashboard => Placed'
<1> SUFFICES ASSUME HandlerTypes, FlagTypes, InboxTypes, Placed, [DashboardNext]_dashboard
             PROVE  Placed'
  OBVIOUS
<1> USE DashboardAssumption DEF DashboardAssumption, HandlerTypes, FlagTypes,
     Placed, Tasks, dashboard, requested, files, tunnel, kria, history
<1>1. CASE \E p \in Pages : Save(p)
  BY <1>1 DEF Save
<1>2. CASE \E p \in Pages : \E kind \in Offers[p] : Request(p, kind)
  BY <1>2 DEF Request, Goto, First
<1>3. CASE \E t \in Tasks : Lock(t)
  BY <1>3 DEF Lock, Goto, Tasks
<1>4. CASE \E t \in Tasks : Make(t, TRUE) \/ Make(t, FALSE)
  BY <1>4 DEF Make, Goto, Done, AfterMake, HolderAfter, Tasks
<1>5. CASE \E t \in Tasks : Upload(t)
  BY <1>5 DEF Upload, Goto
<1>6. CASE \E t \in Tasks : Ask(t)
  BY <1>6 DEF Ask, Goto
<1>7. CASE \E t \in Tasks : Answered(t)
  BY <1>7, DoneEffect DEF Answered
<1>8. CASE \E t \in Tasks : Terminate(t)
  BY <1>8 DEF Terminate, Goto
<1>9. CASE \E t \in Tasks : Scp(t)
  BY <1>9 DEF Scp, Goto
<1>10. CASE \E t \in Tasks : Pkill(t)
  BY <1>10 DEF Pkill, Goto
<1>11. CASE \E t \in Tasks : PkillFails(t)
  BY <1>11 DEF PkillFails, Goto
<1>12. CASE \E t \in Tasks : Spawn(t)
  BY <1>12 DEF Spawn, Goto
<1>13. CASE \E t \in Tasks : Status(t)
  BY <1>13, DoneEffect DEF Status
<1>14. CASE \E t \in Tasks : Fail(t)
  BY <1>14, DoneEffect DEF Fail
<1>15. CASE Serve(TRUE) \/ Serve(FALSE)
  BY <1>15 DEF Serve
<1>16. CASE \E d \in Deploys : Connect(d)
  BY <1>16 DEF Connect
<1>17. CASE \E d \in Deploys : SshEnds(d)
  BY <1>17 DEF SshEnds
<1>18. CASE \E d \in Deploys : Ready(d)
  BY <1>18 DEF Ready
<1>19. CASE \E d \in Deploys : Deafen(d)
  BY <1>19 DEF Deafen
<1>20. CASE \E d \in Deploys : Crash(d)
  BY <1>20 DEF Crash
<1>21. CASE \E d \in Deploys : Pipe(d)
  BY <1>21 DEF Pipe
<1>22. CASE PollFails
  BY <1>22 DEF PollFails
<1>23. CASE Close
  BY <1>23 DEF Close, AllDone, Busy
<1>24. CASE Abort
  BY <1>24 DEF Abort, AllDone
<1>25. CASE Reopen
  BY <1>25 DEF Reopen, Goto
<1>26. CASE UNCHANGED dashboard
  BY <1>26
<1>27. QED
  BY <1>1, <1>2, <1>3, <1>4, <1>5, <1>6, <1>7, <1>8, <1>9, <1>10, <1>11, <1>12,
     <1>13, <1>14, <1>15, <1>16, <1>17, <1>18, <1>19, <1>20, <1>21, <1>22,
     <1>23, <1>24, <1>25, <1>26, NextCases

\* Who may still start an ssh: nobody new without room for it, and the one
\* that starts it no longer.
LEMMA DeployingStep ==
    ASSUME HandlerTypes, Placed, [DashboardNext]_dashboard
    PROVE  \/ Deploying' \subseteq Deploying /\ deploys' = deploys
           \/ \E t \in Tasks : /\ Deploying' \subseteq Deploying \cup {t}
                              /\ deploys' = deploys /\ Deployments < MaxDeploys
           \/ \E t \in Deploying : /\ Deploying' \subseteq Deploying \ {t}
                                  /\ deploys' = deploys + 1
<1> USE DEF HandlerTypes, Deploying, dashboard, requested, files, tunnel, kria,
     history
<1>1. CASE \E p \in Pages : Save(p)
  BY <1>1 DEF Save
<1>2. CASE \E p \in Pages : \E kind \in Offers[p] : Request(p, kind)
  BY <1>2 DEF Request, Goto, First
<1>3. CASE \E t \in Tasks : Lock(t)
  BY <1>3 DEF Lock, Goto
<1>4. CASE \E t \in Tasks : Make(t, TRUE) \/ Make(t, FALSE)
  BY <1>4 DEF Make, Goto, Done, AfterMake, HolderAfter
<1>5. CASE \E t \in Tasks : Upload(t)
  BY <1>5 DEF Upload, Goto
<1>6. CASE \E t \in Tasks : Ask(t)
  BY <1>6 DEF Ask, Goto
<1>7. CASE \E t \in Tasks : Answered(t)
  BY <1>7, DoneEffect DEF Answered
<1>8. CASE \E t \in Tasks : Terminate(t)
  BY <1>8 DEF Terminate, Goto
<1>9. CASE \E t \in Tasks : Scp(t)
  BY <1>9 DEF Scp, Goto
<1>10. CASE \E t \in Tasks : Pkill(t)
  BY <1>10 DEF Pkill, Goto
<1>11. CASE \E t \in Tasks : PkillFails(t)
  BY <1>11 DEF PkillFails, Goto
<1>12. CASE \E t \in Tasks : Spawn(t)
  BY <1>12 DEF Spawn, Goto
<1>13. CASE \E t \in Tasks : Status(t)
  BY <1>13, DoneEffect DEF Status
<1>14. CASE \E t \in Tasks : Fail(t)
  BY <1>14, DoneEffect DEF Fail
<1>15. CASE Serve(TRUE) \/ Serve(FALSE)
  BY <1>15 DEF Serve
<1>16. CASE \E d \in Deploys : Connect(d)
  BY <1>16 DEF Connect
<1>17. CASE \E d \in Deploys : SshEnds(d)
  BY <1>17 DEF SshEnds
<1>18. CASE \E d \in Deploys : Ready(d)
  BY <1>18 DEF Ready
<1>19. CASE \E d \in Deploys : Deafen(d)
  BY <1>19 DEF Deafen
<1>20. CASE \E d \in Deploys : Crash(d)
  BY <1>20 DEF Crash
<1>21. CASE \E d \in Deploys : Pipe(d)
  BY <1>21 DEF Pipe
<1>22. CASE PollFails
  BY <1>22 DEF PollFails
<1>23. CASE Close
  BY <1>23 DEF Close, AllDone
<1>24. CASE Abort
  BY <1>24 DEF Abort, AllDone
<1>25. CASE Reopen
  BY <1>25 DEF Reopen, Goto
<1>26. CASE UNCHANGED dashboard
  BY <1>26
<1>27. QED
  BY <1>1, <1>2, <1>3, <1>4, <1>5, <1>6, <1>7, <1>8, <1>9, <1>10, <1>11, <1>12,
     <1>13, <1>14, <1>15, <1>16, <1>17, <1>18, <1>19, <1>20, <1>21, <1>22,
     <1>23, <1>24, <1>25, <1>26, NextCases

\* A page keeps its request, or has one that no entry of the inbox is of.
Fresh(p) == \/ mine'[p] = mine[p] /\ job'[p] = job[p]
            \/ mine'[p] \notin 1 .. requests

\* So entries that were about their request stay so while the inbox shrinks.
LEMMA AnswersKept ==
    ASSUME InboxTypes, AnswersOwn, \A p \in Pages : Fresh(p),
           \/ inbox' = inbox
           \/ inbox # << >> /\ inbox' = Tail(inbox)
           \/ inbox' = << >>
    PROVE  AnswersOwn'
<1> USE DEF AnswersOwn
<1>1. \A k \in DOMAIN inbox :
          inbox[k].task \in Pages /\ inbox[k].id \in 1 .. requests
  <2> DEFINE Req == [task : Pages, id : 1 .. requests,
                     via : Deploys, reload : BOOLEAN]
  <2>1. inbox \in Seq(Req)
    BY DEF InboxTypes
  <2> HIDE DEF Req
  <2>2. \A k \in DOMAIN inbox : inbox[k] \in Req
    BY <2>1, ElementOfSeq, LenProperties
  <2>3. QED
    BY <2>2 DEF Req
<1>2. ASSUME NEW k \in DOMAIN inbox,
             inbox[k].id = mine[inbox[k].task] =>
                 inbox[k].reload = (job[inbox[k].task] # "reset")
      PROVE  inbox[k].id = mine'[inbox[k].task] =>
                 inbox[k].reload = (job'[inbox[k].task] # "reset")
  BY <1>1, <1>2 DEF Fresh
<1>3. CASE inbox' = inbox
  BY <1>2, <1>3
<1>4. CASE inbox # << >> /\ inbox' = Tail(inbox)
  <2>1. /\ Len(inbox') = Len(inbox) - 1 /\ DOMAIN inbox' = 1 .. Len(inbox')
        /\ \A i \in 1 .. Len(inbox') : inbox'[i] = inbox[i + 1]
        /\ Len(inbox) \in Nat /\ DOMAIN inbox = 1 .. Len(inbox)
    BY <1>4, HeadTailProperties, LenProperties DEF InboxTypes
  <2>2. SUFFICES ASSUME NEW k \in DOMAIN inbox',
                        inbox'[k].id = mine'[inbox'[k].task]
                 PROVE  inbox'[k].reload = (job'[inbox'[k].task] # "reset")
    OBVIOUS
  <2>3. k + 1 \in DOMAIN inbox /\ inbox'[k] = inbox[k + 1]
    BY <2>1
  <2>4. QED
    BY <2>2, <2>3, <1>2
<1>5. CASE inbox' = << >>
  BY <1>5
<1>6. QED
  BY <1>3, <1>4, <1>5

\* An entry that a page adds is about its own request.
LEMMA AnswersAsked ==
    ASSUME HandlerTypes, InboxTypes, AnswersOwn, NEW t \in Tasks, Ask(t)
    PROVE  AnswersOwn'
<1> DEFINE Req == [task : Pages, id : 1 .. requests,
                   via : Deploys, reload : BOOLEAN]
<1>1. PICK d \in Up :
          inbox' = Append(inbox, [task |-> t, id |-> mine[t], via |-> d,
                                  reload |-> job[t] # "reset"])
  BY DEF Ask
<1>2. /\ Len(inbox) \in Nat /\ DOMAIN inbox = 1 .. Len(inbox)
      /\ DOMAIN inbox' = 1 .. Len(inbox) + 1
      /\ \A i \in DOMAIN inbox : inbox'[i] = inbox[i]
      /\ inbox'[Len(inbox) + 1].task = t
      /\ inbox'[Len(inbox) + 1].reload = (job[t] # "reset")
  BY <1>1, LenProperties DEF InboxTypes
<1>3. UNCHANGED <<mine, job>>
  BY DEF Ask, requested
<1>4. QED
  BY <1>2, <1>3 DEF AnswersOwn

\* An answer is about the request it goes to, also when a page gave up
\* waiting and asks again.
LEMMA AnswersOwnStep ==
    HandlerTypes /\ InboxTypes /\ AnswersOwn /\ [DashboardNext]_dashboard => AnswersOwn'
<1> SUFFICES ASSUME HandlerTypes, InboxTypes, AnswersOwn, [DashboardNext]_dashboard
             PROVE  AnswersOwn'
  OBVIOUS
<1> USE DEF HandlerTypes, Tasks, dashboard, requested, files, tunnel, kria, history
<1>1. CASE \E p \in Pages : Save(p)
  BY <1>1, AnswersKept DEF Save, Fresh
<1>2. CASE \E p \in Pages : \E kind \in Offers[p] : Request(p, kind)
  BY <1>2, AnswersKept DEF Request, Goto, First, Fresh
<1>3. CASE \E t \in Tasks : Lock(t)
  BY <1>3, AnswersKept DEF Lock, Goto, Fresh
<1>4. CASE \E t \in Tasks : Make(t, TRUE) \/ Make(t, FALSE)
  BY <1>4, AnswersKept, DoneEffect DEF Make, Goto, Done, AfterMake,
     HolderAfter, Fresh
<1>5. CASE \E t \in Tasks : Upload(t)
  BY <1>5, AnswersKept DEF Upload, Goto, Fresh
<1>6. CASE \E t \in Tasks : Ask(t)
  BY <1>6, AnswersAsked DEF Ask
<1>7. CASE \E t \in Tasks : Answered(t)
  BY <1>7, AnswersKept, DoneEffect DEF Answered, Fresh
<1>8. CASE \E t \in Tasks : Terminate(t)
  BY <1>8, AnswersKept DEF Terminate, Goto, Fresh
<1>9. CASE \E t \in Tasks : Scp(t)
  BY <1>9, AnswersKept DEF Scp, Goto, Fresh
<1>10. CASE \E t \in Tasks : Pkill(t)
  BY <1>10, AnswersKept DEF Pkill, Goto, Fresh, Dies
<1>11. CASE \E t \in Tasks : PkillFails(t)
  BY <1>11, AnswersKept DEF PkillFails, Goto, Fresh
<1>12. CASE \E t \in Tasks : Spawn(t)
  BY <1>12, AnswersKept DEF Spawn, Goto, Fresh
<1>13. CASE \E t \in Tasks : Status(t)
  BY <1>13, AnswersKept, DoneEffect DEF Status, Fresh
<1>14. CASE \E t \in Tasks : Fail(t)
  BY <1>14, AnswersKept, DoneEffect DEF Fail, Fresh
<1>15. CASE Serve(TRUE) \/ Serve(FALSE)
  BY <1>15, AnswersKept DEF Serve, Fresh
<1>16. CASE \E d \in Deploys : Connect(d)
  BY <1>16, AnswersKept DEF Connect, Fresh
<1>17. CASE \E d \in Deploys : SshEnds(d)
  BY <1>17, AnswersKept DEF SshEnds, Fresh
<1>18. CASE \E d \in Deploys : Ready(d)
  BY <1>18, AnswersKept DEF Ready, Fresh
<1>19. CASE \E d \in Deploys : Deafen(d)
  BY <1>19, AnswersKept DEF Deafen, Fresh
<1>20. CASE \E d \in Deploys : Crash(d)
  BY <1>20, AnswersKept DEF Crash, Fresh, Dies
<1>21. CASE \E d \in Deploys : Pipe(d)
  BY <1>21, AnswersKept DEF Pipe, Fresh
<1>22. CASE PollFails
  BY <1>22, AnswersKept DEF PollFails, Fresh
<1>23. CASE Close
  BY <1>23, AnswersKept DEF Close, AllDone, Fresh, Dies
<1>24. CASE Abort
  BY <1>24, AnswersKept DEF Abort, AllDone, Fresh
<1>25. CASE Reopen
  BY <1>25, AnswersKept, DashboardAssumption DEF Reopen, Goto, Fresh,
     DashboardAssumption
<1>26. CASE UNCHANGED dashboard
  BY <1>26, AnswersKept DEF Fresh
<1>27. QED
  BY <1>1, <1>2, <1>3, <1>4, <1>5, <1>6, <1>7, <1>8, <1>9, <1>10, <1>11, <1>12,
     <1>13, <1>14, <1>15, <1>16, <1>17, <1>18, <1>19, <1>20, <1>21, <1>22,
     <1>23, <1>24, <1>25, <1>26, NextCases

\* deploy() is never entered more often than there are deployments left.
LEMMA DeploymentsBoundedStep ==
    ASSUME HandlerTypes, LinkTypes, Placed, DeploymentsBounded, [DashboardNext]_dashboard
    PROVE  DeploymentsBounded'
<1> USE DashboardAssumption DEF DashboardAssumption, DeploymentsBounded,
     Deployments, LinkTypes
<1>1. Cardinality(Deploying) \in Nat
  BY FS_CardinalityType
<1>2. CASE Deploying' \subseteq Deploying /\ deploys' = deploys
  <2>1. /\ IsFiniteSet(Deploying')
        /\ Cardinality(Deploying') <= Cardinality(Deploying)
    BY <1>2, FS_Subset
  <2>2. Cardinality(Deploying') \in Nat
    BY <2>1, FS_CardinalityType
  <2>3. QED
    BY <1>1, <1>2, <2>1, <2>2
<1>3. ASSUME NEW t \in Tasks, Deploying' \subseteq Deploying \cup {t},
             deploys' = deploys,
             Deployments < MaxDeploys
      PROVE  DeploymentsBounded'
  <2>1. /\ IsFiniteSet(Deploying \cup {t})
        /\ Cardinality(Deploying \cup {t}) =
               IF t \in Deploying THEN Cardinality(Deploying)
               ELSE Cardinality(Deploying) + 1
    BY FS_AddElement
  <2>2. /\ IsFiniteSet(Deploying')
        /\ Cardinality(Deploying') <= Cardinality(Deploying \cup {t})
    BY <1>3, <2>1, FS_Subset
  <2>3. /\ Cardinality(Deploying') \in Nat
        /\ Cardinality(Deploying \cup {t}) \in Nat
    BY <2>1, <2>2, FS_CardinalityType
  <2>4. QED
    BY <1>1, <1>3, <2>1, <2>2, <2>3
<1>4. ASSUME NEW t \in Deploying, Deploying' \subseteq Deploying \ {t},
             deploys' = deploys + 1
      PROVE  DeploymentsBounded'
  <2>1. /\ IsFiniteSet(Deploying \ {t})
        /\ Cardinality(Deploying \ {t}) = Cardinality(Deploying) - 1
    BY <1>1, FS_RemoveElement
  <2>2. /\ IsFiniteSet(Deploying')
        /\ Cardinality(Deploying') <= Cardinality(Deploying \ {t})
    BY <1>4, <2>1, FS_Subset
  <2>3. Cardinality(Deploying') \in Nat
    BY <2>2, FS_CardinalityType
  <2>4. QED
    BY <1>1, <1>4, <2>1, <2>2, <2>3
<1>5. QED
  BY <1>2, <1>3, <1>4, DeployingStep

\* All this holds before the first request.
LEMMA HandlersInit == DashboardInit => HandlersPlaced
<1> SUFFICES ASSUME DashboardInit
             PROVE  HandlersPlaced
  OBVIOUS
<1> USE DashboardAssumption DEF DashboardAssumption, DashboardInit
<1>1. Placed
  BY DEF Placed, Tasks
<1>2. Deploying = {Startup}
  BY DEF Deploying, Tasks
<1>3. IsFiniteSet(Deploying) /\ Cardinality(Deploying) = 1
  BY <1>2, FS_Singleton
<1>4. DeploymentsBounded
  BY <1>3 DEF DeploymentsBounded, Deployments
<1>5. AnswersOwn
  BY DEF AnswersOwn
<1>6. QED
  BY <1>1, <1>4, <1>5 DEF HandlersPlaced

\* And every step keeps it, with the types.
LEMMA HandlersStep ==
    TypeOK /\ HandlersPlaced /\ [DashboardNext]_dashboard => (TypeOK /\ HandlersPlaced)'
  BY HandlerTypesStep, FileTypesStep, LinkTypesStep, InboxTypesStep,
     FlagTypesStep,
     PlacedStep, DeploymentsBoundedStep, AnswersOwnStep
  DEF TypeOK, HandlersPlaced

-----------------------------------------------------------------------------
(***************************************************************************)
(* What requests that do not overlap keep.  Where a request begins.        *)
(***************************************************************************)
LEMMA FirstPlaces ==
    ASSUME NEW kind
    PROVE  /\ First(kind) \in {"ask", "terminate", "lock"}
           /\ First(kind) = "terminate" <=> kind = "reconnect"
  BY DEF First

\* Who is at work after a request that did not overlap another.
LEMMA RequestEffect ==
    ASSUME HandlerTypes, FlagTypes, NEW p \in Pages, NEW kind,
           Request(p, kind), ~overlapped'
    PROVE  /\ ~overlapped /\ Busy \cap Pages = {} /\ Deploying = {}
           /\ kind = "reconnect" => Busy = {}
           /\ Busy' = Busy \cup {p}
           /\ Deploying' = IF kind = "reconnect" THEN {p} ELSE {}
<1>1. /\ ~overlapped /\ Busy \cap Pages = {} /\ Deploying = {}
      /\ kind = "reconnect" => Busy = {}
  BY DEF Request, FlagTypes
<1>2. /\ stage'[p] \in {"ask", "terminate", "lock"}
      /\ stage'[p] = "terminate" <=> kind = "reconnect"
      /\ \A u \in Tasks \ {p} : stage'[u] = stage[u]
      /\ p \in Tasks
  BY FirstPlaces DEF Request, Goto, HandlerTypes, Tasks
<1>3. Busy' = Busy \cup {p}
  BY <1>2 DEF Busy
<1>4. Deploying' = IF kind = "reconnect" THEN {p} ELSE {}
  BY <1>1, <1>2 DEF Deploying
<1>5. QED
  BY <1>1, <1>3, <1>4

\* While no two overlap, one page is at work, and a deployment works alone.
LEMMA OneAtATimeStep ==
    ASSUME HandlerTypes, Placed, FlagTypes, ~overlapped => OneAtATime,
           [DashboardNext]_dashboard, ~overlapped'
    PROVE  OneAtATime'
<1> USE DashboardAssumption DEF DashboardAssumption, HandlerTypes, FlagTypes,
     OneAtATime, Busy,
        Deploying, Tasks, dashboard, requested, files, tunnel, kria, history
<1>1. CASE \E p \in Pages : Save(p)
  BY <1>1 DEF Save
<1>2. CASE \E p \in Pages : \E kind \in Offers[p] : Request(p, kind)
  BY <1>2, RequestEffect DEF OneAtATime
<1>3. CASE \E t \in Tasks : Lock(t)
  BY <1>3 DEF Lock, Goto
<1>4. CASE \E t \in Tasks : Make(t, TRUE) \/ Make(t, FALSE)
  BY <1>4, DoneEffect DEF Make, Goto, Done, AfterMake, HolderAfter
<1>5. CASE \E t \in Tasks : Upload(t)
  BY <1>5 DEF Upload, Goto
<1>6. CASE \E t \in Tasks : Ask(t)
  BY <1>6 DEF Ask, Goto
<1>7. CASE \E t \in Tasks : Answered(t)
  BY <1>7, DoneEffect DEF Answered
<1>8. CASE \E t \in Tasks : Terminate(t)
  BY <1>8 DEF Terminate, Goto
<1>9. CASE \E t \in Tasks : Scp(t)
  BY <1>9 DEF Scp, Goto
<1>10. CASE \E t \in Tasks : Pkill(t)
  BY <1>10 DEF Pkill, Goto
<1>11. CASE \E t \in Tasks : PkillFails(t)
  BY <1>11 DEF PkillFails, Goto
<1>12. CASE \E t \in Tasks : Spawn(t)
  BY <1>12 DEF Spawn, Goto
<1>13. CASE \E t \in Tasks : Status(t)
  BY <1>13, DoneEffect DEF Status
<1>14. CASE \E t \in Tasks : Fail(t)
  BY <1>14, DoneEffect DEF Fail
<1>15. CASE Serve(TRUE) \/ Serve(FALSE)
  BY <1>15 DEF Serve
<1>16. CASE \E d \in Deploys : Connect(d)
  BY <1>16 DEF Connect
<1>17. CASE \E d \in Deploys : SshEnds(d)
  BY <1>17 DEF SshEnds
<1>18. CASE \E d \in Deploys : Ready(d)
  BY <1>18 DEF Ready
<1>19. CASE \E d \in Deploys : Deafen(d)
  BY <1>19 DEF Deafen
<1>20. CASE \E d \in Deploys : Crash(d)
  BY <1>20 DEF Crash
<1>21. CASE \E d \in Deploys : Pipe(d)
  BY <1>21 DEF Pipe
<1>22. CASE PollFails
  BY <1>22 DEF PollFails
<1>23. CASE Close
  BY <1>23 DEF Close, AllDone, Busy
<1>24. CASE Abort
  BY <1>24 DEF Abort, AllDone
<1>25. CASE Reopen
  BY <1>25 DEF Reopen, Goto, Placed
<1>26. CASE UNCHANGED dashboard
  BY <1>26
<1>27. QED
  BY <1>1, <1>2, <1>3, <1>4, <1>5, <1>6, <1>7, <1>8, <1>9, <1>10, <1>11, <1>12,
     <1>13, <1>14, <1>15, <1>16, <1>17, <1>18, <1>19, <1>20, <1>21, <1>22,
     <1>23, <1>24, <1>25, <1>26, NextCases

\* What an answer says, and to whom.
LEMMA ServeEffect ==
    ASSUME HandlerTypes, InboxTypes, AnswersOwn, NEW ok \in BOOLEAN, Serve(ok)
    PROVE  /\ image' \in {image, nextMem}
           /\ \A p \in Pages : stage'[p] # stage[p] =>
                  /\ stage[p] = "asked"
                  /\ \/ stage'[p] = "refused"
                     \/ /\ stage'[p] = "answered"
                        /\ job[p] # "reset" => image' = nextMem
           /\ \E d \in Deploys : server[d] = "ready"
           /\ UNCHANGED <<mine, job, source, firmware, nextMem, overlapped,
                          pkillFailed, life>>
<1> DEFINE r == Head(inbox)
<1>1. r.reload \in BOOLEAN /\ r = inbox[1] /\ 1 \in DOMAIN inbox
  <2> DEFINE Req == [task : Pages, id : 1 .. requests,
                     via : Deploys, reload : BOOLEAN]
  <2>1. inbox \in Seq(Req) /\ inbox # << >>
    BY DEF InboxTypes, Serve
  <2> HIDE DEF Req
  <2>2. Head(inbox) \in Req /\ Head(inbox) = inbox[1] /\ 1 \in DOMAIN inbox
    BY <2>1, HeadTailProperties, LenProperties, EmptySeq
  <2>3. QED
    BY <2>2 DEF Req
<1>2. r.id = mine[r.task] => r.reload = (job[r.task] # "reset")
  BY <1>1 DEF AnswersOwn
<1>3. /\ image' = IF ok /\ r.reload THEN nextMem ELSE image
      /\ \/ stage' = stage
         \/ /\ stage[r.task] = "asked" /\ mine[r.task] = r.id
            /\ stage' = [stage EXCEPT ![r.task] =
                                 IF ok THEN "answered" ELSE "refused"]
      /\ \E d \in Deploys : server[d] = "ready"
      /\ UNCHANGED <<mine, job, source, firmware, nextMem, overlapped,
                     pkillFailed, life>>
  BY DEF Serve, requested, files, history
<1> HIDE DEF r
<1>4. \A p \in Pages : stage'[p] # stage[p] =>
                  /\ stage[p] = "asked" /\ p = r.task /\ r.id = mine[r.task]
                  /\ stage'[p] = IF ok THEN "answered" ELSE "refused"
  BY <1>3 DEF HandlerTypes, Tasks
<1>5. QED
  BY <1>1, <1>2, <1>3, <1>4

\* main.c, the image and the memory stay those of the request at work, from
\* handle_build to the answer of the board.
LEMMA SourceCarriedStep ==
    ASSUME HandlerTypes, FileTypes, InboxTypes, FlagTypes, HandlersPlaced,
           InvSeparate, InvServers, [DashboardNext]_dashboard, ~overlapped'
    PROVE  SourceCarried'
<1> USE DashboardAssumption DEF DashboardAssumption, HandlerTypes, FlagTypes,
     InvSeparate, SourceCarried, OneAtATime, Busy, HandlersPlaced, Placed,
        Tasks, dashboard, requested, files, tunnel, kria, history
<1>1. CASE \E p \in Pages : Save(p)
  BY <1>1 DEF Save
<1>2. CASE \E p \in Pages : \E kind \in Offers[p] : Request(p, kind)
  BY <1>2 DEF Request, Goto, First
<1>3. CASE \E t \in Tasks : Lock(t)
  BY <1>3 DEF Lock, Goto
<1>4. CASE \E t \in Tasks : Make(t, TRUE) \/ Make(t, FALSE)
  BY <1>4, DoneEffect DEF Make, Goto, Done, AfterMake, HolderAfter
<1>5. CASE \E t \in Tasks : Upload(t)
  BY <1>5 DEF Upload, Goto
<1>6. CASE \E t \in Tasks : Ask(t)
  BY <1>6 DEF Ask, Goto
<1>7. CASE \E t \in Tasks : Answered(t)
  BY <1>7, DoneEffect DEF Answered
<1>8. CASE \E t \in Tasks : Terminate(t)
  BY <1>8 DEF Terminate, Goto
<1>9. CASE \E t \in Tasks : Scp(t)
  BY <1>9 DEF Scp, Goto
<1>10. CASE \E t \in Tasks : Pkill(t)
  BY <1>10 DEF Pkill, Goto
<1>11. CASE \E t \in Tasks : PkillFails(t)
  BY <1>11 DEF PkillFails, Goto
<1>12. CASE \E t \in Tasks : Spawn(t)
  BY <1>12 DEF Spawn, Goto
<1>13. CASE \E t \in Tasks : Status(t)
  BY <1>13, DoneEffect DEF Status
<1>14. CASE \E t \in Tasks : Fail(t)
  BY <1>14, DoneEffect DEF Fail
<1>15. CASE Serve(TRUE) \/ Serve(FALSE)
  <2>1. PICK ok \in BOOLEAN : Serve(ok)
    BY <1>15
  <2>2. QED
    BY <2>1, ServeEffect
<1>16. CASE \E d \in Deploys : Connect(d)
  BY <1>16 DEF Connect, InvServers, ServersReplaced, Alive
<1>17. CASE \E d \in Deploys : SshEnds(d)
  BY <1>17 DEF SshEnds
<1>18. CASE \E d \in Deploys : Ready(d)
  BY <1>18 DEF Ready
<1>19. CASE \E d \in Deploys : Deafen(d)
  BY <1>19 DEF Deafen
<1>20. CASE \E d \in Deploys : Crash(d)
  BY <1>20 DEF Crash
<1>21. CASE \E d \in Deploys : Pipe(d)
  BY <1>21 DEF Pipe
<1>22. CASE PollFails
  BY <1>22 DEF PollFails
<1>23. CASE Close
  BY <1>23 DEF Close, AllDone, Busy
<1>24. CASE Abort
  BY <1>24 DEF Abort, AllDone
<1>25. CASE Reopen
  BY <1>25 DEF Reopen, Goto
<1>26. CASE UNCHANGED dashboard
  BY <1>26
<1>27. QED
  BY <1>1, <1>2, <1>3, <1>4, <1>5, <1>6, <1>7, <1>8, <1>9, <1>10, <1>11, <1>12,
     <1>13, <1>14, <1>15, <1>16, <1>17, <1>18, <1>19, <1>20, <1>21, <1>22,
     <1>23, <1>24, <1>25, <1>26, NextCases

\* A step that ends no ssh and brings no handler to the copy keeps them.
LEMMA LinksKept ==
    ASSUME LinksOwned, UNCHANGED <<link, ssh, left, life>>,
           \A t \in Tasks : stage'[t] \in {"scp", "pkill", "spawn"} =>
                                   stage[t] \in {"scp", "pkill", "spawn"}
    PROVE  LinksOwned'
  BY DEF LinksOwned, SshRuns

\* self.ssh stays the only ssh that runs, and none runs between terminate
\* and spawn.
LEMMA LinksOwnedStep ==
    ASSUME HandlerTypes, LinkTypes, FlagTypes, HandlersPlaced,
           InvSeparate, [DashboardNext]_dashboard, ~overlapped'
    PROVE  LinksOwned'
<1> USE DashboardAssumption DEF DashboardAssumption, HandlerTypes, LinkTypes,
     FlagTypes, InvSeparate, LinksOwned, SshRuns, HandlersPlaced,
        Tasks, Deploys, dashboard, requested, files, tunnel, kria, history
<1>1. CASE \E p \in Pages : Save(p)
  BY <1>1 DEF Save
<1>2. CASE \E p \in Pages : \E kind \in Offers[p] : Request(p, kind)
  BY <1>2 DEF Request, Goto, First, Placed
<1>3. CASE \E t \in Tasks : Lock(t)
  BY <1>3 DEF Lock, Goto
<1>4. CASE \E t \in Tasks : Make(t, TRUE) \/ Make(t, FALSE)
  BY <1>4, DoneEffect DEF Make, Goto, Done, AfterMake, HolderAfter
<1>5. CASE \E t \in Tasks : Upload(t)
  BY <1>5 DEF Upload, Goto
<1>6. CASE \E t \in Tasks : Ask(t)
  BY <1>6 DEF Ask, Goto
<1>7. CASE \E t \in Tasks : Answered(t)
  <2>1. UNCHANGED <<link, ssh, left, life, overlapped>>
    BY <1>7 DEF Answered
  <2>2. \A t \in Tasks : stage'[t] = stage[t] \/ stage'[t] = "idle"
    BY <1>7, DoneEffect DEF Answered
  <2>3. QED
    BY <2>1, <2>2, LinksKept
<1>8. CASE \E t \in Tasks : Terminate(t)
  BY <1>8 DEF Terminate, Goto, Ends, Deploying, Busy, OneAtATime
<1>9. CASE \E t \in Tasks : Scp(t)
  BY <1>9 DEF Scp, Goto
<1>10. CASE \E t \in Tasks : Pkill(t)
  BY <1>10 DEF Pkill, Goto, Dies
<1>11. CASE \E t \in Tasks : PkillFails(t)
  BY <1>11 DEF PkillFails, Goto
<1>12. CASE \E t \in Tasks : Spawn(t)
  <2>1. PICK t \in Tasks : Spawn(t)
    BY <1>12
  <2>2. deploys + 1 \in Deploys
    BY <2>1, SpawnFits DEF Spawn
  <2>3. /\ link' = [link EXCEPT ![deploys + 1] = "connecting"]
        /\ ssh' = deploys + 1
        /\ UNCHANGED <<life, left, overlapped>>
    BY <2>1 DEF Spawn
  <2>4. /\ life = "open"
        /\ \A u \in Tasks : stage'[u] \notin {"scp", "pkill", "spawn"}
    BY <2>1 DEF Spawn, Goto, Deploying, Busy, OneAtATime, Placed
  <2>5. \A d \in Deploys : link[d] # "connecting" /\ (SshRuns(d) => d \in left)
    BY <2>1 DEF Spawn
  <2>6. QED
    BY <2>2, <2>3, <2>4, <2>5
<1>13. CASE \E t \in Tasks : Status(t)
  <2>1. UNCHANGED <<link, ssh, left, life, overlapped>>
    BY <1>13 DEF Status
  <2>2. \A t \in Tasks : stage'[t] = stage[t] \/ stage'[t] = "idle"
    BY <1>13, DoneEffect DEF Status
  <2>3. QED
    BY <2>1, <2>2, LinksKept
<1>14. CASE \E t \in Tasks : Fail(t)
  <2>1. UNCHANGED <<link, ssh, left, life, overlapped>>
    BY <1>14 DEF Fail
  <2>2. \A t \in Tasks : stage'[t] = stage[t] \/ stage'[t] = "idle"
    BY <1>14, DoneEffect DEF Fail
  <2>3. QED
    BY <2>1, <2>2, LinksKept
<1>15. CASE Serve(TRUE) \/ Serve(FALSE)
  <2>1. UNCHANGED <<link, ssh, left, life, overlapped>>
    BY <1>15 DEF Serve
  <2>2. \A t \in Tasks : stage'[t] = stage[t] \/ stage'[t] \in {"answered", "refused"}
    BY <1>15 DEF Serve
  <2>3. QED
    BY <2>1, <2>2, LinksKept
<1>16. CASE \E d \in Deploys : Connect(d)
  BY <1>16 DEF Connect
<1>17. CASE \E d \in Deploys : SshEnds(d)
  BY <1>17 DEF SshEnds, Ends
<1>18. CASE \E d \in Deploys : Ready(d)
  BY <1>18 DEF Ready
<1>19. CASE \E d \in Deploys : Deafen(d)
  BY <1>19 DEF Deafen
<1>20. CASE \E d \in Deploys : Crash(d)
  BY <1>20 DEF Crash, Dies
<1>21. CASE \E d \in Deploys : Pipe(d)
  BY <1>21 DEF Pipe
<1>22. CASE PollFails
  BY <1>22 DEF PollFails
<1>23. CASE Close
  BY <1>23 DEF Close, AllDone, Busy, Ends, EndsOwn
<1>24. CASE Abort
  BY <1>24 DEF Abort, AllDone
<1>25. CASE Reopen
  BY <1>25 DEF Reopen, Goto, Placed
<1>26. CASE UNCHANGED dashboard
  BY <1>26
<1>27. QED
  BY <1>1, <1>2, <1>3, <1>4, <1>5, <1>6, <1>7, <1>8, <1>9, <1>10, <1>11, <1>12,
     <1>13, <1>14, <1>15, <1>16, <1>17, <1>18, <1>19, <1>20, <1>21, <1>22,
     <1>23, <1>24, <1>25, <1>26, NextCases

\* A step that changes no server and no connection, and brings no handler to
\* the spawn or to its question, keeps them apart.
LEMMA ServersKept ==
    ASSUME ServersReplaced, UNCHANGED <<link, server>>,
           \A t \in Tasks :
               /\ stage'[t] = "spawn" => stage[t] = "spawn"
               /\ stage'[t] \in {"asked", "answered"} => stage[t] \in {"asked", "answered"}
    PROVE  ServersReplaced'
  BY DEF ServersReplaced, Alive, Tasks

\* A server that comes up finds none: pkill ended it before, also the one
\* whose ssh was cut, whatever crashes, turns deaf or fails in between.
LEMMA ServersReplacedStep ==
    ASSUME HandlerTypes, LinkTypes, InboxTypes, FlagTypes, HandlersPlaced,
           InvSeparate, InvServers, [DashboardNext]_dashboard, ~overlapped', ~pkillFailed'
    PROVE  ServersReplaced'
<1> USE DashboardAssumption DEF DashboardAssumption, HandlerTypes, LinkTypes,
     FlagTypes, InvSeparate, InvServers, ServersReplaced, Alive, HandlersPlaced,
        Tasks, Deploys, dashboard, requested, files, tunnel, kria, history
<1>1. CASE \E p \in Pages : Save(p)
  BY <1>1 DEF Save
<1>2. CASE \E p \in Pages : \E kind \in Offers[p] : Request(p, kind)
  BY <1>2 DEF Request, Goto, First
<1>3. CASE \E t \in Tasks : Lock(t)
  BY <1>3 DEF Lock, Goto
<1>4. CASE \E t \in Tasks : Make(t, TRUE) \/ Make(t, FALSE)
  BY <1>4, DoneEffect DEF Make, Goto, Done, AfterMake, HolderAfter
<1>5. CASE \E t \in Tasks : Upload(t)
  BY <1>5 DEF Upload, Goto
<1>6. CASE \E t \in Tasks : Ask(t)
  <2>1. PICK t \in Tasks : Ask(t)
    BY <1>6
  <2>2. UNCHANGED <<link, server, overlapped, pkillFailed>>
    BY <2>1 DEF Ask
  <2>3. \E d \in Deploys : server[d] = "ready"
    BY <2>1 DEF Ask, Reachable
  <2>4. \A u \in Tasks : stage'[u] # "spawn" \/ stage'[u] = stage[u]
    BY <2>1 DEF Ask, Goto
  <2>5. QED
    BY <2>2, <2>3, <2>4
<1>7. CASE \E t \in Tasks : Answered(t)
  <2>1. UNCHANGED <<link, server, overlapped, pkillFailed>>
    BY <1>7 DEF Answered
  <2>2. \A t \in Tasks : stage'[t] = stage[t] \/ stage'[t] = "idle"
    BY <1>7, DoneEffect DEF Answered
  <2>3. QED
    BY <2>1, <2>2, ServersKept
<1>8. CASE \E t \in Tasks : Terminate(t)
  BY <1>8 DEF Terminate, Goto, Ends
<1>9. CASE \E t \in Tasks : Scp(t)
  BY <1>9 DEF Scp, Goto
<1>10. CASE \E t \in Tasks : Pkill(t)
  BY <1>10 DEF Pkill, Goto, Dies, Killed
<1>11. CASE \E t \in Tasks : PkillFails(t)
  <2>1. PICK t \in Tasks : PkillFails(t)
    BY <1>11
  <2>2. /\ UNCHANGED <<link, server, overlapped>>
        /\ ~pkillFailed /\ Alive = {}
    BY <2>1 DEF PkillFails
  <2>3. \A u \in Tasks : stage'[u] = stage[u] \/ stage'[u] = "spawn"
    BY <2>1 DEF PkillFails, Goto
  <2>4. QED
    BY <2>2, <2>3
<1>12. CASE \E t \in Tasks : Spawn(t)
  BY <1>12 DEF Spawn, Goto, Deploying, Busy, OneAtATime, Placed
<1>13. CASE \E t \in Tasks : Status(t)
  <2>1. UNCHANGED <<link, server, overlapped, pkillFailed>>
    BY <1>13 DEF Status
  <2>2. \A t \in Tasks : stage'[t] = stage[t] \/ stage'[t] = "idle"
    BY <1>13, DoneEffect DEF Status
  <2>3. QED
    BY <2>1, <2>2, ServersKept
<1>14. CASE \E t \in Tasks : Fail(t)
  <2>1. UNCHANGED <<link, server, overlapped, pkillFailed>>
    BY <1>14 DEF Fail
  <2>2. \A t \in Tasks : stage'[t] = stage[t] \/ stage'[t] = "idle"
    BY <1>14, DoneEffect DEF Fail
  <2>3. QED
    BY <2>1, <2>2, ServersKept
<1>15. CASE Serve(TRUE) \/ Serve(FALSE)
  <2>1. UNCHANGED <<link, server, overlapped, pkillFailed>>
    BY <1>15 DEF Serve
  <2>2. \A t \in Tasks : stage'[t] = stage[t] \/ stage[t] = "asked"
    BY <1>15 DEF Serve
  <2>3. \A t \in Tasks : stage'[t] = stage[t] \/ stage'[t] \in {"answered", "refused"}
    BY <1>15 DEF Serve
  <2>4. QED
    BY <2>1, <2>2, <2>3, ServersKept
<1>16. CASE \E d \in Deploys : Connect(d)
  <2>1. PICK d \in Deploys : Connect(d)
    BY <1>16
  <2>2. UNCHANGED <<stage, ssh, overlapped, pkillFailed>>
    BY <2>1 DEF Connect
  <2>3. ~overlapped /\ ~pkillFailed /\ ServersReplaced /\ LinksOwned
    BY <2>2
  <2>4. link[d] = "connecting" /\ d = ssh /\ Alive = {}
    BY <2>1, <2>3 DEF Connect, LinksOwned
  <2>5. Alive' \subseteq {d}
    BY <2>1, <2>4 DEF Connect
  <2>6. \A e \in Deploys : link'[e] # "connecting"
    BY <2>1, <2>3, <2>4 DEF Connect, LinksOwned
  <2>7. \A t \in Tasks : stage[t] # "spawn"
    BY <2>3, <2>4 DEF LinksOwned
  <2>8. QED
    BY <2>2, <2>5, <2>6, <2>7
<1>17. CASE \E d \in Deploys : SshEnds(d)
  BY <1>17 DEF SshEnds, Ends
<1>18. CASE \E d \in Deploys : Ready(d)
  BY <1>18 DEF Ready
<1>19. CASE \E d \in Deploys : Deafen(d)
  BY <1>19 DEF Deafen
<1>20. CASE \E d \in Deploys : Crash(d)
  BY <1>20 DEF Crash, Dies
<1>21. CASE \E d \in Deploys : Pipe(d)
  BY <1>21 DEF Pipe
<1>22. CASE PollFails
  BY <1>22 DEF PollFails
<1>23. CASE Close
  BY <1>23 DEF Close, AllDone, Busy, Dies, Ends, EndsOwn
<1>24. CASE Abort
  BY <1>24 DEF Abort, AllDone
<1>25. CASE Reopen
  BY <1>25 DEF Reopen, Goto, Placed
<1>26. CASE UNCHANGED dashboard
  BY <1>26
<1>27. QED
  BY <1>1, <1>2, <1>3, <1>4, <1>5, <1>6, <1>7, <1>8, <1>9, <1>10, <1>11, <1>12,
     <1>13, <1>14, <1>15, <1>16, <1>17, <1>18, <1>19, <1>20, <1>21, <1>22,
     <1>23, <1>24, <1>25, <1>26, NextCases

-----------------------------------------------------------------------------
(***************************************************************************)
(* The results.  The state the backend starts in has no server and no ssh. *)
(***************************************************************************)
LEMMA SeparateInit == DashboardInit => InvSeparate /\ InvServers
<1> SUFFICES ASSUME DashboardInit
             PROVE  OneAtATime /\ SourceCarried /\ LinksOwned /\ ServersReplaced
  BY DEF InvSeparate, InvServers
<1> USE DashboardAssumption DEF DashboardAssumption, DashboardInit, Tasks
<1>1. OneAtATime
  BY DEF OneAtATime, Busy, Deploying
<1>2. SourceCarried
  BY DEF SourceCarried
<1>3. LinksOwned
  BY DEF LinksOwned, SshRuns
<1>4. ServersReplaced
  BY DEF ServersReplaced, Alive
<1>5. QED
  BY <1>1, <1>2, <1>3, <1>4

\* The inductive invariant.
IInv == TypeOK /\ HandlersPlaced /\ InvSeparate /\ InvServers

\* It holds at the start.
LEMMA InvInit == DashboardInit => IInv
  BY TypeInit, HandlersInit, SeparateInit DEF IInv

\* Every step keeps it.
LEMMA InvStep == IInv /\ [DashboardNext]_dashboard => IInv'
<1> SUFFICES ASSUME IInv, [DashboardNext]_dashboard
             PROVE  IInv'
  OBVIOUS
<1>1. (TypeOK /\ HandlersPlaced)'
  BY HandlersStep DEF IInv
<1>2. InvSeparate'
  BY OneAtATimeStep, SourceCarriedStep, LinksOwnedStep
  DEF IInv, TypeOK, HandlersPlaced, InvSeparate
<1>3. InvServers'
  BY ServersReplacedStep DEF IInv, TypeOK, InvServers
<1>4. QED
  BY <1>1, <1>2, <1>3 DEF IInv

\* One server at most is a matter of counting.
LEMMA AliveAtMostOne ==
    ASSUME IInv, ~overlapped, ~pkillFailed
    PROVE  Cardinality(Alive) <= 1
<1>1. CASE Alive = {}
  BY <1>1, FS_EmptySet
<1>2. CASE Alive # {}
  <2>1. PICK d \in Alive : Alive = {d}
    BY <1>2 DEF IInv, InvServers, ServersReplaced
  <2>2. Cardinality({d}) = 1
    BY FS_Singleton
  <2>3. QED
    BY <2>1, <2>2
<1>3. QED
  BY <1>1, <1>2

\* It implies what the two theorems say.
LEMMA InvImplies == IInv => ServersOwned /\ AppliedIsMine
<1> SUFFICES ASSUME IInv
             PROVE  ServersOwned /\ AppliedIsMine
  OBVIOUS
<1>1. OneServer
  BY AliveAtMostOne DEF OneServer
<1>2. NoOrphans
  BY DEF NoOrphans, IInv, InvSeparate, LinksOwned
<1>3. AppliedIsMine
  BY DEF AppliedIsMine, IInv, InvSeparate, SourceCarried
<1>4. QED
  BY <1>1, <1>2, <1>3 DEF ServersOwned, IInv

(***************************************************************************)
(* As long as requests and deployments do not overlap, a closed dashboard  *)
(* leaves no ssh behind but what an earlier crash left; and if besides no  *)
(* pkill fails while a server runs, two servers never drive one board.     *)
(* Both hold however tunnels are cut and the server and the dashboard      *)
(* crash and start again (dashboard.py:120-177).  With two deployments at  *)
(* once, or a pkill that fails unnoticed, the code promises neither.       *)
(***************************************************************************)
THEOREM ServersCorrect == DashboardSpec => []ServersOwned
<1>1. QED
  BY InvInit, InvStep, InvImplies, PTL DEF DashboardSpec

(***************************************************************************)
(* As long as requests do not overlap and no pkill fails while a server    *)
(* runs, a page that is told its firmware runs is told the truth: the core *)
(* runs what was made from its own source, whatever tunnels are cut,       *)
(* answers time out and servers are replaced (dashboard.py:191-250).  Of   *)
(* two requests that overlap it says nothing.                              *)
(***************************************************************************)
THEOREM AppliedCorrect == DashboardSpec => []AppliedIsMine
<1>1. QED
  BY InvInit, InvStep, InvImplies, PTL DEF DashboardSpec

=============================================================================
