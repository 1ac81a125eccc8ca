----------------------------- MODULE Dashboard ------------------------------
(***************************************************************************)
(* The control plane of harness/dashboard/backend/dashboard.py: building a *)
(* firmware, copying it to the board, asking the server to load it, and    *)
(* (re)starting that server over ssh.  An action is what runs between two  *)
(* awaits of the event loop; the handlers of several pages, the deployment *)
(* at start-up, poll_state and pipe_server_log interleave.                 *)
(*                                                                         *)
(* A source, and what is made from it, is a number; the board is what the  *)
(* commands of FpgaServer make of it.  The n-th ssh started by deploy(),   *)
(* and the server it starts on the board, are number n.                    *)
(***************************************************************************)
EXTENDS Integers, Sequences, FiniteSets

CONSTANTS Pages,            \* browser pages
          Startup,          \* the deployment that start() launches
          Nobody,           \* no holder of the lock
          Offers,           \* bound: what each page may ask for
          MaxDeploys,       \* bound on the deployments
          MaxWork           \* bound on these and the requests together

ASSUME DashboardAssumption ==
    /\ Startup \notin Pages /\ Nobody \notin Pages \cup {Startup}
    /\ Offers \in [Pages -> SUBSET {"build", "apply", "track", "reset", "reconnect"}]
    /\ MaxDeploys \in Nat \ {0} /\ MaxWork \in Nat

Tasks == Pages \cup {Startup}
Deploys == 1 .. MaxDeploys

VARIABLES
    stage, job, mine,   \* the handlers: where, of which request, which source
    requests,           \* requests so far
    source, firmware,   \* main.c and build/rom.mem
    romMem, nextMem,    \* rom.mem and rom.next.mem on the board
    build_lock,
    deploys, ssh,       \* deployments so far, the number of self.ssh (0: None)
    link, eof,          \* ssh processes; those whose end is not noticed yet
    server, inbox,      \* servers; requests that reached the board
    image,              \* what the core runs
    connected,          \* board["connected"]
    life,               \* of the dashboard itself
    \* What follows only records what happened.
    overlapped,         \* two requests were in progress at once
    left,               \* ssh processes a crash left behind
    pkillFailed         \* a pkill failed while a server ran

requested == <<job, mine, requests>>
files     == <<source, firmware, romMem, nextMem>>
tunnel    == <<deploys, ssh, link, eof>>
kria      == <<server, inbox, image>>
history   == <<overlapped, left, pkillFailed>>
dashboard == <<stage, requested, files, build_lock, tunnel, kria, connected, life,
               history>>

Up == {d \in Deploys : link[d] = "up"}
Alive == {d \in Deploys : server[d] \in {"booting", "ready", "deaf"}}
Reachable == Up # {} /\ \E d \in Deploys : server[d] = "ready"

DashboardInit ==
    /\ stage = [t \in Tasks |-> IF t = Startup THEN "terminate" ELSE "idle"]
    /\ job = [t \in Tasks |-> IF t = Startup THEN "reconnect" ELSE "none"]
    /\ mine = [t \in Tasks |-> 0]
    /\ requests = 0
    /\ source = 0 /\ firmware = 0 /\ romMem = 0 /\ nextMem = 0
    /\ build_lock = Nobody
    /\ deploys = 0 /\ ssh = 0
    /\ link = [d \in Deploys |-> "none"] /\ eof = {}
    /\ server = [d \in Deploys |-> "none"] /\ inbox = << >> /\ image = 0
    /\ connected = FALSE
    /\ life = "open" /\ overlapped = FALSE /\ left = {} /\ pkillFailed = FALSE

Goto(t, where) == stage' = [stage EXCEPT ![t] = where]

Done(t) == /\ Goto(t, "idle")
           /\ job' = [job EXCEPT ![t] = "none"]
           /\ mine' = [mine EXCEPT ![t] = 0]
           /\ UNCHANGED requests

AllDone == /\ stage' = [t \in Tasks |-> "idle"]
           /\ job' = [t \in Tasks |-> "none"] /\ mine' = [t \in Tasks |-> 0]
           /\ UNCHANGED requests

-----------------------------------------------------------------------------
(***************************************************************************)
(* Requests of a page.  It sends one at a time; another page, or the same  *)
(* one loaded again, does not wait for it.  "Save" writes outside the lock.*)
(***************************************************************************)
First(kind) == CASE kind = "reset"     -> "ask"
                 [] kind = "reconnect" -> "terminate"
                 [] OTHER              -> "lock"

Busy == {t \in Tasks : stage[t] # "idle"}

\* Deployments that have not started their ssh yet; the bound counts them.
Deploying == {t \in Tasks : stage[t] \in {"terminate", "scp", "pkill", "spawn"}}
Deployments == deploys + Cardinality(Deploying)

MayAsk == requests + Deployments < MaxWork

Request(p, kind) ==
    /\ stage[p] = "idle" /\ life = "open"
    /\ MayAsk
    /\ kind = "reconnect" => Deployments < MaxDeploys
    /\ requests' = requests + 1
    /\ job' = [job EXCEPT ![p] = kind]
    /\ mine' = [mine EXCEPT ![p] = requests']
    /\ Goto(p, First(kind))
    /\ overlapped' = (overlapped \/ Busy \cap Pages # {} \/ Deploying # {}
                                 \/ (kind = "reconnect" /\ Busy # {}))
    /\ UNCHANGED <<files, build_lock, tunnel, kria, connected, life, left,
                   pkillFailed>>

Save(p) == /\ stage[p] = "idle" /\ life = "open"
           /\ MayAsk
           /\ requests' = requests + 1
           /\ source' = requests'
           /\ overlapped' = (overlapped \/ Busy \cap Pages # {})
           /\ UNCHANGED <<stage, job, mine, firmware, romMem, nextMem, build_lock,
                          tunnel, kria, connected, life, left, pkillFailed>>

(***************************************************************************)
(* build.  track() first removes the old objects, a command of its own.    *)
(***************************************************************************)
Lock(t) == /\ stage[t] = "lock"
           /\ build_lock = Nobody
           /\ build_lock' = t
           /\ source' = IF job[t] = "track" THEN source ELSE mine[t]
           /\ Goto(t, "make")
           /\ UNCHANGED <<requested, firmware, romMem, nextMem, tunnel, kria,
                          connected, life, history>>

\* Faulty: apply goes on whatever make says.
AfterMakeAnyway(t, ok) == IF job[t] = "build" THEN "idle" ELSE "upload"

AfterMake(t, ok) == IF job[t] = "build" \/ ~ok THEN "idle" ELSE "upload"

\* Faulty: a failed make keeps the lock.
HolderAfterOk(t, ok) == IF ok THEN Nobody ELSE t

HolderAfter(t, ok) == Nobody

Make(t, ok) == /\ stage[t] = "make"
               /\ firmware' = IF ~ok THEN firmware
                              ELSE IF job[t] = "track" THEN mine[t] ELSE source
               /\ build_lock' = HolderAfter(t, ok)
               /\ IF AfterMake(t, ok) = "idle" THEN Done(t)
                  ELSE Goto(t, "upload") /\ UNCHANGED requested
               /\ UNCHANGED <<source, romMem, nextMem, tunnel, kria, connected,
                              life, history>>

(***************************************************************************)
(* upload_and_reload, without the lock.                                    *)
(***************************************************************************)
Upload(t) == /\ stage[t] = "upload"
             /\ nextMem' = firmware
             /\ Goto(t, "ask")
             /\ UNCHANGED <<requested, source, firmware, romMem, build_lock,
                            tunnel, kria, connected, life, history>>

(***************************************************************************)
(* control.  Without a tunnel, or a server at its end, the connection      *)
(* fails; one that stands may break, or bring no answer for 15 seconds -   *)
(* neither takes back a request that has reached the server.               *)
(***************************************************************************)
Ask(t) == /\ stage[t] = "ask"
          /\ Reachable
          /\ \E d \in Up :
                inbox' = Append(inbox, [task |-> t, id |-> mine[t], via |-> d,
                                        reload |-> job[t] # "reset"])
          /\ Goto(t, "asked")
          /\ UNCHANGED <<requested, files, build_lock, tunnel, server, image,
                         connected, life, history>>

\* Faulty: no timeout.
NoAnswerBroken(t) == /\ stage[t] = "asked"
                     /\ \A i \in DOMAIN inbox : inbox[i].id # mine[t]

NoAnswer(t) == stage[t] = "asked"

\* Any step of a handler may fail: a copy, an ssh, a connection.
Fail(t) == /\ \/ stage[t] \in {"upload", "scp"}
              \/ stage[t] = "ask" /\ ~Reachable
              \/ stage[t] = "asked" /\ NoAnswer(t)
              \/ stage[t] \in {"refused", "status"}
           /\ Done(t)
           /\ connected' = (connected /\ t # Startup)
           /\ UNCHANGED <<files, build_lock, tunnel, kria, life, history>>

\* The answer, as upload_and_reload and action() use it.
Answered(t) == /\ stage[t] = "answered"
               /\ Done(t)
               /\ connected' = (connected \/ job[t] # "reset")
               /\ UNCHANGED <<files, build_lock, tunnel, kria, life, history>>

(***************************************************************************)
(* The server takes one connection after the other.                        *)
(***************************************************************************)
Serve(ok) ==
    /\ inbox # << >>
    /\ \E d \in Deploys : server[d] = "ready"
    /\ LET r == Head(inbox) IN
       /\ inbox' = Tail(inbox)
       /\ image' = IF ok /\ r.reload THEN nextMem ELSE image
       /\ stage' = IF /\ stage[r.task] = "asked" /\ mine[r.task] = r.id
                      /\ link[r.via] = "up"
                   THEN [stage EXCEPT ![r.task] = IF ok THEN "answered" ELSE "refused"]
                   ELSE stage
    /\ UNCHANGED <<requested, files, build_lock, tunnel, server, connected,
                   life, history>>

-----------------------------------------------------------------------------
(***************************************************************************)
(* deploy.                                                                 *)
(***************************************************************************)
SshRuns(d) == d # 0 /\ link[d] \in {"connecting", "up"}

Ends(d) == /\ link' = [link EXCEPT ![d] = "gone"]
           /\ eof' = eof \cup {d}

Terminate(t) == /\ stage[t] = "terminate"
                /\ Goto(t, "scp")
                /\ IF SshRuns(ssh) THEN Ends(ssh)
                   ELSE UNCHANGED <<link, eof>>
                /\ UNCHANGED <<requested, files, build_lock, deploys, ssh, kria,
                               connected, life, history>>

Scp(t) == /\ stage[t] = "scp"
          /\ romMem' = firmware
          /\ Goto(t, "pkill")
          /\ UNCHANGED <<requested, source, firmware, nextMem, build_lock,
                         tunnel, kria, connected, life, history>>

\* What a killed or crashed server leaves: the connections to it break.
Dies(ds) == /\ server' = [d \in Deploys |-> IF d \in ds THEN "dead" ELSE server[d]]
            /\ inbox' = << >>

\* Faulty: the old server is not looked for.
KilledNone == {}

Killed == Alive

Pkill(t) == /\ stage[t] = "pkill"
            /\ Dies(Killed)
            /\ Goto(t, "spawn")
            /\ UNCHANGED <<requested, files, build_lock, tunnel, image,
                           connected, life, history>>

\* Nobody looks at the exit code of this one.
PkillFails(t) == /\ stage[t] = "pkill"
                 /\ Goto(t, "spawn")
                 /\ pkillFailed' = (pkillFailed \/ Alive # {})
                 /\ UNCHANGED <<requested, files, build_lock, tunnel, kria,
                                connected, life, overlapped, left>>

Spawn(t) == /\ stage[t] = "spawn"
            /\ deploys' = deploys + 1
            /\ ssh' = deploys'
            /\ link' = [link EXCEPT ![ssh'] = "connecting"]
            /\ Goto(t, "status")
            /\ UNCHANGED <<requested, files, build_lock, eof, kria, connected,
                           life, history>>

\* Of the 120 polls one reaches the server.
Status(t) == /\ stage[t] = "status"
             /\ Reachable
             /\ Done(t)
             /\ connected' = TRUE
             /\ UNCHANGED <<files, build_lock, tunnel, kria, life, history>>

(***************************************************************************)
(* ssh: with ExitOnForwardFailure it ends when the local port is taken,    *)
(* before it runs its command.  It also ends with its command, or when the *)
(* network fails - and then the server goes on.                            *)
(***************************************************************************)
PortFree == Up = {}

Connect(d) == /\ link[d] = "connecting"
              /\ PortFree
              /\ link' = [link EXCEPT ![d] = "up"]
              /\ server' = [server EXCEPT ![d] = "booting"]
              /\ image' = romMem
              /\ UNCHANGED <<stage, requested, files, build_lock, deploys, ssh,
                             eof, inbox, connected, life, history>>

SshEnds(d) == /\ link[d] \in {"connecting", "up"}
              /\ Ends(d)
              /\ UNCHANGED <<stage, requested, files, build_lock, deploys, ssh,
                             kria, connected, life, history>>

Ready(d) == /\ server[d] = "booting"
            /\ server' = [server EXCEPT ![d] = "ready"]
            /\ UNCHANGED <<stage, requested, files, build_lock, tunnel, inbox,
                           image, connected, life, history>>

\* The control thread ends with a connection that breaks (FpgaServer).
Deafen(d) == /\ server[d] = "ready"
             /\ server' = [server EXCEPT ![d] = "deaf"]
             /\ inbox' = << >>
             /\ UNCHANGED <<stage, requested, files, build_lock, tunnel, image,
                            connected, life, history>>

Crash(d) == /\ d \in Alive
            /\ Dies({d})
            /\ UNCHANGED <<stage, requested, files, build_lock, tunnel, image,
                           connected, life, history>>

-----------------------------------------------------------------------------
(***************************************************************************)
(* pipe_server_log and poll_state.                                         *)
(***************************************************************************)
Pipe(d) == /\ d \in eof /\ life = "open"
           /\ eof' = eof \ {d}
           /\ connected' = FALSE
           /\ UNCHANGED <<stage, requested, files, build_lock, deploys, ssh, link,
                          kria, life, history>>

\* Faulty: a status that fails says nothing about the board.
AfterFailureSame == connected

AfterFailure == FALSE

\* A status fails; so does one whose turn does not come for 15 seconds.
PollFails == /\ connected /\ life = "open"
             /\ ~Reachable \/ inbox # << >>
             /\ connected' = AfterFailure
             /\ UNCHANGED <<stage, requested, files, build_lock, tunnel, kria,
                            life, history>>

(***************************************************************************)
(* close(), once the requests are done: the server is asked to shut down   *)
(* if it can be reached, and self.ssh is ended.                            *)
(***************************************************************************)
\* Faulty: ssh is left to end with its server.
EndsOwnNever == FALSE

EndsOwn == SshRuns(ssh)

Close == /\ life = "open"
         /\ Busy \subseteq {Startup}
         /\ life' = "closed"
         /\ AllDone
         /\ IF EndsOwn THEN Ends(ssh) ELSE UNCHANGED <<link, eof>>
         /\ \E heard \in BOOLEAN :
               /\ heard => EndsOwn /\ Reachable
               /\ IF heard THEN Dies(Alive) ELSE UNCHANGED <<server, inbox>>
         /\ UNCHANGED <<files, build_lock, deploys, ssh, image, connected,
                        history>>

\* Or the process is killed, and leaves its ssh behind.
Abort == /\ life = "open"
         /\ life' = "crashed"
         /\ AllDone
         /\ build_lock' = Nobody
         /\ left' = left \cup {d \in Deploys : SshRuns(d)}
         /\ UNCHANGED <<files, tunnel, kria, connected, overlapped, pkillFailed>>

\* It is started again, and deploys; the board is as it was left.  An ssh
\* that was connecting is through, or has timed out (ConnectTimeout=5).
Reopen == /\ life # "open"
          /\ \A d \in Deploys : link[d] # "connecting"
          /\ MayAsk /\ Deployments < MaxDeploys
          /\ life' = "open"
          /\ Goto(Startup, "terminate")
          /\ job' = [job EXCEPT ![Startup] = "reconnect"]
          /\ ssh' = 0 /\ eof' = {}
          /\ connected' = FALSE
          /\ UNCHANGED <<mine, requests, files, build_lock, deploys, link, kria,
                         history>>

-----------------------------------------------------------------------------
Asking(p) == Save(p) \/ \E kind \in Offers[p] : Request(p, kind)

Handler(t) == \/ Lock(t) \/ Make(t, TRUE) \/ Upload(t) \/ Ask(t) \/ Answered(t)
              \/ Terminate(t) \/ Scp(t) \/ Pkill(t) \/ Spawn(t) \/ Status(t) \/ Fail(t)

SshStep(d) == Connect(d) \/ SshEnds(d) \/ Ready(d)

DashboardNext ==
    \/ \E p \in Pages : Asking(p)
    \/ \E t \in Tasks : Handler(t) \/ Make(t, FALSE) \/ PkillFails(t)
    \/ Serve(TRUE) \/ Serve(FALSE)
    \/ \E d \in Deploys : SshStep(d) \/ Crash(d) \/ Deafen(d) \/ Pipe(d)
    \/ PollFails \/ Close \/ Abort \/ Reopen

(***************************************************************************)
(* The event loop runs what can go on; commands and copies end.  The board *)
(* owes nobody an answer.                                                  *)
(***************************************************************************)
Fairness == WF_dashboard(PollFails) /\ \A t \in Tasks : WF_dashboard(Handler(t))

DashboardSpec == DashboardInit /\ [][DashboardNext]_dashboard /\ Fairness

-----------------------------------------------------------------------------
(***************************************************************************)
(* Type invariant; the lock is held exactly while somebody makes.          *)
(***************************************************************************)
HandlerTypes ==
    /\ stage \in [Tasks -> {"idle", "lock", "make", "upload", "ask", "asked",
                            "answered", "refused", "terminate", "scp", "pkill",
                            "spawn", "status"}]
    /\ job \in [Tasks -> {"none", "build", "apply", "track", "reset", "reconnect"}]
    /\ requests \in Nat /\ mine \in [Tasks -> 0 .. requests]
    /\ \A t \in Tasks : build_lock = t <=> stage[t] = "make"

FileTypes == {source, firmware, romMem, nextMem, image} \subseteq 0 .. requests

LinkTypes ==
    /\ deploys \in 0 .. MaxDeploys /\ ssh \in 0 .. deploys
    /\ link \in [Deploys -> {"none", "connecting", "up", "gone"}]
    /\ server \in [Deploys -> {"none", "booting", "ready", "deaf", "dead"}]
    /\ eof \cup left \subseteq Deploys

InboxTypes ==
    inbox \in Seq([task : Pages, id : 1 .. requests, via : Deploys, reload : BOOLEAN])

FlagTypes == /\ life \in {"open", "closed", "crashed"}
             /\ {connected, overlapped, pkillFailed} \subseteq BOOLEAN

TypeOK == HandlerTypes /\ FileTypes /\ LinkTypes /\ InboxTypes /\ FlagTypes

(***************************************************************************)
(* While requests do not overlap and every pkill does its work, a request  *)
(* that is told its firmware runs is told the truth: what was made from    *)
(* its own source, not an older build or the image of a server that was    *)
(* restarted meanwhile.  Tunnels may be cut at any time.                   *)
(***************************************************************************)
AppliedIsMine ==
    ~overlapped /\ ~pkillFailed =>
        \A t \in Pages : stage[t] = "answered" /\ job[t] # "reset" => image = mine[t]

(***************************************************************************)
(* While every pkill does its work and neither requests nor deployments    *)
(* overlap, two servers never drive one board, also when a tunnel is cut   *)
(* and its server stays behind: the next deployment finds it.              *)
(***************************************************************************)
OneServer == ~pkillFailed /\ ~overlapped => Cardinality(Alive) <= 1

(***************************************************************************)
(* When the dashboard is gone, so is its tunnel (unless two deployments    *)
(* overlapped, and self.ssh forgot one of them).                           *)
(***************************************************************************)
NoOrphans == life = "closed" /\ ~overlapped =>
             \A d \in Deploys \ left : ~SshRuns(d)

(***************************************************************************)
(* What keeps these three.  First the handlers: where each may be with     *)
(* which request, how many may still start an ssh, and that an answer is   *)
(* about the request it goes to.                                           *)
(***************************************************************************)
Placed ==
    /\ \A t \in Tasks :
           /\ stage[t] = "idle" <=> job[t] = "none"
           /\ stage[t] \in {"lock", "make"} => job[t] \in {"build", "apply", "track"}
           /\ stage[t] = "upload" => job[t] \in {"apply", "track"}
           /\ stage[t] \in {"ask", "asked", "answered", "refused"} =>
                  job[t] \in {"apply", "track", "reset"}
           /\ stage[t] \in {"terminate", "scp", "pkill", "spawn", "status"} =>
                  job[t] = "reconnect"
           /\ stage[t] = "idle" => mine[t] = 0
           /\ life # "open" => stage[t] = "idle"
    /\ \A p \in Pages : stage[p] # "idle" => mine[p] # 0
    /\ job[Startup] \in {"none", "reconnect"}
    /\ build_lock \in Tasks \cup {Nobody}

DeploymentsBounded == IsFiniteSet(Deploying) /\ Deployments <= MaxDeploys

AnswersOwn == \A k \in DOMAIN inbox : inbox[k].id = mine[inbox[k].task] =>
                  inbox[k].reload = (job[inbox[k].task] # "reset")

HandlersPlaced == Placed /\ DeploymentsBounded /\ AnswersOwn

(***************************************************************************)
(* While requests do not overlap, a source goes from main.c to the core    *)
(* with nothing else on its way.                                           *)
(***************************************************************************)
OneAtATime == /\ \A p, q \in Busy \cap Pages : p = q
              /\ \A t \in Deploying, u \in Busy : t = u

SourceCarried ==
    \A p \in Pages :
        /\ stage[p] = "make" /\ job[p] # "track" => source = mine[p]
        /\ stage[p] = "upload" => firmware = mine[p]
        /\ stage[p] \in {"ask", "asked", "answered"} /\ job[p] # "reset" =>
               nextMem = mine[p]
        /\ stage[p] = "answered" /\ job[p] # "reset" /\ ~pkillFailed =>
               image = mine[p]

\* self.ssh is the one process that runs, or none between two of them.
LinksOwned ==
    \A d \in Deploys :
        /\ link[d] = "connecting" => d = ssh
        /\ SshRuns(d) /\ d \notin left => life = "open" /\ d = ssh
        /\ (\E t \in Tasks : stage[t] \in {"scp", "pkill", "spawn"}) =>
               link[d] # "connecting" /\ (SshRuns(d) => d \in left)

\* A server starts when no other runs, and nobody is waiting for an answer.
ServersReplaced ==
    /\ \A d, e \in Alive : d = e
    /\ \A d \in Deploys : link[d] = "connecting" =>
           Alive = {} /\ \A p \in Pages : stage[p] \notin {"asked", "answered"}
    /\ (\E t \in Tasks : stage[t] = "spawn") => Alive = {}

InvSeparate == ~overlapped => OneAtATime /\ SourceCarried /\ LinksOwned
InvServers == ~overlapped /\ ~pkillFailed => ServersReplaced

\* Both, with the types and what keeps them.
ServersOwned == /\ TypeOK /\ HandlersPlaced /\ InvSeparate /\ InvServers
                /\ OneServer /\ NoOrphans

(***************************************************************************)
(* "connected" does not stay on the page for ever when the board cannot be *)
(* reached, whatever order answers and ends of connections arrive in.      *)
(***************************************************************************)
NoticesLoss == connected /\ ~Reachable ~> ~connected \/ Reachable \/ life # "open"

(***************************************************************************)
(* Every handler ends, also when the board never answers.                  *)
(***************************************************************************)
HandlersEnd == \A t \in Pages : stage[t] # "idle" ~> stage[t] = "idle"
=============================================================================
