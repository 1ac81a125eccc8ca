------------------------------- MODULE Stream -------------------------------
(***************************************************************************)
(* One of the two word streams from the board to the browsers: dma_to_udp  *)
(* of harness/pynq/actnow_fpga_server.py, the network, and the datagram    *)
(* protocols, the bounded queue, stream_sender and broadcast_binary of     *)
(* harness/dashboard/backend/dashboard.py.  "result" is port 3334, "raw"   *)
(* the tap on port 3336, which is kept only while a client watches it.     *)
(*                                                                         *)
(* The dashboard is one event loop: an action is what runs between two     *)
(* awaits.  A word is <<p, i>>, the i-th word of the p-th packet the       *)
(* dashboard accepted; its value does not matter.                          *)
(***************************************************************************)
EXTENDS Integers, Sequences, FiniteSets, Functions

CONSTANTS Clients,
          Sizes,                 \* words in a transfer, PKT_WORDS at most
          SeqMod,                \* 2^32, the range of a sequence number
          EVENT_QUEUE_PACKETS,
          BatchWords,            \* words in WEBSOCKET_BATCH_BYTES after the tag
          Faults,                \* what may go wrong on the way
          MaxTransfers           \* bound on the transfers of a behaviour

ASSUME StreamAssumption ==
    /\ Sizes \cup {SeqMod, EVENT_QUEUE_PACKETS, BatchWords} \subseteq Nat \ {0}
    /\ Faults \subseteq {"dma", "lose", "reorder", "duplicate", "restart"}
    /\ MaxTransfers \in Nat

VARIABLES
    stream,             \* which of the two streams this is
    seq,                \* dma_to_udp: the next sequence number
    made, sent,         \* transfers, and datagrams, so far
    net,                \* datagrams on their way
    stats,              \* the dashboard's counters
    queue,              \* event_queue or raw_queue
    sending, todo, dead,\* broadcast_binary: batch, targets left, failures
    sockets,            \* websockets or raw_websockets
    \* What follows only records what happened.
    accepted, evicted,  \* packets accepted; words the full queue discarded
    out, split,         \* all words put into batches; packets cut in two
    got, since,         \* what a subscriber received, and from where in out
    span, disturbed     \* transfers first and last received; order broken

streamBoard == <<seq, made, sent, net>>
sender == <<sending, todo, dead>>
streamRecord == <<out, split, got, since>>
arrival == <<stats, accepted, evicted, span, disturbed>>
streamVars ==
    <<stream, streamBoard, queue, sender, sockets, streamRecord, arrival>>

NoSeq == -1     \* stats["sequence"] is None

StreamInit == /\ stream \in {"result", "raw"}
              /\ seq = 0 /\ made = 0 /\ sent = 0 /\ net = << >>
              /\ stats = [words |-> 0, packets |-> 0, dropped |-> 0,
                            sequence |-> NoSeq]
              /\ queue = << >>
              /\ sending = << >> /\ todo = {} /\ dead = {}
              /\ sockets = {}
              /\ accepted = 0 /\ evicted = 0
              /\ out = << >> /\ split = {}
              /\ got = [c \in Clients |-> << >>]
              /\ since = [c \in Clients |-> 0]
              /\ span = [first |-> 0, last |-> 0] /\ disturbed = FALSE

-----------------------------------------------------------------------------
(***************************************************************************)
(* dma_to_udp.  A transfer that fails loses its words without a gap in the *)
(* numbering; a server that deploy() restarts numbers from 0 again.        *)
(***************************************************************************)
Transfer(n) == /\ made < MaxTransfers
               /\ made' = made + 1
               /\ sent' = sent + 1
               /\ net' = Append(net, [num |-> sent', seq |-> seq, count |-> n])
               /\ seq' = (seq + 1) % SeqMod
               /\ UNCHANGED <<stream, queue, sender, sockets, streamRecord,
                              arrival>>

TransferFails == /\ "dma" \in Faults
                 /\ made < MaxTransfers
                 /\ made' = made + 1
                 /\ UNCHANGED <<stream, seq, sent, net, queue, sender, sockets,
                                streamRecord, arrival>>

Renumber == /\ "restart" \in Faults
            /\ ~disturbed
            /\ seq # 0
            /\ seq' = 0
            /\ disturbed' = TRUE
            /\ UNCHANGED <<stream, made, sent, net, queue, sender, sockets,
                           streamRecord, stats, accepted, evicted, span>>

(***************************************************************************)
(* The network (UDP) may lose, reorder and duplicate datagrams; which one  *)
(* is lost need not be known before its turn comes.  One restart, exchange *)
(* or duplicate in a behaviour is enough.                                  *)
(***************************************************************************)
Lose == /\ "lose" \in Faults
        /\ net # << >>
        /\ net' = Tail(net)
        /\ UNCHANGED <<stream, seq, made, sent, queue, sender, sockets,
                       streamRecord, arrival>>

Reorder(i) == /\ "reorder" \in Faults
              /\ ~disturbed
              /\ i < Len(net)
              /\ net' = [net EXCEPT ![i] = net[i + 1], ![i + 1] = net[i]]
              /\ disturbed' = TRUE
              /\ UNCHANGED <<stream, seq, made, sent, queue, sender, sockets,
                             streamRecord, stats, accepted, evicted, span>>

Duplicate(i) == /\ "duplicate" \in Faults
                /\ ~disturbed
                /\ net' = Append(net, net[i])
                /\ disturbed' = TRUE
                /\ UNCHANGED <<stream, seq, made, sent, queue, sender, sockets,
                               streamRecord, stats, accepted, evicted, span>>

-----------------------------------------------------------------------------
(***************************************************************************)
(* enqueue_binary and enqueue_raw: a full queue gives up its oldest packet.*)
(***************************************************************************)
\* Faulty variants precede the definition they vary; only the mutation
\* runs use them.  Here: the queue is not bounded.
MakeRoomNever(q) == q

MakeRoom(q) == IF Len(q) = EVENT_QUEUE_PACKETS THEN Tail(q) ELSE q

Enqueue(q, payload) == Append(MakeRoom(q), payload)

(***************************************************************************)
(* The accounting of UdpProtocol.datagram_received.                        *)
(***************************************************************************)
\* Faulty: the difference is not taken modulo the range of the numbers.
MissingUnwrapped(d) ==
    IF stats.sequence = NoSeq THEN 0 ELSE d.seq - stats.sequence

Missing(d) ==
    IF stats.sequence = NoSeq THEN 0 ELSE (d.seq - stats.sequence) % SeqMod

Counted(d) == [words    |-> stats.words + d.count,
               packets  |-> stats.packets + 1,
               dropped  |-> stats.dropped + Missing(d),
               sequence |-> (d.seq + 1) % SeqMod]

(***************************************************************************)
(* datagram_received of both protocols: the raw one keeps no counters and  *)
(* drops the datagram when nobody is subscribed.                           *)
(***************************************************************************)
Payload(p, n) == [i \in 1 .. n |-> <<p, i>>]

AcceptDatagram(d) == /\ accepted' = accepted + 1
                     /\ queue' = Enqueue(queue, Payload(accepted', d.count))
                     /\ evicted' = evicted + IF Len(queue) = EVENT_QUEUE_PACKETS
                                             THEN Len(Head(queue)) ELSE 0

DatagramReceived == /\ net # << >>
                    /\ LET d == Head(net) IN
                       /\ net' = Tail(net)
                       /\ IF stream = "raw" /\ sockets = {}
                          THEN UNCHANGED <<queue, accepted, evicted>>
                          ELSE AcceptDatagram(d)
                       /\ IF stream = "raw"
                          THEN UNCHANGED <<stats, span>>
                          ELSE /\ stats' = Counted(d)
                               /\ span' = [first |-> IF stats.packets = 0
                                                     THEN d.num ELSE span.first,
                                           last  |-> d.num]
                    /\ UNCHANGED <<stream, seq, made, sent, sender, sockets,
                                   streamRecord, disturbed>>

-----------------------------------------------------------------------------
(***************************************************************************)
(* stream_sender takes the first packet and as many more as fit; one that  *)
(* does not fit is cut, and its rest goes to the end of the queue.         *)
(***************************************************************************)
Words == Nat \X Nat

Concat[q \in Seq(Seq(Words))] ==
    IF q = << >> THEN << >> ELSE Head(q) \o Concat[Tail(q)]

BatchedWords(q, n) == Len(Concat[SubSeq(q, 1, n)])

\* The packets that go into the batch whole.
WholePackets(q) == CHOOSE n \in 1 .. Len(q) :
                       /\ n = 1 \/ BatchedWords(q, n) <= BatchWords
                       /\ n = Len(q) \/ BatchedWords(q, n + 1) > BatchWords

\* The words of the packet after them that still fit.
RoomLeft(q) == BatchWords - BatchedWords(q, WholePackets(q))

Cuts(q) == WholePackets(q) < Len(q) /\ RoomLeft(q) > 0

\* The packet that is cut, and what is behind it.
FirstLeft(q) == q[WholePackets(q) + 1]
Behind(q) == SubSeq(q, WholePackets(q) + 2, Len(q))
Untouched(q) == SubSeq(q, WholePackets(q) + 1, Len(q))

NextBatch(q) == Concat[SubSeq(q, 1, WholePackets(q))]
                  \o IF Cuts(q) THEN SubSeq(FirstLeft(q), 1, RoomLeft(q)) ELSE << >>

\* Faulty: the rest of a cut packet is forgotten.
QueueAfterForgets(q) ==
    IF Cuts(q) THEN Behind(q) ELSE Untouched(q)

\* Faulty: the whole of a cut packet is put back.
QueueAfterRepeats(q) ==
    IF Cuts(q) THEN Append(Behind(q), FirstLeft(q)) ELSE Untouched(q)

QueueAfter(q) ==
    IF Cuts(q)
    THEN Enqueue(Behind(q), SubSeq(FirstLeft(q), RoomLeft(q) + 1, Len(FirstLeft(q))))
    ELSE Untouched(q)

FillBatch == /\ sending = << >>
             /\ queue # << >>
             /\ sending' = NextBatch(queue)
             /\ queue' = QueueAfter(queue)
             /\ todo' = sockets
             /\ dead' = {}
             /\ out' = out \o sending'
             /\ split' = split \cup
                            IF Cuts(queue) THEN {FirstLeft(queue)[1][1]} ELSE {}
             /\ UNCHANGED <<stream, streamBoard, sockets, got, since, arrival>>

(***************************************************************************)
(* broadcast_binary: one target after the other, in any order.  A send     *)
(* that is not over in 0.1 s is abandoned and its client given up.         *)
(***************************************************************************)
SendTo(c) == /\ sending # << >>
             /\ c \in todo
             /\ todo' = todo \ {c}
             /\ got' = IF c \in sockets THEN [got EXCEPT ![c] = @ \o sending]
                       ELSE got
             /\ UNCHANGED <<stream, streamBoard, queue, sending, dead, sockets,
                            out, split, since, arrival>>

\* Faulty: no timeout.
SendGivesUpNever(c) == FALSE

SendGivesUp(c) == c \in todo

SendFails(c) == /\ sending # << >>
                /\ SendGivesUp(c)
                /\ todo' = todo \ {c}
                /\ dead' = dead \cup {c}
                /\ UNCHANGED <<stream, streamBoard, queue, sending, sockets,
                               streamRecord, arrival>>

\* Faulty: failed clients are kept.
StillSubscribedAll == sockets

StillSubscribed == sockets \ dead

\* Bookkeeping: got and since are about the present subscription.
Forget(gone) ==
    /\ got' = [c \in Clients |-> IF c \in gone THEN << >> ELSE got[c]]
    /\ since' = [c \in Clients |-> IF c \in gone THEN 0 ELSE since[c]]

Sent == /\ sending # << >>
        /\ todo = {}
        /\ sending' = << >>
        /\ dead' = {}
        /\ sockets' = StillSubscribed
        /\ Forget(sockets \ sockets')
        /\ UNCHANGED <<stream, streamBoard, queue, todo, out, split, arrival>>

(***************************************************************************)
(* ws_handler: a browser connects (or asks for the raw tap); it leaves, or *)
(* switches mode, or the sender of the other stream gives it up.           *)
(***************************************************************************)
Subscribe(c) == /\ c \notin sockets
                /\ sockets' = sockets \cup {c}
                /\ UNCHANGED got
                /\ since' = [since EXCEPT ![c] =
                                Len(out) - IF c \in todo THEN Len(sending) ELSE 0]
                /\ UNCHANGED <<stream, streamBoard, queue, sender, out, split,
                               arrival>>

Unsubscribe(c) == /\ c \in sockets
                  /\ sockets' = sockets \ {c}
                  /\ Forget({c})
                  /\ UNCHANGED <<stream, streamBoard, queue, sender, out, split,
                                 arrival>>

-----------------------------------------------------------------------------
NetworkStep == \/ DatagramReceived \/ Lose
               \/ \E i \in 1 .. Len(net) : Reorder(i) \/ Duplicate(i)

BoardStep == TransferFails \/ Renumber \/ \E n \in Sizes : Transfer(n)

SenderStep == FillBatch \/ Sent \/ \E c \in Clients : SendTo(c) \/ SendFails(c)

BrowserStep == \E c \in Clients : Subscribe(c) \/ Unsubscribe(c)

StreamNext == BoardStep \/ NetworkStep \/ SenderStep \/ BrowserStep

(***************************************************************************)
(* The event loop runs a task that can go on and a timer that is due: a    *)
(* send that does not end by itself is given up.  Nothing obliges the      *)
(* board, the network or a browser to do anything.                         *)
(***************************************************************************)
SendTimeout == \E c \in Clients : SendFails(c)

StreamSpec == /\ StreamInit /\ [][StreamNext]_streamVars
              /\ WF_streamVars(FillBatch) /\ WF_streamVars(Sent)
              /\ WF_streamVars(SendTimeout)

-----------------------------------------------------------------------------
(***************************************************************************)
(* Type invariant.  A word comes from an accepted packet, and the queue    *)
(* holds no more packets than it should, and no empty one.                 *)
(***************************************************************************)
StreamWord == (1 .. accepted) \X UNION {1 .. n : n \in Sizes}
Inside == out \o Concat[queue]

BoardTypes ==
    /\ seq \in 0 .. SeqMod - 1 /\ made \in 0 .. MaxTransfers /\ sent \in 0 .. made
    /\ net \in Seq([num : Nat, seq : 0 .. SeqMod - 1, count : Sizes])

ArrivalTypes ==
    /\ stream \in {"result", "raw"} /\ disturbed \in BOOLEAN
    /\ stats \in [words : Nat, packets : Nat, dropped : Nat,
                  sequence : {NoSeq} \cup 0 .. SeqMod - 1]
    /\ {accepted, evicted} \subseteq Nat
    /\ span \in [first : Nat, last : Nat]

SenderTypes ==
    /\ queue \in Seq(Seq(Words)) /\ {sending, out} \subseteq Seq(Words)
    /\ todo \cup dead \cup sockets \subseteq Clients
    /\ got \in [Clients -> Seq(Words)] /\ since \in [Clients -> Nat]

WordTypes == /\ Len(queue) <= EVENT_QUEUE_PACKETS
             /\ \A i \in DOMAIN queue : queue[i] # << >>
             /\ Range(Inside) \subseteq StreamWord
             /\ split \subseteq 1 .. accepted

StreamTypeOK == BoardTypes /\ ArrivalTypes /\ SenderTypes /\ WordTypes

(***************************************************************************)
(* No word is lost inside the dashboard but by eviction, and none is made  *)
(* up: every accepted word is in the queue, in a batch, or evicted         *)
(* (dashboard.py:76-104, cutting and re-queueing included).                *)
(***************************************************************************)
Accounted ==
    /\ stream = "result" => stats.words = Len(Inside) + evicted
    /\ Cardinality(Range(Inside)) = Len(Inside)

(***************************************************************************)
(* A client receives the words of one packet in order, and packets in the  *)
(* order they arrived, except that a packet may overtake the rest of one   *)
(* that was cut (dashboard.py:102).                                        *)
(***************************************************************************)
Before(a, b) == a[1] < b[1] \/ (a[1] = b[1] /\ a[2] < b[2])

MayFollow(b, a, cut) == Before(a, b) \/ (a[1] > b[1] /\ b[1] \in cut)

InOrder(s, cut) == \A i, j \in DOMAIN s : i < j => MayFollow(s[j], s[i], cut)

OvertakesOnlyCut == \A c \in Clients : InOrder(got[c], split)

(***************************************************************************)
(* A subscribed client that has not failed has received every batch since  *)
(* it subscribed: sends that interleave with subscriptions, failures of    *)
(* other clients and switches of mode leave no gap (dashboard.py:64-74).   *)
(***************************************************************************)
NoGaps == \A c \in sockets \ dead :
    got[c] = SubSeq(out, since[c] + 1,
                    Len(out) - IF c \in todo THEN Len(sending) ELSE 0)

(***************************************************************************)
(* While the network keeps the order and the server is not restarted, the  *)
(* "lost" counter of the page is the number of datagrams missing between   *)
(* the first and the last one received, wrap of the sequence included; a   *)
(* transfer that fails sends none (dma_to_udp numbers only what it sends). *)
(***************************************************************************)
DropsCounted ==
    ~disturbed /\ stats.packets > 0 =>
        stats.dropped = (span.last - span.first + 1) - stats.packets

(***************************************************************************)
(* What keeps these.  The packets of the queue are from different          *)
(* datagrams; all words are in order, those still queued included; the     *)
(* batch being sent is the last, and what a client has is a part of all    *)
(* batches, up to the present one if it has not failed.                    *)
(***************************************************************************)
Apart(q) == \A i, j \in DOMAIN q : \A x \in Range(q[i]), y \in Range(q[j]) :
                x[1] = y[1] <=> i = j

BatchIsLast ==
    /\ Len(sending) <= Len(out)
    /\ sending = SubSeq(out, Len(out) - Len(sending) + 1, Len(out))
    /\ sending = << >> => todo = {} /\ dead = {}
    /\ todo \cap dead = {}

Received(c) ==
    /\ since[c] + Len(got[c]) <= Len(out)
    /\ got[c] = SubSeq(out, since[c] + 1, since[c] + Len(got[c]))
    /\ c \notin sockets => got[c] = << >> /\ since[c] = 0
    /\ c \in sockets \ dead =>
           since[c] + Len(got[c]) = Len(out) - IF c \in todo THEN Len(sending) ELSE 0

StreamInv == /\ Apart(queue) /\ InOrder(Inside, split)
             /\ BatchIsLast /\ \A c \in Clients : Received(c)

\* And the numbering, while the order is kept.
Numbered ==
    ~disturbed =>
        /\ seq = sent % SeqMod
        /\ \A i \in DOMAIN net : /\ net[i].num \in 1 .. sent
                                 /\ net[i].seq = (net[i].num - 1) % SeqMod
                                 /\ \A j \in 1 .. i - 1 : net[j].num < net[i].num
                                 /\ stats.packets > 0 => span.last < net[i].num
        /\ IF stats.packets = 0 THEN stats.sequence = NoSeq /\ stats.dropped = 0
           ELSE /\ span.last \in 1 .. sent
                /\ stats.sequence = span.last % SeqMod

(***************************************************************************)
(* A client that stops reading delays the others, but never for ever: the  *)
(* sender comes back to a queue that holds something.                      *)
(***************************************************************************)
KeepsSending == sending # << >> ~> sending = << >>

(***************************************************************************)
(* The tracking page explains a slip of its word pairs by a dropped UDP    *)
(* packet or by words of the previous firmware (main.ts:566-569): without  *)
(* them a client receives the words in the order the board sent them.      *)
(***************************************************************************)
SlipsOnlyAfterDrop ==
    Faults = {} => \A c \in sockets : \A i, j \in DOMAIN got[c] :
                       i < j => Before(got[c][i], got[c][j])
=============================================================================
