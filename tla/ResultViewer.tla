---------------------------- MODULE ResultViewer ----------------------------
(***************************************************************************)
(* render() of harness/host/actnow_client.py, the loop behind the result   *)
(* and the raw viewer: drain the socket, a bounded number of datagrams at  *)
(* a time, keep the newest max_frame_words words in a list of chunks, and  *)
(* draw them when a frame is due.  The printed rates are left out.         *)
(*                                                                         *)
(* Words carry numbers that repeat after IdMod, so that a behaviour can    *)
(* go on for ever; what is pending at one time is shorter than that.       *)
(***************************************************************************)
EXTENDS Integers, Sequences

CONSTANTS Datagrams,           \* <<n, k>>: a header that says n, k words behind it
          SocketRoom,          \* datagrams the receive buffer holds
          max_drain_packets, max_frame_words,
          IdMod

ASSUME ViewerAssumption ==
    /\ {SocketRoom, max_drain_packets, max_frame_words, IdMod} \subseteq Nat \ {0}
    /\ Datagrams \subseteq Nat \X Nat

VARIABLES
    loop,                      \* where the loop is
    windowed,                  \* cv2 could be loaded (not headless)
    socket,                    \* datagrams received by the kernel
    next,                      \* the number of the next word sent
    drained,                   \* datagrams taken in this round
    pending_chunks, pending_words,
    newest                     \* record: the words a frame is to show

viewer == <<loop, windowed, socket, next, drained, pending_chunks, pending_words,
            newest>>

ViewerInit == /\ loop = "drain" /\ windowed \in BOOLEAN
              /\ socket = << >> /\ next = 0 /\ drained = 0
              /\ pending_chunks = << >> /\ pending_words = 0
              /\ newest = << >>

-----------------------------------------------------------------------------
(***************************************************************************)
(* A datagram arrives, or is dropped by a full receive buffer.  The tag    *)
(* "junk" is one that is too short or has another magic.                   *)
(***************************************************************************)
Numbers(m) == [i \in 1 .. m |-> (next + i) % IdMod]

Least(a, b) == IF a <= b THEN a ELSE b

Arrive(d) == /\ Len(socket) < SocketRoom
             /\ LET m == Least(d[1], d[2]) IN
                /\ socket' = Append(socket, [magic |-> TRUE, words |-> Numbers(m)])
                /\ next' = (next + m) % IdMod
             /\ UNCHANGED <<loop, windowed, drained, pending_chunks,
                            pending_words, newest>>

ArriveJunk == /\ Len(socket) < SocketRoom
              /\ socket' = Append(socket, [magic |-> FALSE, words |-> << >>])
              /\ UNCHANGED <<loop, windowed, next, drained, pending_chunks,
                             pending_words, newest>>

-----------------------------------------------------------------------------
(***************************************************************************)
(* append_limited.  Behind the new words, whole chunks are dropped from    *)
(* the front, and the last one that is too much is cut.                    *)
(***************************************************************************)
LastWords(s, n) == IF Len(s) <= n THEN s ELSE SubSeq(s, Len(s) - n + 1, Len(s))

Joined[chunks \in Seq(Seq(Nat))] ==
    IF chunks = << >> THEN << >> ELSE Head(chunks) \o Joined[Tail(chunks)]

\* Faulty: the oldest chunk is dropped whole.  (Faulty variants precede the
\* definition they vary; only the mutation runs use them.)
TrimWhole[chunks \in Seq(Seq(Nat))] ==
    [excess \in Nat |->
        IF excess = 0 \/ chunks = << >> THEN chunks
        ELSE TrimWhole[Tail(chunks)][IF Len(Head(chunks)) <= excess
                                     THEN excess - Len(Head(chunks)) ELSE 0]]

Trim[chunks \in Seq(Seq(Nat))] ==
    [excess \in Nat |->
        IF excess = 0 \/ chunks = << >> THEN chunks
        ELSE IF Len(Head(chunks)) <= excess
        THEN Trim[Tail(chunks)][excess - Len(Head(chunks))]
        ELSE <<SubSeq(Head(chunks), excess + 1, Len(Head(chunks)))>>
                 \o Tail(chunks)]

\* Faulty: cutting is forgotten.
TrimmedWhole(chunks, excess) == TrimWhole[chunks][excess]

Trimmed(chunks, excess) == Trim[chunks][excess]

Total(words) == pending_words + Len(words)

\* Faulty: the limit is not enforced.
ExcessNone(words) == 0

Excess(words) == IF Total(words) > max_frame_words
                 THEN Total(words) - max_frame_words ELSE 0

AppendLimited(words) ==
    \/ /\ words = << >>
       /\ UNCHANGED <<pending_chunks, pending_words>>
    \/ /\ Len(words) >= max_frame_words
       /\ pending_chunks' = <<LastWords(words, max_frame_words)>>
       /\ pending_words' = max_frame_words
    \/ /\ words # << >> /\ Len(words) < max_frame_words
       /\ pending_chunks' = Trimmed(Append(pending_chunks, words), Excess(words))
       /\ pending_words' = Total(words) - Excess(words)

-----------------------------------------------------------------------------
(***************************************************************************)
(* One round of the loop: drain, then a frame if one is due.               *)
(***************************************************************************)
\* Faulty: the socket is drained until it is empty.
MoreToDrainAlways == TRUE

MoreToDrain == drained < max_drain_packets

Receive == /\ loop = "drain"
           /\ MoreToDrain
           /\ socket # << >>
           /\ socket' = Tail(socket)
           /\ drained' = Least(drained + 1, max_drain_packets)
           /\ IF Head(socket).magic /\ windowed
              THEN /\ AppendLimited(Head(socket).words)
                   /\ newest' = LastWords(newest \o Head(socket).words,
                                          max_frame_words)
              ELSE UNCHANGED <<pending_chunks, pending_words, newest>>
           /\ UNCHANGED <<loop, windowed, next>>

EndDrain == /\ loop = "drain"
            /\ ~MoreToDrain \/ socket = << >>
            /\ loop' = "frame"
            /\ UNCHANGED <<windowed, socket, next, drained, pending_chunks,
                           pending_words, newest>>

NextRound == loop' = "drain" /\ drained' = 0

\* All pending words are drawn and forgotten.
Frame == /\ loop = "frame" /\ windowed
         /\ NextRound
         /\ pending_chunks' = << >> /\ pending_words' = 0
         /\ newest' = << >>
         /\ UNCHANGED <<windowed, socket, next>>

NotDue == /\ loop = "frame"
          /\ NextRound
          /\ UNCHANGED <<windowed, socket, next, pending_chunks, pending_words,
                         newest>>

\* The key q, looked for with every frame.
QuitViewer == /\ loop = "frame" /\ windowed
              /\ loop' = "ended"
              /\ UNCHANGED <<windowed, socket, next, drained, pending_chunks,
                             pending_words, newest>>

-----------------------------------------------------------------------------
Arrivals == ArriveJunk \/ \E d \in Datagrams : Arrive(d)

ViewerLoop == Receive \/ EndDrain \/ Frame \/ NotDue

ViewerNext == Arrivals \/ ViewerLoop \/ QuitViewer

(***************************************************************************)
(* The loop runs, and time passes: of the rounds that reach the test,      *)
(* infinitely many find a frame due.  Datagrams may never stop coming.     *)
(***************************************************************************)
ViewerSpec == /\ ViewerInit /\ [][ViewerNext]_viewer
              /\ WF_viewer(ViewerLoop) /\ SF_viewer(Frame)

-----------------------------------------------------------------------------
(***************************************************************************)
(* Type invariant.                                                         *)
(***************************************************************************)
ViewerTypeOK ==
    /\ loop \in {"drain", "frame", "ended"}
    /\ Len(socket) <= SocketRoom
    /\ drained \in 0 .. max_drain_packets
    /\ pending_words \in 0 .. max_frame_words
    /\ \A i \in DOMAIN pending_chunks : pending_chunks[i] # << >>

(***************************************************************************)
(* What a frame will draw is exactly the newest words since the frame      *)
(* before, max_frame_words at most, in order; and the number the limit is  *)
(* checked with is the number of words there are (append_limited keeps     *)
(* both by hand, chunk by chunk).                                          *)
(***************************************************************************)
PendingIsNewest == /\ Joined[pending_chunks] = newest
                   /\ pending_words = Len(newest)

(***************************************************************************)
(* And it is drawn: a flood of datagrams does not keep the picture from    *)
(* being drawn, as the drain is bounded (actnow_client.py:134).            *)
(***************************************************************************)
NewestDrawn == /\ []PendingIsNewest
               /\ newest # << >> ~> newest = << >> \/ loop = "ended"
=============================================================================
