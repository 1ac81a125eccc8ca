------------------------------ MODULE Playback ------------------------------
(***************************************************************************)
(* The players of finished recordings, harness/host/dvs_replay.py,         *)
(* dvs_motion_view.py and dvs_rotate_view.py: one loop draws rate events   *)
(* per frame, and may be paused, restarted or told to loop.  Next to the   *)
(* events, the motion view draws the box of one status word, the rotate    *)
(* view the rotated events; these come from a results file of the          *)
(* simulator or are computed.  An event is its number in the recording.    *)
(***************************************************************************)
EXTENDS Integers

CONSTANTS Players,         \* which of the players are started
          Captures,        \* numbers of events in a recording
          ResultFiles,     \* numbers of words in a results file
          Computed,        \* stands for no results file
          PER_WORD,        \* BATCH of the motion view
          FrameEvents      \* args.rate

ASSUME PlaybackAssumption ==
    /\ Players \subseteq {"replay", "motion", "rotate"}
    /\ Captures \subseteq Nat \ {0} /\ ResultFiles \subseteq Nat
    /\ Computed \notin ResultFiles
    /\ PER_WORD \in Nat \ {0} /\ FrameEvents \in Nat \ {0}

VARIABLES player, size, file_words, repeat, \* the player, its files and --loop
          running, paused,                 \* the state of its loop
          i,                               \* the next event
          raw, turned,                     \* events in each accumulator
          box,                             \* the word drawn last
          saved                            \* the word in the saved frame

arguments == <<player, size, file_words, repeat>>
playback == <<arguments, running, paused, i, raw, turned, box, saved>>

NoBox == -1

PlaybackInit ==
    /\ player \in Players /\ size \in Captures
    /\ file_words \in IF player = "replay" THEN {Computed}
                      ELSE ResultFiles \cup {Computed}
    /\ repeat \in BOOLEAN
    /\ running = "loop" /\ paused = FALSE /\ i = 0
    /\ raw = {} /\ turned = {} /\ box = NoBox /\ saved = NoBox

-----------------------------------------------------------------------------
(***************************************************************************)
(* How much is played.  The motion view takes the whole batches both the   *)
(* recording and the results have; the rotate view believes the results.   *)
(***************************************************************************)
Lesser(a, b) == IF a < b THEN a ELSE b

ResultCount == IF file_words # Computed THEN file_words
               ELSE CASE player = "motion" -> size \div PER_WORD
                      [] player = "rotate" -> size
                      [] player = "replay" -> 0

Cut == Lesser(size \div PER_WORD, ResultCount) * PER_WORD

length == CASE player = "motion" -> Cut
            [] player = "rotate" -> ResultCount
            [] player = "replay" -> size

\* The entries x, y and pol really have.
Recorded == CASE player = "motion" -> Cut
              [] player = "rotate" -> Lesser(size, ResultCount)
              [] player = "replay" -> size

-----------------------------------------------------------------------------
(***************************************************************************)
(* One frame: up to rate events; at the end of the recording either the    *)
(* loop starts over on a cleared screen or the frame ends early.           *)
(***************************************************************************)
\* Faulty: the screen is not cleared.  (Faulty variants precede the
\* definition they vary; only the mutation runs use them.)
StartOverKeeping(s) == [s EXCEPT !.i = 0]

StartOver(s) == [i |-> 0, raw |-> {}, turned |-> {}]

StampAt(s) == [i |-> s.i + 1, raw |-> s.raw \cup {s.i},
               turned |-> IF player = "rotate" THEN s.turned \cup {s.i} ELSE {}]

\* Faulty: off by one.
MoreOff(s) == s.i <= length

More(s) == s.i < length

OneEvent(s) == IF More(s) THEN StampAt(s)
               ELSE IF repeat THEN StampAt(StartOver(s)) ELSE s

Screen == [i |-> i, raw |-> raw, turned |-> turned]

Frames[k \in 0 .. FrameEvents] ==
    IF k = 0 THEN Screen ELSE OneEvent(Frames[k - 1])

Stamped == Frames[FrameEvents]

\* An index past the end of x, y and pol.
Overruns == \E k \in 1 .. FrameEvents : \E e \in Frames[k].raw : e >= Recorded

\* Faulty: the word of the group that is being drawn.
BoxAtEarly(k) == Lesser(ResultCount - 1, k \div PER_WORD)

\* Faulty: the same, without a limit.
BoxAtUnlimited(k) == k \div PER_WORD

\* max(0, min(len(words) - 1, i // BATCH - 1))
BoxAt(k) == LET b == Lesser(ResultCount - 1, k \div PER_WORD - 1) IN
            IF b < 0 THEN 0 ELSE b

Box(k) == IF player = "motion" /\ ResultCount > 0 THEN BoxAt(k) ELSE NoBox

PlayFrame == /\ running = "loop" /\ ~paused
             /\ ~Overruns
             /\ i' = Stamped.i /\ raw' = Stamped.raw /\ turned' = Stamped.turned
             /\ box' = Box(i')
             /\ UNCHANGED <<arguments, running, paused, saved>>

\* In a frame, or headless.
Raises == /\ running = "loop" /\ ~paused
          /\ Overruns \/ (i = 0 /\ Recorded < length)
          /\ running' = "raised"
          /\ UNCHANGED <<arguments, paused, i, raw, turned, box, saved>>

\* A frame of the paused player draws the screen again.
Redraw == /\ running = "loop" /\ paused
          /\ box' = Box(i)
          /\ UNCHANGED <<arguments, running, paused, i, raw, turned, saved>>

(***************************************************************************)
(* The keys: space, r and q.                                               *)
(***************************************************************************)
Pause == /\ running = "loop"
         /\ paused' = ~paused
         /\ UNCHANGED <<arguments, running, i, raw, turned, box, saved>>

Rewind == /\ running = "loop"
          /\ i' = 0 /\ raw' = {} /\ turned' = {}
          /\ UNCHANGED <<arguments, running, paused, box, saved>>

LastWord == IF player = "motion" /\ ResultCount > 0 THEN ResultCount - 1
            ELSE NoBox

\* --save writes the screen, with the box of the last word.
Quit == /\ running = "loop"
        /\ running' = "closed"
        /\ saved' = LastWord
        /\ UNCHANGED <<arguments, paused, i, raw, turned, box>>

\* --headless draws everything once; it has no loop.
Headless == /\ running = "loop" /\ i = 0 /\ ~paused
            /\ Recorded = length
            /\ running' = "closed"
            /\ i' = length /\ raw' = 0 .. length - 1
            /\ turned' = IF player = "rotate" THEN raw' ELSE {}
            /\ saved' = LastWord
            /\ UNCHANGED <<arguments, paused, box>>

PlaybackNext == \/ PlayFrame \/ Raises \/ Redraw
                \/ Pause \/ Rewind \/ Quit \/ Headless

-----------------------------------------------------------------------------
(***************************************************************************)
(* Type invariant: no box is drawn of a word that is not there.             *)
(***************************************************************************)
PlaybackTypeOK == /\ running \in {"loop", "closed", "raised"}
                  /\ {paused, repeat} \subseteq BOOLEAN
                  /\ i \in 0 .. length
                  /\ {box, saved} \subseteq {NoBox} \cup 0 .. ResultCount - 1

(***************************************************************************)
(* What a player shows. The screen holds the events of the current pass    *)
(* and no others, and the two panels of the rotate view go "in lockstep"   *)
(* (dvs_rotate_view.py:21), also when a pass begins in the middle of a     *)
(* frame. The box shown with a frame belongs to the newest group of events *)
(* that is complete on the screen: word k covers the events from BATCH * k *)
(* on (dvs_motion_view.py:14-16). And a player runs off its recording only *)
(* where there is nothing to play, or where the rotate view was given the  *)
(* results of a longer recording.                                          *)
(***************************************************************************)
OnePass == /\ raw = 0 .. i - 1
           /\ player = "rotate" => turned = raw

BoxOfNewestGroup ==
    [][PlayFrame /\ player = "motion" /\ i' >= PER_WORD =>
          /\ PER_WORD * (box' + 1) <= i'
          /\ i' < PER_WORD * (box' + 2)]_playback

StaysInside == running = "raised" =>
                   length = 0 \/ (player = "rotate" /\ file_words > size)

ScreenIsTrue == [](OnePass /\ StaysInside) /\ BoxOfNewestGroup
=============================================================================
