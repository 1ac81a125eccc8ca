------------------------------ MODULE LiveTail ------------------------------
(***************************************************************************)
(* The six live viewers harness/host/dvs_*_live.py: each starts a run of   *)
(* the simulator actsim and tails the results file it writes, next to the  *)
(* recording that was fed to it.  They share one loop (read, process,      *)
(* poll, show) and differ in how many result words make a unit and in how  *)
(* they index the recording.                                               *)
(*                                                                         *)
(* A line of the file is three units of text: a first part of the digits,  *)
(* their rest, the newline.  Text appears whenever the simulator's output  *)
(* buffer is flushed; LineCuts says where in a line a flush may end.       *)
(*                                                                         *)
(* A viewer that fails after it has started its simulator and before it is *)
(* in its loop leaves the simulator behind.  That one goes on, and opens   *)
(* or writes the file a later viewer reads.                                *)
(***************************************************************************)
EXTENDS Integers, Sequences

CONSTANTS Kinds,           \* which of the viewers are started
          Recordings,      \* numbers of events in a recording
          EVENTS_PER_WORD, \* BATCH of the motion viewers
          EVENTS_PER_DUMP, \* BATCH * DUMP_INTERVAL
          DUMP_WORDS,      \* words of a time surface
          STABILIZE_BATCH, \* BATCH of the stabilizer
          Rate,            \* its words per frame
          LineCuts,
          MaxSessions      \* bound on the viewers started in a behaviour

ASSUME TailAssumption ==
    /\ Kinds \subseteq {"motion", "blob", "track", "timesurface", "denoise", "stabilize"}
    /\ {EVENTS_PER_WORD, EVENTS_PER_DUMP, DUMP_WORDS, STABILIZE_BATCH, Rate}
          \subseteq Nat \ {0}
    /\ Recordings \subseteq Nat
    /\ 0 \in LineCuts /\ LineCuts \subseteq 0 .. 2

VARIABLES
    phase, kind, n,            \* where the viewer is, which it is, of what
    session,                   \* the number of the viewer started last
    sim,                       \* its actsim process
    file,                      \* RESULTS_PATH: who opened it, the text in it
    waiting, writing,          \* sessions whose simulator was left behind, and
                               \* has not opened the file yet, or has it open
    spoilt,                    \* record: such a one has touched the file
    pos,                       \* text read so far
    pending, seen, finished,   \* words not used yet; dumps_seen or words_seen
    drawn, short, shown,       \* events drawn; a short frame; the status
    taken                      \* record: the words read in this session

counts == <<pending, seen, drawn, short>>
strays == <<waiting, writing, spoilt>>
liveTail == <<phase, kind, n, session, sim, file, strays, pos, counts, finished,
              shown, taken>>

NoFile == [writer |-> 0, text |-> 0]

TailInit == /\ phase = "off" /\ session = 0
            /\ kind \in Kinds /\ n \in Recordings
            /\ sim = "none" /\ file = NoFile /\ pos = 0
            /\ waiting = {} /\ writing = {} /\ spoilt = FALSE
            /\ pending = << >> /\ seen = 0 /\ finished = FALSE
            /\ drawn = 0 /\ short = FALSE /\ shown = "running" /\ taken = << >>

-----------------------------------------------------------------------------
(***************************************************************************)
(* The recording is cut to whole batches; what the chip answers to it.     *)
(***************************************************************************)
\* Faulty: rounded up.  (Faulty variants precede the definition they vary;
\* only the mutation runs use them.)
WholeBatchesUp(batch) == ((n + batch - 1) \div batch) * batch

WholeBatches(batch) == (n \div batch) * batch

n_events == WholeBatches(IF kind = "stabilize" THEN STABILIZE_BATCH
                         ELSE EVENTS_PER_WORD)

n_dumps_total == n_events \div EVENTS_PER_DUMP

Results == CASE kind \in {"motion", "blob"}         -> n_events \div EVENTS_PER_WORD
             [] kind = "track"                      -> 2 * n_dumps_total
             [] kind \in {"timesurface", "denoise"} -> DUMP_WORDS * n_dumps_total
             [] kind = "stabilize"                  -> n_events

(***************************************************************************)
(* main() up to the start of actsim: the events are written, an old        *)
(* results file is removed - who had it open goes on writing into a file   *)
(* nobody finds - and the ROM image is made, which may fail.               *)
(***************************************************************************)
\* Faulty: an old results file stays.
WithoutStaleKept == file

WithoutStale == NoFile

Prepare(ok) == /\ phase = "off" /\ session < MaxSessions
               /\ session' = session + 1
               /\ file' = WithoutStale /\ writing' = {} /\ spoilt' = FALSE
               /\ phase' = IF ok THEN "launched" ELSE "off"
               /\ sim' = IF ok THEN "starting" ELSE "none"
               /\ pos' = 0 /\ pending' = << >> /\ seen' = 0 /\ finished' = FALSE
               /\ drawn' = 0 /\ short' = FALSE /\ shown' = "running"
               /\ taken' = << >>
               /\ UNCHANGED <<kind, n, waiting>>

Alive == sim \in {"starting", "running"}

\* The commands are sent to the simulator and the windows made.
Enter == /\ phase = "launched"
         /\ phase' = "read"
         /\ UNCHANGED <<kind, n, session, sim, file, strays, pos, counts,
                        finished, shown, taken>>

\* An exception there, or an interrupt: the try block is not reached.
LeavesEarly ==
    /\ phase = "launched"
    /\ phase' = "off"
    /\ sim' = IF Alive THEN "left" ELSE sim
    /\ waiting' = IF sim = "starting" THEN waiting \union {session} ELSE waiting
    /\ writing' = IF sim = "running" THEN writing \union {session} ELSE writing
    /\ UNCHANGED <<kind, n, session, file, spoilt, pos, counts, finished,
                   shown, taken>>

(***************************************************************************)
(* actsim opens the file, writes a line per word, and ends or crashes.     *)
(***************************************************************************)
SimOpens == /\ sim = "starting"
            /\ sim' = "running"
            /\ file' = [writer |-> session, text |-> 0]
            /\ UNCHANGED <<phase, kind, n, session, strays, pos, counts,
                           finished, shown, taken>>

SimWrites(t) == /\ sim = "running"
                /\ t > file.text /\ t % 3 \in LineCuts
                /\ file' = [file EXCEPT !.text = t]
                /\ UNCHANGED <<phase, kind, n, session, sim, strays, pos,
                               counts, finished, shown, taken>>

\* It has written everything; what the file then holds is another matter if
\* somebody else has written it too.
SimEnds == /\ sim = "running"
           /\ file.text = 3 * Results \/ spoilt
           /\ sim' = "done"
           /\ UNCHANGED <<phase, kind, n, session, file, strays, pos, counts,
                          finished, shown, taken>>

SimCrashes == /\ Alive
              /\ sim' = "crashed"
              /\ UNCHANGED <<phase, kind, n, session, file, strays, pos, counts,
                             finished, shown, taken>>

\* One that was left behind does the same: it empties the file when it opens
\* it, whoever has it open already.
StrayOpens(s) == /\ s \in waiting
                 /\ waiting' = waiting \ {s} /\ writing' = writing \union {s}
                 /\ file' = [writer |-> s, text |-> 0]
                 /\ spoilt' = TRUE
                 /\ UNCHANGED <<phase, kind, n, session, sim, pos, counts,
                                finished, shown, taken>>

StrayWrites(t) == /\ writing # {}
                  /\ t > file.text /\ t % 3 \in LineCuts
                  /\ file' = [file EXCEPT !.text = t]
                  /\ spoilt' = TRUE
                  /\ UNCHANGED <<phase, kind, n, session, sim, waiting, writing,
                                 pos, counts, finished, shown, taken>>

StrayEnds(s) == /\ s \in waiting \union writing
                /\ waiting' = waiting \ {s} /\ writing' = writing \ {s}
                /\ UNCHANGED <<phase, kind, n, session, sim, file, spoilt, pos,
                               counts, finished, shown, taken>>

-----------------------------------------------------------------------------
(***************************************************************************)
(* "for line in results_f" goes up to the end of the text there is, and a  *)
(* last line without its newline counts as a line; the newline alone that  *)
(* is read the next time is blank and skipped.  A file that was emptied    *)
(* meanwhile has nothing to read until it is longer than it was.           *)
(***************************************************************************)
FirstLine == IF pos % 3 = 2 THEN pos \div 3 + 2 ELSE pos \div 3 + 1

LastLine == (file.text + 2) \div 3

\* What is read of a line at a time: all its digits, or one part of them,
\* which the viewer takes for a number of its own.
Part(i) == IF pos > 3 * i - 3 THEN "rest"
           ELSE IF file.text < 3 * i - 1 THEN "front" ELSE "whole"

Line(i) == [writer |-> file.writer, line |-> i, part |-> Part(i)]

NewWords == IF file.text <= pos THEN << >>
            ELSE [j \in 1 .. LastLine - FirstLine + 1 |-> Line(FirstLine + j - 1)]

\* Faulty: the file is opened anew for every read.
ReadUpToOld == pos

ReadUpTo == IF file.text > pos THEN file.text ELSE pos

Read == /\ phase = "read"
        /\ phase' = "process"
        /\ pos' = ReadUpTo
        /\ pending' = pending \o NewWords
        /\ taken' = taken \o NewWords
        /\ UNCHANGED <<kind, n, session, sim, file, strays, seen, drawn, short,
                       finished, shown>>

-----------------------------------------------------------------------------
(***************************************************************************)
(* What the viewers do with the words.  A motion word stands for a batch,  *)
(* whose events are drawn with it.                                         *)
(***************************************************************************)
Rest(k) == SubSeq(pending, k + 1, Len(pending))

Smaller(a, b) == IF a <= b THEN a ELSE b

MotionShows == /\ kind = "motion"
               /\ pending' = << >>
               /\ seen' = seen + Len(pending)
               /\ drawn' = Smaller(n_events, seen' * EVENTS_PER_WORD)
               /\ UNCHANGED short

\* The same without the limit.
BlobShows == /\ kind = "blob"
             /\ pending' = << >>
             /\ seen' = seen + Len(pending)
             /\ drawn' = seen' * EVENTS_PER_WORD
             /\ UNCHANGED short

\* Two words for every dump; it counts events, not dumps.
TrackShows == /\ kind = "track"
              /\ LET dumps == Len(pending) \div 2 IN
                 /\ pending' = Rest(2 * dumps)
                 /\ seen' = Smaller(seen + dumps * EVENTS_PER_DUMP, n_events)
              /\ drawn' = seen'
              /\ UNCHANGED short

DumpsShown == LET dumps == Len(pending) \div DUMP_WORDS IN
              /\ pending' = Rest(dumps * DUMP_WORDS)
              /\ seen' = seen + dumps
              /\ UNCHANGED <<drawn, short>>

TimesurfaceShows == kind = "timesurface" /\ DumpsShown

DenoiseShows == kind = "denoise" /\ DumpsShown

\* Faulty: whether the simulator has ended is asked for now, after the read.
LastFramesNow == ~Alive

LastFrames == finished

\* Frames of Rate words, each paired with its event; the rest of them as
\* one short frame when the simulator has ended.
StabilizeShows == /\ kind = "stabilize"
                  /\ LET words == IF LastFrames THEN Len(pending)
                                  ELSE (Len(pending) \div Rate) * Rate
                     IN  /\ pending' = Rest(words)
                         /\ seen' = seen + words
                         /\ short' = (short \/ words % Rate # 0)
                  /\ drawn' = seen'

Process == /\ phase = "process"
           /\ phase' = "poll"
           /\ \/ MotionShows \/ BlobShows \/ TrackShows
              \/ TimesurfaceShows \/ DenoiseShows \/ StabilizeShows
           /\ UNCHANGED <<kind, n, session, sim, file, strays, pos, finished,
                          shown, taken>>

-----------------------------------------------------------------------------
(***************************************************************************)
(* The process is polled, the status shown, a key looked for.              *)
(***************************************************************************)
Poll == /\ phase = "poll"
        /\ phase' = "show"
        /\ finished' = (finished \/ ~Alive)
        /\ UNCHANGED <<kind, n, session, sim, file, strays, pos, counts, shown,
                       taken>>

Owed == CASE kind \in {"motion", "blob"}         -> n_events \div EVENTS_PER_WORD
          [] kind \in {"timesurface", "denoise"} -> n_dumps_total
          [] kind \in {"track", "stabilize"}     -> n_events

\* Faulty: the process is not asked.
DoneUnfinished == seen >= Owed

\* Faulty: more than everything is waited for.
DoneLater == finished /\ seen > Owed

Done == finished /\ seen >= Owed

Show == /\ phase = "show"
        /\ phase' = "read"
        /\ shown' = IF Done THEN "DONE" ELSE "running"
        /\ UNCHANGED <<kind, n, session, sim, file, strays, pos, counts,
                       finished, taken>>

SimAfter == IF Alive THEN "killed" ELSE sim

\* The key q, or an interrupt or an exception in the loop: "finally".
QuitTail == /\ phase \in {"read", "process", "poll", "show"}
            /\ phase' = "off"
            /\ sim' = SimAfter
            /\ UNCHANGED <<kind, n, session, file, strays, pos, counts, finished,
                           shown, taken>>

-----------------------------------------------------------------------------
TailLoop == Enter \/ Read \/ Process \/ Poll \/ Show

Simulator == \/ SimOpens \/ SimEnds \/ SimCrashes
             \/ \E t \in 1 .. 3 * Results : SimWrites(t)

Strays == \/ \E s \in waiting \union writing : StrayOpens(s) \/ StrayEnds(s)
          \/ \E t \in 1 .. 3 * Results : StrayWrites(t)

TailNext == \/ Prepare(TRUE) \/ Prepare(FALSE) \/ Simulator \/ Strays
            \/ TailLoop \/ LeavesEarly \/ QuitTail

\* The viewer's loop runs; the simulator need not get anywhere.
TailSpec == TailInit /\ [][TailNext]_liveTail /\ WF_liveTail(TailLoop)

-----------------------------------------------------------------------------
(***************************************************************************)
(* Type invariant; with it the indices into the recording stay inside it   *)
(* (two of the viewers do not limit them) - as long as no number is read   *)
(* as two, and no simulator that was left behind adds to the words.        *)
(***************************************************************************)
NumbersWhole == \A i \in DOMAIN taken : taken[i].part = "whole"

TailTypeOK ==
    /\ phase \in {"off", "launched", "read", "process", "poll", "show"}
    /\ sim \in {"none", "starting", "running", "done", "crashed", "killed", "left"}
    /\ file.writer \in 0 .. session /\ file.text \in 0 .. 3 * Results
    /\ {finished, short, spoilt} \subseteq BOOLEAN /\ shown \in {"running", "DONE"}
    /\ waiting \union writing \subseteq 1 .. session
    /\ ~spoilt /\ NumbersWhole => Len(pending) <= Results /\ drawn \in 0 .. n

(***************************************************************************)
(* The words a viewer uses are those of its own simulator run, each once   *)
(* and in order, whatever the file held before, however reads and flushes  *)
(* interleave: a number whose flush ends inside it is used as two, its     *)
(* front and next its rest, and no other is.  Unless a simulator that an   *)
(* earlier viewer left behind has touched the file (OneWriter).            *)
(***************************************************************************)
NextTo(u, w) == IF u.part = "front" THEN w.line = u.line /\ w.part = "rest"
                ELSE w.line = u.line + 1 /\ w.part # "rest"

OwnWords == ~spoilt =>
    \A i \in DOMAIN taken : /\ taken[i].writer = session
                            /\ i = 1 => taken[i].line = 1 /\ taken[i].part # "rest"
                            /\ i > 1 => NextTo(taken[i - 1], taken[i])

(***************************************************************************)
(* They are also used with the right events: a short frame of the          *)
(* stabilizer is the last one, so that no result that is still to be read  *)
(* is paired with the wrong frame (dvs_stabilize_live.py:284).             *)
(***************************************************************************)
WordsPaired == /\ []OwnWords
               /\ [][short /\ ~spoilt => seen' = seen \/ session' # session]_liveTail

(***************************************************************************)
(* dvs_motion_live.py:22-25: a viewer launches its own actsim and clears   *)
(* the old file "to avoid two actsim processes writing the same output     *)
(* file at once".                                                          *)
(***************************************************************************)
OneWriter == sim = "running" => writing = {}

(***************************************************************************)
(* DONE is shown only when the simulator has ended, and every word it owes *)
(* has been used - unless a number was read as two and counted as two.     *)
(***************************************************************************)
DoneIsTrue == shown = "DONE" =>
    /\ ~Alive
    /\ ~spoilt /\ NumbersWhole => Len(taken) - Len(pending) = Results

(***************************************************************************)
(* A viewer whose simulator ended says so.                                 *)
(***************************************************************************)
ShowsDone == sim = "done" ~> shown = "DONE" \/ phase = "off" \/ spoilt

\* The tracker's count of events ends with the last whole dump, so the
\* recording has to end there as well.
WholeDumps == kind = "track" => n_events % EVENTS_PER_DUMP = 0

(***************************************************************************)
(* DONE is never shown too early, and it is shown in the end where the     *)
(* viewer's count can reach its total (and the file is its simulator's).   *)
(***************************************************************************)
DoneWhenOver ==
    /\ []DoneIsTrue
    /\ sim = "done" /\ WholeDumps ~> shown = "DONE" \/ phase = "off" \/ spoilt
=============================================================================
