------------------------------- MODULE Motion -------------------------------
(***************************************************************************)
(* The motion detector: the activity grid in the interrupt handler of      *)
(* software/dvs_motion/main.c, which answers each batch of events with one *)
(* packed word, and what the host makes of that word - MotionGrid in       *)
(* harness/host/dvs_motion_blob_live.py recomputes and compares it,        *)
(* dvs_motion_live.py draws a box around the cell it names.  The chip's    *)
(* fields are words and bytes of fixed width, the host's are Python ints.  *)
(***************************************************************************)
EXTENDS Integers, Sequences

CONSTANTS Pixels,          \* where events come from, pairs <<x, y>>
          BATCH

SX == 126
SY == 112
CELL_SHIFT == 5
CELL == 2^CELL_SHIFT
GRID_COLS == 4
Cells == 0 .. GRID_COLS * 4 - 1
STEP == 32
CAP == 255
THRESHOLD == 96

ASSUME MotionAssumption == /\ BATCH \in Nat \ {0}
                           /\ Pixels \subseteq (0 .. SX - 1) \X (0 .. SY - 1)

VARIABLES grid,            \* the chip's counters
          word,            \* the word it wrote last
          mirror, status,  \* MotionGrid.grid, and what step returned
          batch, previous  \* record: the pixels of the last two batches

motion == <<grid, word, mirror, status, batch, previous>>

-----------------------------------------------------------------------------
(***************************************************************************)
(* isr_handler.                                                            *)
(***************************************************************************)
CellOf(p) == (p[2] \div CELL) * 4 + (p[1] \div CELL)

\* Faulty: no saturation, the byte wraps.  (Faulty variants precede the
\* definition they vary; only the mutation runs use them.)
SaturatedWraps(v) == v % 256

\* Faulty: the limit is tested before the step is added.
SaturatedEarly(v) == IF v - STEP > CAP THEN CAP ELSE v

Saturated(v) == IF v > CAP THEN CAP ELSE v

Halved(g) == [c \in Cells |-> g[c] - g[c] \div 2]

Activity(events) ==
    LET counted[i \in 0 .. BATCH] ==
            IF i = 0 THEN Halved(grid)
            ELSE [counted[i - 1] EXCEPT ![CellOf(events[i])] = Saturated(@ + STEP)]
    IN  counted[BATCH]

Hottest(g) == CHOOSE c \in Cells :
                 \A d \in Cells : g[d] <= g[c] /\ (d < c => g[d] < g[c])

Flag(val) == IF val >= THRESHOLD THEN 1 ELSE 0

Packed(g, c) == Flag(g[c]) * 2^14 + g[c] * 2^6 + (c \div 4) * 2^3 + (c % 4)

-----------------------------------------------------------------------------
(***************************************************************************)
(* MotionGrid.step, and unpack_status.                                     *)
(***************************************************************************)
Step(m, events) ==
    LET counted[i \in 0 .. BATCH] ==
            IF i = 0 THEN [c \in Cells |-> m[c] - m[c] \div 2]
            ELSE [counted[i - 1] EXCEPT ![CellOf(events[i])] =
                     IF @ + STEP < CAP THEN @ + STEP ELSE CAP]
    IN  counted[BATCH]

FirstMax(m) == CHOOSE c \in Cells : /\ \A d \in Cells : m[d] <= m[c]
                                    /\ \A d \in 0 .. c - 1 : m[d] # m[c]

Status(m) == LET c == FirstMax(m) IN
             [col |-> c % 4, row |-> c \div 4, val |-> m[c], motion |-> Flag(m[c])]

\* python_motion_words of dvs_motion_view.py packs what the mirror has.
mirrored_word(m) == LET c == FirstMax(m) IN
                    Flag(m[c]) * 2^14 + m[c] * 2^6 + (c \div 4) * 2^3 + (c % 4)

unpack_status(w) == [col |-> w % 2^3, row |-> (w \div 2^3) % 2^3,
                     val |-> (w \div 2^6) % 2^8, motion |-> (w \div 2^14) % 2]

-----------------------------------------------------------------------------
(***************************************************************************)
(* The display: the sensor's axes are swapped and one of them flipped.     *)
(***************************************************************************)
Stamp(p) == [col |-> SY - 1 - p[2], row |-> p[1]]

CellEnd(k, size) == IF k * CELL + CELL < size THEN k * CELL + CELL ELSE size

\* Faulty: the flip is forgotten.
CellBoxUnflipped(s) == [left  |-> s.row * CELL, top |-> s.col * CELL,
                        right |-> CellEnd(s.row, SY), bottom |-> CellEnd(s.col, SX)]

CellBox(s) == [left  |-> SY - CellEnd(s.row, SY), top |-> s.col * CELL,
               right |-> SY - s.row * CELL, bottom |-> CellEnd(s.col, SX)]

Inside(d, box) == /\ box.left <= d.col /\ d.col < box.right
                  /\ box.top <= d.row /\ d.row < box.bottom

-----------------------------------------------------------------------------
MotionInit == /\ grid = [c \in Cells |-> 0] /\ word = 0
              /\ mirror = [c \in Cells |-> 0] /\ status = unpack_status(0)
              /\ batch = {} /\ previous = {}

Batch(events) == /\ grid' = Activity(events)
                 /\ word' = Packed(grid', Hottest(grid'))
                 /\ mirror' = Step(mirror, events)
                 /\ status' = Status(mirror')
                 /\ previous' = batch
                 /\ batch' = {events[i] : i \in 1 .. BATCH}

MotionNext == \E events \in [1 .. BATCH -> Pixels] : Batch(events)

MotionSpec == MotionInit /\ [][MotionNext]_motion

-----------------------------------------------------------------------------
(***************************************************************************)
(* Type invariant: counters are bytes, and the fields of the word do not   *)
(* run into each other.                                                    *)
(***************************************************************************)
MotionTypeOK == /\ grid \in [Cells -> 0 .. CAP] /\ mirror \in [Cells -> 0 .. CAP]
                /\ word \in 0 .. 2^15 - 1

(***************************************************************************)
(* The host's recomputations and the chip agree on every word, ties and    *)
(* saturation included (the viewer counts mismatches,                      *)
(* dvs_motion_blob_live.py:290-293).                                       *)
(***************************************************************************)
MirrorAgrees == unpack_status(word) = status /\ word = mirrored_word(mirror)

(***************************************************************************)
(* The box on the screen is where something moved: with the motion flag    *)
(* up, an event of the last two batches is drawn inside it - a cell that   *)
(* is not hit falls below the threshold in two.                            *)
(***************************************************************************)
BoxHasMotion ==
    LET s == unpack_status(word) IN
    s.motion = 1 => \E p \in batch \cup previous : Inside(Stamp(p), CellBox(s))
=============================================================================
