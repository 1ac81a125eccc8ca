----------------------------- MODULE FpgaServer -----------------------------
(***************************************************************************)
(* The control thread of harness/pynq/actnow_fpga_server.py: it writes     *)
(* firmware into the ROM word by word, pauses the event input, pulses the  *)
(* reset bit and polls a counter.  With it the other side of those bits:   *)
(* harness/static/reset_ext_send.v, which turns a pulse into one send on   *)
(* reset_ext, and the core as far as it is concerned - it boots by copying *)
(* the ROM to SRAM, and takes no reset while its result path stalls.       *)
(***************************************************************************)
EXTENDS Integers

CONSTANTS Images,       \* contents of a firmware file
          Bitstream,    \* what the ROM holds when the overlay is loaded
          NWords,       \* words of a firmware
          MaxPresses    \* bound on the resets pressed in one server's life

ASSUME ServerAssumption == NWords \in Nat \ {0} /\ MaxPresses \in Nat

VARIABLES
    at, cmd,            \* where the thread is, in which command
    image, written,     \* load_firmware: the file, the words written
    before,             \* reset_core: the counter before the pulse
    pause, pulse,       \* the control bits CTRL_PAUSE and CTRL_RESET
    reported,           \* Runtime.firmware
    answer,             \* to the last command
    reloadFailed,       \* the last reload that wrote to the ROM failed
    late, presses,      \* a reset has timed out; edges of the reset bit
    pulse_q, valid, reset_count, \* registers of reset_ext_send
    rom, sram,          \* the image each word belongs to
    boot,               \* words copied since the core was last reset
    stalled,            \* the core is blocked by its result path
    slow                \* whether a boot may outlast pause_and_drain

thread == <<at, cmd, image, written, before>>
bits   == <<pause, pulse>>
report == <<reported, answer, reloadFailed, late>>
plReg  == <<pulse_q, valid, reset_count>>
core   == <<sram, boot, stalled>>
server == <<thread, bits, report, presses, plReg, rom, core, slow>>

Word == 1 .. NWords

\* The overlay is loaded, which resets the programmable logic, and a firmware
\* is to be written; the core starts on whatever the ROM holds.
Fill(w) == [i \in Word |-> w]

ServerInit == /\ at = "load" /\ cmd = "start" /\ image \in Images
              /\ written = 0 /\ before = 0 /\ presses = 0
              /\ pause = FALSE /\ pulse = FALSE
              /\ reported = image /\ answer = "none" /\ reloadFailed = FALSE
              /\ late = FALSE
              /\ pulse_q = FALSE /\ valid = FALSE /\ reset_count = 0
              /\ rom = Fill(Bitstream) /\ sram = Fill(Bitstream)
              /\ boot = 0 /\ stalled = FALSE
              /\ slow \in BOOLEAN

\* deploy() kills the server, wherever it is, and starts another one.
Restart == /\ at' = "load" /\ cmd' = "start" /\ image' \in Images
           /\ written' = 0 /\ before' = 0 /\ presses' = 0
           /\ pause' = FALSE /\ pulse' = FALSE
           /\ reported' = image' /\ answer' = "none" /\ reloadFailed' = FALSE
           /\ late' = FALSE
           /\ pulse_q' = FALSE /\ valid' = FALSE /\ reset_count' = 0
           /\ rom' = Fill(Bitstream) /\ sram' = Fill(Bitstream)
           /\ boot' = 0 /\ stalled' = FALSE
           /\ UNCHANGED slow

-----------------------------------------------------------------------------
(***************************************************************************)
(* Runtime.command.  "reset" and "reload" pause the input first; a reload  *)
(* of a path that is no file changes nothing.                              *)
(***************************************************************************)
Begin(c) == /\ at = "serve"
            /\ presses < MaxPresses
            /\ at' = "drain"
            /\ cmd' = c
            /\ image' \in IF c = "reload" THEN Images ELSE {image}
            /\ pause' = TRUE
            /\ answer' = "none"
            /\ UNCHANGED <<written, before, pulse, reported, reloadFailed, late,
                           presses, plReg, rom, core, slow>>

\* "shutdown" stops the DMA and ends the process; a connection that breaks
\* ends only the thread, and nobody listens any more.
Shutdown == /\ at = "serve"
            /\ at' = "dead"
            /\ UNCHANGED <<cmd, image, written, before, bits, report, presses,
                           plReg, rom, core, slow>>

LoseClient == /\ at = "serve"
              /\ at' = "deaf"
              /\ UNCHANGED <<cmd, image, written, before, bits, report, presses,
                             plReg, rom, core, slow>>

(***************************************************************************)
(* pause_and_drain takes a counter of results that stands still for 0.12 s *)
(* for a drained core - also when the core is blocked, or still copying.   *)
(***************************************************************************)
\* Faulty: the counter need not stand still.  (Faulty variants precede the
\* definition they vary; only the mutation runs use them.)
QuietAlways == TRUE

Quiet == slow \/ boot = NWords

Drained == /\ at = "drain"
           /\ Quiet
           /\ at' = IF cmd = "reload" THEN "load" ELSE "arm"
           /\ written' = 0
           /\ UNCHANGED <<cmd, image, before, bits, report, presses, plReg, rom,
                          core, slow>>

\* It raises outside of the try block: the pause bit stays.
DrainFails == /\ at = "drain"
              /\ ~stalled
              /\ at' = "serve"
              /\ answer' = "not drained"
              /\ UNCHANGED <<cmd, image, written, before, bits, reported,
                             reloadFailed, late, presses, plReg, rom, core,
                             slow>>

-----------------------------------------------------------------------------
(***************************************************************************)
(* What follows a command: the finally block clears the pause bit.  At     *)
(* start-up there is no command, and a failure ends the process.           *)
(***************************************************************************)
\* Faulty: no finally, the bit is cleared on success only.
PauseAfterOk(ok) == pause /\ ~ok

PauseAfter(ok) == FALSE

Finish(ok) == /\ at' = IF cmd = "start" /\ ~ok THEN "dead" ELSE "serve"
              /\ pause' = PauseAfter(ok)
              /\ answer' = IF ok THEN "ok" ELSE "error"
              /\ reported' = IF ok /\ cmd = "reload" THEN image ELSE reported
              /\ reloadFailed' = IF cmd = "reload" THEN ~ok ELSE reloadFailed

(***************************************************************************)
(* load_firmware parses the whole file, writes it, reads one word back.    *)
(***************************************************************************)
\* Faulty: one word too many.
MoreWordsOff == written <= NWords

MoreWords == written < NWords

LoadWord == /\ at = "load"
            /\ MoreWords
            /\ written' = written + 1
            /\ rom' = [rom EXCEPT ![written'] = image]
            /\ UNCHANGED <<at, cmd, image, before, bits, report, presses, plReg,
                           core, slow>>

LoadDone == /\ at = "load"
          /\ ~MoreWords
          /\ at' = "arm"
          /\ UNCHANGED <<cmd, image, written, before, bits, report, presses,
                         plReg, rom, core, slow>>

\* The file cannot be parsed, or the word read back differs.
LoadFails == /\ at = "load"
             /\ written \in {0, NWords}
             /\ Finish(FALSE)
             /\ UNCHANGED <<cmd, image, written, before, pulse, late, presses,
                            plReg, rom, core, slow>>

-----------------------------------------------------------------------------
(***************************************************************************)
(* reset_core.  The sleeps between the writes are long against the clock:  *)
(* the sender has sampled a level before the next one is written.          *)
(***************************************************************************)
\* Faulty: the counter is not read anew.
BaselineStale == before

Baseline == reset_count

ReadBefore == /\ at = "arm"
              /\ at' = "low"
              /\ before' = Baseline
              /\ pulse' = FALSE
              /\ UNCHANGED <<cmd, image, written, pause, report, presses, plReg,
                             rom, core, slow>>

Press == /\ at = "low"
         /\ pulse_q = pulse
         /\ at' = "high"
         /\ pulse' = TRUE
         /\ presses' = presses + 1
         /\ UNCHANGED <<cmd, image, written, before, pause, report, plReg, rom,
                        core, slow>>

Release == /\ at = "high"
           /\ pulse_q = pulse
           /\ at' = "wait"
           /\ pulse' = FALSE
           /\ UNCHANGED <<cmd, image, written, before, pause, report, presses,
                          plReg, rom, core, slow>>

\* Faulty: the answer is not waited for.
AcknowledgedAlways == TRUE

Acknowledged == reset_count # before

Answered == /\ at = "wait"
            /\ Acknowledged
            /\ Finish(TRUE)
            /\ UNCHANGED <<cmd, image, written, before, pulse, late, presses,
                           plReg, rom, core, slow>>

\* Faulty: the polls do not end.
GivesUpNever == FALSE

\* A second is plenty for a core that reaches its next instruction.
GivesUp == stalled

TimesOut == /\ at = "wait"
            /\ ~Acknowledged
            /\ GivesUp
            /\ Finish(FALSE)
            /\ late' = TRUE
            /\ UNCHANGED <<cmd, image, written, before, pulse, presses, plReg,
                           rom, core, slow>>

-----------------------------------------------------------------------------
(***************************************************************************)
(* reset_ext_send, one clock.  The edge is not looked at in the clock that *)
(* completes a handshake.                                                  *)
(***************************************************************************)
\* Faulty: the level arms, not the edge.
EdgeLevel == pulse

Edge == pulse /\ ~pulse_q

Handshake == /\ valid
             /\ ~stalled
             /\ pulse_q' = pulse
             /\ valid' = FALSE
             /\ reset_count' = reset_count + 1
             /\ boot' = 0
             /\ UNCHANGED <<thread, bits, report, presses, rom, sram, stalled,
                            slow>>

Clock == /\ pulse_q' = pulse
         /\ valid' = (valid \/ Edge)
         /\ UNCHANGED <<thread, bits, report, presses, reset_count, rom, core,
                        slow>>

(***************************************************************************)
(* The core copies the ROM, word by word, and runs.  Its result path       *)
(* stalls while the DMA takes nothing.                                     *)
(***************************************************************************)
CopyWord == /\ boot < NWords
            /\ boot' = boot + 1
            /\ sram' = [sram EXCEPT ![boot'] = rom[boot']]
            /\ UNCHANGED <<thread, bits, report, presses, plReg, rom, stalled,
                           slow>>

Stall == /\ boot = NWords
         /\ stalled' = ~stalled
         /\ UNCHANGED <<thread, bits, report, presses, plReg, rom, sram, boot,
                        slow>>

-----------------------------------------------------------------------------
Command == Begin("reset") \/ Begin("reload")

ThreadStep == \/ Drained \/ LoadWord \/ LoadDone
              \/ ReadBefore \/ Press \/ Release \/ Answered

ServerNext == \/ Command \/ Shutdown \/ LoseClient \/ Restart
              \/ ThreadStep \/ DrainFails \/ LoadFails \/ TimesOut
              \/ Handshake \/ Clock \/ CopyWord \/ Stall

(***************************************************************************)
(* The thread runs, its loops of polls are finite, and so is the time the  *)
(* clocked logic and a core that is not blocked take.  Nothing says that   *)
(* the DMA ever goes on.                                                   *)
(***************************************************************************)
ServerFairness == /\ WF_server(ThreadStep) /\ SF_server(TimesOut)
                  /\ WF_server(Handshake) /\ WF_server(Clock) /\ WF_server(CopyWord)

ServerSpec == ServerInit /\ [][ServerNext]_server /\ ServerFairness

-----------------------------------------------------------------------------
(***************************************************************************)
(* Type invariant.                                                         *)
(***************************************************************************)
Firmware == Images \cup {Bitstream}

ServerStates ==
    /\ at \in {"load", "arm", "low", "high", "wait", "serve", "drain", "deaf", "dead"}
    /\ cmd \in {"start", "reset", "reload"}
    /\ {image, reported} \subseteq Images
    /\ answer \in {"none", "ok", "error", "not drained"}

ServerFlags ==
    {pause, pulse, pulse_q, valid, stalled, reloadFailed, late, slow} \subseteq BOOLEAN

ServerCounts == /\ written \in 0 .. NWords /\ boot \in 0 .. NWords
                /\ before \in Nat /\ reset_count \in Nat /\ presses \in Nat

ServerMemory == rom \in [Word -> Firmware] /\ sram \in [Word -> Firmware]

ServerTypeOK == ServerStates /\ ServerFlags /\ ServerCounts /\ ServerMemory

(***************************************************************************)
(* A reset or reload that was answered with ok means what it says: the     *)
(* core has since been reset, and the words it has copied are those of the *)
(* ROM - of the firmware the status names, unless a reload has failed.  It *)
(* holds although any change of the counter is taken as the answer         *)
(* (server.py:52), an earlier reset included.                              *)
(***************************************************************************)
AckMeansBooted ==
    at \in {"serve", "deaf"} /\ answer = "ok" =>
        /\ \A i \in 1 .. boot : sram[i] = rom[i]
        /\ ~reloadFailed => \A i \in Word : rom[i] = reported

(***************************************************************************)
(* The camera is cut off between commands only after a drain that failed   *)
(* (server.py:116 raises outside of the try block).                        *)
(***************************************************************************)
PausedOnlyAfterTimeout == at = "serve" /\ pause => answer = "not drained"

(***************************************************************************)
(* The core is never reset more often than reset was pressed, however long *)
(* the bit is held (reset_ext_send.v:7-9).                                 *)
(***************************************************************************)
NoExtraReset == reset_count + (IF valid \/ Edge THEN 1 ELSE 0) <= presses

(***************************************************************************)
(* Until a reset has timed out, every reset a command causes is delivered  *)
(* while the input is paused: the precondition under which the chip loses  *)
(* nothing (Application, DrainedSpec).                                     *)
(***************************************************************************)
DeliveredPaused == [][reset_count' > reset_count /\ cmd # "start" /\ ~late => pause]_server

(***************************************************************************)
(* Until a reset has timed out, no boot sees the ROM change under it,      *)
(* provided a boot is over in the time pause_and_drain takes at least.     *)
(***************************************************************************)
Mixed == \E i, j \in 1 .. boot : sram[i] # sram[j]

CleanBoot == ~slow /\ ~late /\ cmd # "start" => ~Mixed

(***************************************************************************)
(* Every command comes to an end, unless the server is restarted.          *)
(***************************************************************************)
CommandEnds == at = "drain" ~> at \in {"serve", "deaf", "dead"} \/ cmd = "start"

(***************************************************************************)
(* server.py:128-130 write the full ROM only after ingress is stopped and  *)
(* output has drained, then reset: no boot sees a part of the new ROM.     *)
(***************************************************************************)
NeverMixed == ~slow /\ cmd # "start" => ~Mixed
=============================================================================
