---------------------------- MODULE Parts_proofs ----------------------------
(***************************************************************************)
(* Proofs about the control thread of the server, about the tools of the   *)
(* host (harness/host/) and about all the parts together: the live         *)
(* viewers, the motion detector and its mirror, the rotation, the players  *)
(* of recordings, the result viewer and the generator of file numbers, for *)
(* every value of their constants; and the invariants of every part in the *)
(* module that puts the parts side by side.                                *)
(*                                                                         *)
(* Four of the tools count, draw, list or cut by recursive functions.  That *)
(* such a function exists, and is what its equation says, is proved.       *)
(***************************************************************************)
EXTENDS MCParts, Chip_proofs, SequenceFacts

-----------------------------------------------------------------------------
(***************************************************************************)
(* The control thread of the server (harness/pynq) and the reset sender,   *)
(* for every number of words of a firmware and every number of resets.     *)
(* The argument for an answer: between the moment the counter is read and  *)
(* the moment it is seen changed, the core has begun to boot, and nothing  *)
(* has been written to the ROM since.  For a whole boot: unless a reset    *)
(* has timed out, none is pending while the ROM is written, so that no     *)
(* boot begins before the last word is there.                              *)
(***************************************************************************)

(***************************************************************************)
(* Type correctness.                                                       *)
(***************************************************************************)
LEMMA TypeInit == ServerInit => ServerTypeOK
<1> SUFFICES ASSUME ServerInit
             PROVE  ServerTypeOK
  OBVIOUS
<1> USE DEF ServerInit
<1>1. ServerStates
  BY DEF ServerStates
<1>2. ServerFlags
  BY DEF ServerFlags
<1>3. ServerCounts
  BY ServerAssumption DEF ServerAssumption, ServerCounts
<1>4. ServerMemory
  BY DEF ServerMemory, Fill, Firmware
<1>5. QED
  BY <1>1, <1>2, <1>3, <1>4 DEF ServerTypeOK

LEMMA CountStep == ServerCounts /\ [ServerNext]_server => ServerCounts'
<1> SUFFICES ASSUME ServerCounts, [ServerNext]_server
             PROVE  ServerCounts'
  OBVIOUS
<1> USE ServerAssumption DEF ServerAssumption, ServerCounts, server, thread, bits, report, plReg, core
<1>1. CASE Begin("reset")
  BY <1>1 DEF Begin
<1>2. CASE Begin("reload")
  BY <1>2 DEF Begin
<1>3. CASE Shutdown
  BY <1>3 DEF Shutdown
<1>4. CASE LoseClient
  BY <1>4 DEF LoseClient
<1>5. CASE Restart
  BY <1>5 DEF Restart
<1>6. CASE Drained
  BY <1>6 DEF Drained
<1>7. CASE LoadWord
  BY <1>7 DEF LoadWord, MoreWords
<1>8. CASE LoadDone
  BY <1>8 DEF LoadDone, MoreWords
<1>9. CASE ReadBefore
  BY <1>9 DEF ReadBefore, Baseline
<1>10. CASE Press
  BY <1>10 DEF Press
<1>11. CASE Release
  BY <1>11 DEF Release
<1>12. CASE Answered
  BY <1>12 DEF Answered, Finish, PauseAfter, Acknowledged
<1>13. CASE DrainFails
  BY <1>13 DEF DrainFails
<1>14. CASE LoadFails
  BY <1>14 DEF LoadFails, Finish, PauseAfter
<1>15. CASE TimesOut
  BY <1>15 DEF TimesOut, Finish, PauseAfter
<1>16. CASE Handshake
  BY <1>16 DEF Handshake
<1>17. CASE Clock
  BY <1>17 DEF Clock
<1>18. CASE CopyWord
  BY <1>18 DEF CopyWord
<1>19. CASE Stall
  BY <1>19 DEF Stall
<1>20. CASE UNCHANGED server
  BY <1>20
<1>21. QED
  BY <1>1, <1>2, <1>3, <1>4, <1>5, <1>6, <1>7, <1>8, <1>9, <1>10,
     <1>11, <1>12, <1>13, <1>14, <1>15, <1>16, <1>17, <1>18, <1>19, <1>20
  DEF ServerNext, Command, ThreadStep

\* A word that is copied is one of the firmware.
LEMMA CopyInRange ==
    ASSUME ServerCounts, CopyWord
    PROVE  /\ boot' \in Word /\ 1 .. boot' \subseteq Word
           /\ \A ix \in 1 .. boot' : ix = boot' \/ ix \in 1 .. boot
  BY ServerAssumption DEF ServerAssumption, ServerCounts, CopyWord, Word

LEMMA TypeStep == ServerTypeOK /\ [ServerNext]_server => ServerTypeOK'
<1> SUFFICES ASSUME ServerTypeOK, [ServerNext]_server
             PROVE  ServerStates' /\ ServerFlags' /\ ServerMemory'
  BY CountStep DEF ServerTypeOK
<1> USE DEF ServerTypeOK, ServerStates, ServerFlags, ServerMemory,
            server, thread, bits, report, plReg, core
<1>1. CASE Begin("reset")
  BY <1>1 DEF Begin
<1>2. CASE Begin("reload")
  BY <1>2 DEF Begin
<1>3. CASE Shutdown
  BY <1>3 DEF Shutdown
<1>4. CASE LoseClient
  BY <1>4 DEF LoseClient
<1>5. CASE Restart
  BY <1>5 DEF Restart, Fill, Firmware
<1>6. CASE Drained
  BY <1>6 DEF Drained
<1>7. CASE LoadWord
  BY <1>7 DEF LoadWord, MoreWords, Firmware
<1>8. CASE LoadDone
  BY <1>8 DEF LoadDone, MoreWords
<1>9. CASE ReadBefore
  BY <1>9 DEF ReadBefore, Baseline
<1>10. CASE Press
  BY <1>10 DEF Press
<1>11. CASE Release
  BY <1>11 DEF Release
<1>12. CASE Answered
  BY <1>12 DEF Answered, Finish, PauseAfter, Acknowledged
<1>13. CASE DrainFails
  BY <1>13 DEF DrainFails
<1>14. CASE LoadFails
  BY <1>14 DEF LoadFails, Finish, PauseAfter
<1>15. CASE TimesOut
  BY <1>15 DEF TimesOut, Finish, PauseAfter
<1>16. CASE Handshake
  BY <1>16 DEF Handshake
<1>17. CASE Clock
  BY <1>17 DEF Clock
<1>18. CASE CopyWord
  BY <1>18, CopyInRange DEF CopyWord
<1>19. CASE Stall
  BY <1>19 DEF Stall
<1>20. CASE UNCHANGED server
  BY <1>20
<1>21. QED
  BY <1>1, <1>2, <1>3, <1>4, <1>5, <1>6, <1>7, <1>8, <1>9, <1>10,
     <1>11, <1>12, <1>13, <1>14, <1>15, <1>16, <1>17, <1>18, <1>19, <1>20
  DEF ServerNext, Command, ThreadStep

\* Thread, registers and memories keep their types: in particular, the counts
\* of words written and copied stay within the firmware.
THEOREM ServerTyped == ServerSpec => []ServerTypeOK
<1>1. QED
  BY TypeInit, TypeStep, PTL DEF ServerSpec

-----------------------------------------------------------------------------
\* Each step keeps the pause bit to what it is for.
LEMMA PauseStep ==
    PausedOnlyAfterTimeout /\ [ServerNext]_server => PausedOnlyAfterTimeout'
<1> SUFFICES ASSUME PausedOnlyAfterTimeout, [ServerNext]_server
             PROVE  PausedOnlyAfterTimeout'
  OBVIOUS
<1> USE DEF PausedOnlyAfterTimeout, server, thread, bits, report, plReg, core
<1>1. CASE Begin("reset")
  BY <1>1 DEF Begin
<1>2. CASE Begin("reload")
  BY <1>2 DEF Begin
<1>3. CASE Shutdown
  BY <1>3 DEF Shutdown
<1>4. CASE LoseClient
  BY <1>4 DEF LoseClient
<1>5. CASE Restart
  BY <1>5 DEF Restart
<1>6. CASE Drained
  BY <1>6 DEF Drained
<1>7. CASE LoadWord
  BY <1>7 DEF LoadWord, MoreWords
<1>8. CASE LoadDone
  BY <1>8 DEF LoadDone, MoreWords
<1>9. CASE ReadBefore
  BY <1>9 DEF ReadBefore, Baseline
<1>10. CASE Press
  BY <1>10 DEF Press
<1>11. CASE Release
  BY <1>11 DEF Release
<1>12. CASE Answered
  BY <1>12 DEF Answered, Finish, PauseAfter, Acknowledged
<1>13. CASE DrainFails
  BY <1>13 DEF DrainFails
<1>14. CASE LoadFails
  BY <1>14 DEF LoadFails, Finish, PauseAfter
<1>15. CASE TimesOut
  BY <1>15 DEF TimesOut, Finish, PauseAfter
<1>16. CASE Handshake
  BY <1>16 DEF Handshake
<1>17. CASE Clock
  BY <1>17 DEF Clock
<1>18. CASE CopyWord
  BY <1>18 DEF CopyWord
<1>19. CASE Stall
  BY <1>19 DEF Stall
<1>20. CASE UNCHANGED server
  BY <1>20
<1>21. QED
  BY <1>1, <1>2, <1>3, <1>4, <1>5, <1>6, <1>7, <1>8, <1>9, <1>10,
     <1>11, <1>12, <1>13, <1>14, <1>15, <1>16, <1>17, <1>18, <1>19, <1>20
  DEF ServerNext, Command, ThreadStep

(***************************************************************************)
(* The pause bit outlives a command only when its drain failed: whatever   *)
(* else ends a command clears it.                                          *)
(***************************************************************************)
THEOREM PauseCorrect == ServerSpec => []PausedOnlyAfterTimeout
<1>1. ServerInit => PausedOnlyAfterTimeout
  BY DEF ServerInit, PausedOnlyAfterTimeout
<1>2. QED
  BY <1>1, PauseStep, PTL DEF ServerSpec

\* Each step keeps the edges counted.
LEMMA ResetsStep ==
    ServerTypeOK /\ NoExtraReset /\ [ServerNext]_server => NoExtraReset'
<1> SUFFICES ASSUME ServerTypeOK, NoExtraReset, [ServerNext]_server
             PROVE  NoExtraReset'
  OBVIOUS
<1> USE DEF NoExtraReset, Edge, ServerTypeOK, ServerCounts, ServerFlags,
            server, thread, bits, report, plReg, core
<1>1. CASE Begin("reset")
  BY <1>1 DEF Begin
<1>2. CASE Begin("reload")
  BY <1>2 DEF Begin
<1>3. CASE Shutdown
  BY <1>3 DEF Shutdown
<1>4. CASE LoseClient
  BY <1>4 DEF LoseClient
<1>5. CASE Restart
  BY <1>5 DEF Restart
<1>6. CASE Drained
  BY <1>6 DEF Drained
<1>7. CASE LoadWord
  BY <1>7 DEF LoadWord, MoreWords
<1>8. CASE LoadDone
  BY <1>8 DEF LoadDone, MoreWords
<1>9. CASE ReadBefore
  BY <1>9 DEF ReadBefore, Baseline
<1>10. CASE Press
  BY <1>10 DEF Press
<1>11. CASE Release
  BY <1>11 DEF Release
<1>12. CASE Answered
  BY <1>12 DEF Answered, Finish, PauseAfter, Acknowledged
<1>13. CASE DrainFails
  BY <1>13 DEF DrainFails
<1>14. CASE LoadFails
  BY <1>14 DEF LoadFails, Finish, PauseAfter
<1>15. CASE TimesOut
  BY <1>15 DEF TimesOut, Finish, PauseAfter
<1>16. CASE Handshake
  BY <1>16 DEF Handshake
<1>17. CASE Clock
  BY <1>17 DEF Clock
<1>18. CASE CopyWord
  BY <1>18 DEF CopyWord
<1>19. CASE Stall
  BY <1>19 DEF Stall
<1>20. CASE UNCHANGED server
  BY <1>20
<1>21. QED
  BY <1>1, <1>2, <1>3, <1>4, <1>5, <1>6, <1>7, <1>8, <1>9, <1>10,
     <1>11, <1>12, <1>13, <1>14, <1>15, <1>16, <1>17, <1>18, <1>19, <1>20
  DEF ServerNext, Command, ThreadStep

(***************************************************************************)
(* Every delivered reset is an edge of its own: an edge is raised by Press *)
(* only, and is either armed, seen or gone.                                *)
(***************************************************************************)
THEOREM ResetsCounted == ServerSpec => []NoExtraReset
<1>1. ServerInit => NoExtraReset
  BY DEF ServerInit, NoExtraReset, Edge
<1>2. QED
  BY <1>1, ResetsStep, ServerTyped, PTL DEF ServerSpec

-----------------------------------------------------------------------------
(***************************************************************************)
(* What is known of ROM and SRAM on the way through a command.             *)
(***************************************************************************)
Arming == {"arm", "low", "high", "wait"}
Between == {"serve", "deaf", "drain"}

Booted == \A ix \in 1 .. boot : sram[ix] = rom[ix]

RomHolds(w) == \A ix \in Word : rom[ix] = w

\* Which commands write to the ROM, and what they have written.
Writing == /\ at = "load" => cmd # "reset" /\ \A ix \in 1 .. written : rom[ix] = image
           /\ at \in Arming /\ cmd # "reset" => RomHolds(image)
           /\ cmd = "start" => image = reported
           /\ at = "drain" => cmd # "start"

\* Outside of the commands that write, the ROM is what the status names.
Named == at \in Between \/ (at \in Arming /\ cmd = "reset") =>
             (~reloadFailed => RomHolds(reported))

\* A counter that has changed since it was read tells of a boot.
Told == /\ at \in {"low", "high", "wait"} /\ Acknowledged => Booted
        /\ at \in {"serve", "deaf"} /\ answer = "ok" => Booted

CommandInv == Writing /\ Named /\ Told

(***************************************************************************)
(* Until the ROM is written, a core that agrees with it goes on agreeing.  *)
(***************************************************************************)
LEMMA BootedKept ==
    ASSUME ServerTypeOK, Booted, rom' = rom, CopyWord \/ UNCHANGED <<sram, boot>>
    PROVE  Booted'
<1> USE DEF Booted
<1>1. CASE CopyWord
  <2> SUFFICES ASSUME NEW ix \in 1 .. boot'
               PROVE  sram'[ix] = rom'[ix]
    OBVIOUS
  <2>1. boot' \in Word /\ ix \in Word /\ (ix = boot' \/ ix \in 1 .. boot)
    BY <1>1, CopyInRange DEF ServerTypeOK
  <2>2. sram' = [sram EXCEPT ![boot'] = rom[boot']] /\ sram \in [Word -> Firmware]
    BY <1>1 DEF CopyWord, ServerTypeOK, ServerMemory
  <2>3. QED
    BY <2>1, <2>2
<1>2. CASE UNCHANGED <<sram, boot>>
  BY <1>2
<1>3. QED
  BY <1>1, <1>2

\* Likewise of the words that are written.
LEMMA NoWordYet == 1 .. 0 = {}
  OBVIOUS

LEMMA LoadInRange ==
    ASSUME ServerCounts, LoadWord
    PROVE  /\ written' = written + 1 /\ 1 .. written' \subseteq Word
           /\ \A ix \in 1 .. written' : ix = written' \/ ix \in 1 .. written
  BY ServerAssumption
     DEF ServerAssumption, ServerCounts, LoadWord, MoreWords, Word

LEMMA LoadedAll == ASSUME ServerCounts, LoadDone
                   PROVE  1 .. written = Word
<1>1. written = NWords
  BY ServerAssumption DEF ServerAssumption, ServerCounts, LoadDone, MoreWords
<1>2. QED
  BY <1>1 DEF Word

LEMMA WritingStep == ServerTypeOK /\ Writing /\ [ServerNext]_server => Writing'
<1> SUFFICES ASSUME ServerTypeOK, Writing, [ServerNext]_server
             PROVE  Writing'
  OBVIOUS
<1> USE DEF Writing, RomHolds, Arming, ServerTypeOK, ServerStates,
            server, thread, bits, report, plReg, core
<1>1. CASE Begin("reset")
  BY <1>1 DEF Begin
<1>2. CASE Begin("reload")
  BY <1>2 DEF Begin
<1>3. CASE Shutdown
  BY <1>3 DEF Shutdown
<1>4. CASE LoseClient
  BY <1>4 DEF LoseClient
<1>5. CASE Restart
  BY <1>5, NoWordYet DEF Restart
<1>6. CASE Drained
  BY <1>6, NoWordYet DEF Drained
<1>7. CASE LoadWord
  <2>1. /\ at = "load" /\ rom' = [rom EXCEPT ![written'] = image]
        /\ UNCHANGED <<at, cmd, image, reported>>
    BY <1>7 DEF LoadWord
  <2>2. ASSUME NEW ix \in 1 .. written'
        PROVE  rom'[ix] = image'
    <3>1. ix \in Word /\ (ix = written' \/ ix \in 1 .. written)
      BY <1>7, LoadInRange DEF ServerTypeOK
    <3>2. QED
      BY <2>1, <3>1 DEF ServerTypeOK, ServerMemory, Writing
  <2>3. QED
    BY <2>1, <2>2 DEF Writing, Arming
<1>8. CASE LoadDone
  BY <1>8, LoadedAll DEF LoadDone
<1>9. CASE ReadBefore
  BY <1>9 DEF ReadBefore, Baseline
<1>10. CASE Press
  BY <1>10 DEF Press
<1>11. CASE Release
  BY <1>11 DEF Release
<1>12. CASE Answered
  BY <1>12 DEF Answered, Finish, PauseAfter, Acknowledged
<1>13. CASE DrainFails
  BY <1>13 DEF DrainFails
<1>14. CASE LoadFails
  BY <1>14 DEF LoadFails, Finish, PauseAfter
<1>15. CASE TimesOut
  BY <1>15 DEF TimesOut, Finish, PauseAfter
<1>16. CASE Handshake
  BY <1>16 DEF Handshake
<1>17. CASE Clock
  BY <1>17 DEF Clock
<1>18. CASE CopyWord
  BY <1>18 DEF CopyWord
<1>19. CASE Stall
  BY <1>19 DEF Stall
<1>20. CASE UNCHANGED server
  BY <1>20
<1>21. QED
  BY <1>1, <1>2, <1>3, <1>4, <1>5, <1>6, <1>7, <1>8, <1>9, <1>10,
     <1>11, <1>12, <1>13, <1>14, <1>15, <1>16, <1>17, <1>18, <1>19, <1>20
  DEF ServerNext, Command, ThreadStep

LEMMA NamedStep ==
    ServerTypeOK /\ Writing /\ Named /\ [ServerNext]_server => Named'
<1> SUFFICES ASSUME ServerTypeOK, Writing, Named, [ServerNext]_server
             PROVE  Named'
  OBVIOUS
<1> USE DEF Named, Writing, RomHolds, Arming, Between, ServerTypeOK,
            ServerStates, server, thread, bits, report, plReg, core
<1>1. CASE Begin("reset")
  BY <1>1 DEF Begin
<1>2. CASE Begin("reload")
  BY <1>2 DEF Begin
<1>3. CASE Shutdown
  BY <1>3 DEF Shutdown
<1>4. CASE LoseClient
  BY <1>4 DEF LoseClient
<1>5. CASE Restart
  BY <1>5 DEF Restart
<1>6. CASE Drained
  BY <1>6 DEF Drained
<1>7. CASE LoadWord
  BY <1>7 DEF LoadWord, MoreWords
<1>8. CASE LoadDone
  BY <1>8 DEF LoadDone, MoreWords
<1>9. CASE ReadBefore
  BY <1>9 DEF ReadBefore, Baseline
<1>10. CASE Press
  BY <1>10 DEF Press
<1>11. CASE Release
  BY <1>11 DEF Release
<1>12. CASE Answered
  BY <1>12 DEF Answered, Finish, PauseAfter, Acknowledged
<1>13. CASE DrainFails
  BY <1>13 DEF DrainFails
<1>14. CASE LoadFails
  BY <1>14 DEF LoadFails, Finish, PauseAfter
<1>15. CASE TimesOut
  BY <1>15 DEF TimesOut, Finish, PauseAfter
<1>16. CASE Handshake
  BY <1>16 DEF Handshake
<1>17. CASE Clock
  BY <1>17 DEF Clock
<1>18. CASE CopyWord
  BY <1>18 DEF CopyWord
<1>19. CASE Stall
  BY <1>19 DEF Stall
<1>20. CASE UNCHANGED server
  BY <1>20
<1>21. QED
  BY <1>1, <1>2, <1>3, <1>4, <1>5, <1>6, <1>7, <1>8, <1>9, <1>10,
     <1>11, <1>12, <1>13, <1>14, <1>15, <1>16, <1>17, <1>18, <1>19, <1>20
  DEF ServerNext, Command, ThreadStep

LEMMA ToldStep ==
    ServerTypeOK /\ Told /\ [ServerNext]_server => Told'
<1> SUFFICES ASSUME ServerTypeOK, Told, [ServerNext]_server
             PROVE  Told'
  OBVIOUS
<1>1. CASE Handshake
  BY <1>1 DEF Handshake, Told, Booted
<1>2. CASE CopyWord
  <2>1. UNCHANGED <<at, answer, before, reset_count, rom>>
    BY <1>2 DEF CopyWord, thread, report, plReg
  <2>2. QED
    BY <1>2, <2>1, BootedKept DEF Told, Acknowledged
<1>3. CASE ~Handshake /\ ~CopyWord
  <2> USE DEF Told, Acknowledged, Booted, server, thread, bits, report, plReg, core
  <2>1. CASE Begin("reset")
    BY <2>1 DEF Begin
  <2>2. CASE Begin("reload")
    BY <2>2 DEF Begin
  <2>3. CASE Shutdown
    BY <2>3 DEF Shutdown
  <2>4. CASE LoseClient
    BY <2>4 DEF LoseClient
  <2>5. CASE Restart
    BY <2>5 DEF Restart
  <2>6. CASE Drained
    BY <2>6 DEF Drained
  <2>7. CASE LoadWord
    BY <2>7 DEF LoadWord, MoreWords
  <2>8. CASE LoadDone
    BY <2>8 DEF LoadDone, MoreWords
  <2>9. CASE ReadBefore
    BY <2>9 DEF ReadBefore, Baseline
  <2>10. CASE Press
    BY <2>10 DEF Press
  <2>11. CASE Release
    BY <2>11 DEF Release
  <2>12. CASE Answered
    BY <2>12 DEF Answered, Finish, PauseAfter, Acknowledged
  <2>13. CASE DrainFails
    BY <2>13 DEF DrainFails
  <2>14. CASE LoadFails
    BY <2>14 DEF LoadFails, Finish, PauseAfter
  <2>15. CASE TimesOut
    BY <2>15 DEF TimesOut, Finish, PauseAfter
  <2>16. CASE Handshake
    BY <1>3, <2>16
  <2>17. CASE Clock
    BY <2>17 DEF Clock
  <2>18. CASE CopyWord
    BY <1>3, <2>18
  <2>19. CASE Stall
    BY <2>19 DEF Stall
  <2>20. CASE UNCHANGED server
    BY <2>20
  <2>21. QED
    BY <2>1, <2>2, <2>3, <2>4, <2>5, <2>6, <2>7, <2>8, <2>9, <2>10,
       <2>11, <2>12, <2>13, <2>14, <2>15, <2>16, <2>17, <2>18, <2>19, <2>20
    DEF ServerNext, Command, ThreadStep
<1>4. QED
  BY <1>1, <1>2, <1>3

LEMMA CommandInvCorrect == ServerSpec => []CommandInv
<1>1. ServerInit => CommandInv
  BY ServerAssumption
     DEF ServerInit, CommandInv, Writing, Named, Told, Arming, Between
<1>2. ServerTypeOK /\ CommandInv /\ [ServerNext]_server => CommandInv'
  BY WritingStep, NamedStep, ToldStep DEF CommandInv
<1>3. QED
  BY <1>1, <1>2, ServerTyped, PTL DEF ServerSpec

(***************************************************************************)
(* An answer ok means that the core runs what it was to run.               *)
(***************************************************************************)
THEOREM AckCorrect == ServerSpec => []AckMeansBooted
<1>1. CommandInv => AckMeansBooted
  BY DEF CommandInv, Told, Named, Between, Booted, RomHolds, AckMeansBooted
<1>2. QED
  BY <1>1, CommandInvCorrect, PTL

-----------------------------------------------------------------------------
(***************************************************************************)
(* The sender has a reset pending only between the press and the answer,   *)
(* as long as no reset has timed out: then its counter is the one that was *)
(* read exactly while the reset has not been delivered.                    *)
(***************************************************************************)
Undelivered == reset_count = before

Pending ==
    ~late =>
        /\ at \notin {"high", "wait"} => ~valid /\ ~pulse
        /\ at = "low" => Undelivered
        /\ at = "high" => /\ pulse
                          /\ pulse_q => (valid <=> Undelivered)
                          /\ ~pulse_q => ~valid /\ Undelivered
        /\ at = "wait" => ~pulse /\ (valid <=> Undelivered)

\* A command keeps the input paused until it ends.
Paused == cmd # "start" /\ (at \in Arming \/ at = "drain" \/ at = "load") => pause

\* A handshake changes the counter.
LEMMA HandshakeCounts ==
    ASSUME ServerCounts, Handshake
    PROVE  reset_count' > reset_count /\ (Undelivered => ~Undelivered')
  BY DEF ServerCounts, Handshake, Undelivered, thread

LEMMA PendingStep == ServerTypeOK /\ Pending /\ [ServerNext]_server => Pending'
<1> SUFFICES ASSUME ServerTypeOK, Pending, [ServerNext]_server
             PROVE  Pending'
  OBVIOUS
<1> USE DEF Pending, Edge, Undelivered,
            server, thread, bits, report, plReg, core
<1>1. CASE Begin("reset")
  BY <1>1 DEF Begin
<1>2. CASE Begin("reload")
  BY <1>2 DEF Begin
<1>3. CASE Shutdown
  BY <1>3 DEF Shutdown
<1>4. CASE LoseClient
  BY <1>4 DEF LoseClient
<1>5. CASE Restart
  BY <1>5 DEF Restart
<1>6. CASE Drained
  BY <1>6 DEF Drained
<1>7. CASE LoadWord
  BY <1>7 DEF LoadWord, MoreWords
<1>8. CASE LoadDone
  BY <1>8 DEF LoadDone, MoreWords
<1>9. CASE ReadBefore
  BY <1>9 DEF ReadBefore, Baseline
<1>10. CASE Press
  BY <1>10 DEF Press
<1>11. CASE Release
  BY <1>11 DEF Release
<1>12. CASE Answered
  BY <1>12 DEF Answered, Finish, PauseAfter, Acknowledged
<1>13. CASE DrainFails
  BY <1>13 DEF DrainFails
<1>14. CASE LoadFails
  BY <1>14 DEF LoadFails, Finish, PauseAfter
<1>15. CASE TimesOut
  BY <1>15 DEF TimesOut, Finish, PauseAfter
<1>16. CASE Handshake
  <2>1. valid /\ ~valid' /\ pulse_q' = pulse /\ UNCHANGED <<at, pulse, late>>
    BY <1>16 DEF Handshake
  <2>2. Undelivered => ~Undelivered'
    BY <1>16, HandshakeCounts DEF ServerTypeOK
  <2>3. QED
    BY <2>1, <2>2
<1>17. CASE Clock
  BY <1>17 DEF Clock
<1>18. CASE CopyWord
  BY <1>18 DEF CopyWord
<1>19. CASE Stall
  BY <1>19 DEF Stall
<1>20. CASE UNCHANGED server
  BY <1>20
<1>21. QED
  BY <1>1, <1>2, <1>3, <1>4, <1>5, <1>6, <1>7, <1>8, <1>9, <1>10,
     <1>11, <1>12, <1>13, <1>14, <1>15, <1>16, <1>17, <1>18, <1>19, <1>20
  DEF ServerNext, Command, ThreadStep

LEMMA PausedStep == Paused /\ [ServerNext]_server => Paused'
<1> SUFFICES ASSUME Paused, [ServerNext]_server
             PROVE  Paused'
  OBVIOUS
<1> USE DEF Paused, Arming,
            server, thread, bits, report, plReg, core
<1>1. CASE Begin("reset")
  BY <1>1 DEF Begin
<1>2. CASE Begin("reload")
  BY <1>2 DEF Begin
<1>3. CASE Shutdown
  BY <1>3 DEF Shutdown
<1>4. CASE LoseClient
  BY <1>4 DEF LoseClient
<1>5. CASE Restart
  BY <1>5 DEF Restart
<1>6. CASE Drained
  BY <1>6 DEF Drained
<1>7. CASE LoadWord
  BY <1>7 DEF LoadWord, MoreWords
<1>8. CASE LoadDone
  BY <1>8 DEF LoadDone, MoreWords
<1>9. CASE ReadBefore
  BY <1>9 DEF ReadBefore, Baseline
<1>10. CASE Press
  BY <1>10 DEF Press
<1>11. CASE Release
  BY <1>11 DEF Release
<1>12. CASE Answered
  BY <1>12 DEF Answered, Finish, PauseAfter, Acknowledged
<1>13. CASE DrainFails
  BY <1>13 DEF DrainFails
<1>14. CASE LoadFails
  BY <1>14 DEF LoadFails, Finish, PauseAfter
<1>15. CASE TimesOut
  BY <1>15 DEF TimesOut, Finish, PauseAfter
<1>16. CASE Handshake
  BY <1>16 DEF Handshake
<1>17. CASE Clock
  BY <1>17 DEF Clock
<1>18. CASE CopyWord
  BY <1>18 DEF CopyWord
<1>19. CASE Stall
  BY <1>19 DEF Stall
<1>20. CASE UNCHANGED server
  BY <1>20
<1>21. QED
  BY <1>1, <1>2, <1>3, <1>4, <1>5, <1>6, <1>7, <1>8, <1>9, <1>10,
     <1>11, <1>12, <1>13, <1>14, <1>15, <1>16, <1>17, <1>18, <1>19, <1>20
  DEF ServerNext, Command, ThreadStep

LEMMA PendingCorrect == ServerSpec => [](Pending /\ Paused)
<1>1. ServerInit => Pending /\ Paused
  BY DEF ServerInit, Pending, Paused
<1>2. /\ ServerTypeOK /\ Pending /\ Paused /\ [ServerNext]_server
      => Pending' /\ Paused'
  BY PendingStep, PausedStep
<1>3. QED
  BY <1>1, <1>2, ServerTyped, PTL DEF ServerSpec

(***************************************************************************)
(* A reset is delivered while the camera is cut off, unless one that timed *)
(* out is delivered late.                                                  *)
(***************************************************************************)
THEOREM DeliveryPaused == ServerSpec => DeliveredPaused
<1>1. ASSUME ServerTypeOK, Pending, Paused, [ServerNext]_server,
             reset_count' > reset_count, cmd # "start", ~late
      PROVE  pause
  <2>1. CASE Handshake
    BY <1>1, <2>1 DEF Handshake, Pending, Paused, Arming
  <2>2. CASE Restart
    <3>1. FALSE
      BY <1>1, <2>2 DEF Restart, ServerTypeOK, ServerCounts
    <3>2. QED
      BY <3>1
  <2>3. CASE ~Handshake /\ ~Restart
    <3>1. reset_count' = reset_count
      BY <1>1, <2>3
      DEF ServerNext, Command, Begin, Shutdown, LoseClient, ThreadStep,
          Drained, LoadWord, LoadDone, ReadBefore, Press, Release, Answered,
          DrainFails, LoadFails, TimesOut, Clock, CopyWord, Stall,
          server, thread, bits, report, plReg, core
    <3>2. QED
      BY <1>1, <3>1 DEF ServerTypeOK, ServerCounts
  <2>4. QED
    BY <2>1, <2>2, <2>3
<1>2. QED
  BY <1>1, ServerTyped, PendingCorrect, PTL DEF ServerSpec, DeliveredPaused

-----------------------------------------------------------------------------
(***************************************************************************)
(* Outside of a write the words of the ROM belong to one image.            *)
(***************************************************************************)
RomUniform == \A ix, j \in Word : rom[ix] = rom[j]

RomWhole == (at = "load" => written = 0) => RomUniform

\* What a boot has copied is of one image, no boot is under way while the ROM
\* is written, and one that is under way agrees with the ROM.
BootWhole ==
    ~slow /\ ~late /\ cmd # "start" =>
        /\ ~Mixed
        /\ at = "load" => boot = NWords
        /\ boot < NWords => Booted

\* The first reset was acknowledged before a command is taken.
Started == at = "serve" /\ cmd = "start" => answer = "ok"

LEMMA WroteSome == ASSUME ServerCounts, LoadWord
                   PROVE  written' # 0
  BY DEF ServerCounts, LoadWord

LEMMA RomWholeStep ==
    ServerTypeOK /\ Writing /\ RomWhole /\ [ServerNext]_server => RomWhole'
<1> SUFFICES ASSUME ServerTypeOK, Writing, RomWhole, [ServerNext]_server
             PROVE  RomWhole'
  OBVIOUS
<1> USE DEF RomWhole, RomUniform,
            server, thread, bits, report, plReg, core
<1>1. CASE Begin("reset")
  BY <1>1 DEF Begin
<1>2. CASE Begin("reload")
  BY <1>2 DEF Begin
<1>3. CASE Shutdown
  BY <1>3 DEF Shutdown
<1>4. CASE LoseClient
  BY <1>4 DEF LoseClient
<1>5. CASE Restart
  BY <1>5 DEF Restart, Fill
<1>6. CASE Drained
  BY <1>6 DEF Drained
<1>7. CASE LoadWord
  BY <1>7, WroteSome DEF LoadWord, ServerTypeOK
<1>8. CASE LoadDone
  BY <1>8, LoadedAll DEF LoadDone, ServerTypeOK, Writing
<1>9. CASE ReadBefore
  BY <1>9 DEF ReadBefore, Baseline
<1>10. CASE Press
  BY <1>10 DEF Press
<1>11. CASE Release
  BY <1>11 DEF Release
<1>12. CASE Answered
  BY <1>12 DEF Answered, Finish, PauseAfter, Acknowledged
<1>13. CASE DrainFails
  BY <1>13 DEF DrainFails
<1>14. CASE LoadFails
  <2>1. CASE written = 0
    BY <1>14, <2>1 DEF LoadFails
  <2>2. CASE written = NWords
    BY <1>14, <2>2 DEF LoadFails, Writing, Word
  <2>3. QED
    BY <1>14, <2>1, <2>2 DEF LoadFails
<1>15. CASE TimesOut
  BY <1>15 DEF TimesOut, Finish, PauseAfter
<1>16. CASE Handshake
  BY <1>16 DEF Handshake
<1>17. CASE Clock
  BY <1>17 DEF Clock
<1>18. CASE CopyWord
  BY <1>18 DEF CopyWord
<1>19. CASE Stall
  BY <1>19 DEF Stall
<1>20. CASE UNCHANGED server
  BY <1>20
<1>21. QED
  BY <1>1, <1>2, <1>3, <1>4, <1>5, <1>6, <1>7, <1>8, <1>9, <1>10,
     <1>11, <1>12, <1>13, <1>14, <1>15, <1>16, <1>17, <1>18, <1>19, <1>20
  DEF ServerNext, Command, ThreadStep

LEMMA StartedStep ==
    Writing /\ Started /\ [ServerNext]_server => Started'
<1> SUFFICES ASSUME Writing, Started, [ServerNext]_server
             PROVE  Started'
  OBVIOUS
<1> USE DEF Started, Writing,
            server, thread, bits, report, plReg, core
<1>1. CASE Begin("reset")
  BY <1>1 DEF Begin
<1>2. CASE Begin("reload")
  BY <1>2 DEF Begin
<1>3. CASE Shutdown
  BY <1>3 DEF Shutdown
<1>4. CASE LoseClient
  BY <1>4 DEF LoseClient
<1>5. CASE Restart
  BY <1>5 DEF Restart
<1>6. CASE Drained
  BY <1>6 DEF Drained
<1>7. CASE LoadWord
  BY <1>7 DEF LoadWord, MoreWords
<1>8. CASE LoadDone
  BY <1>8 DEF LoadDone, MoreWords
<1>9. CASE ReadBefore
  BY <1>9 DEF ReadBefore, Baseline
<1>10. CASE Press
  BY <1>10 DEF Press
<1>11. CASE Release
  BY <1>11 DEF Release
<1>12. CASE Answered
  BY <1>12 DEF Answered, Finish, PauseAfter, Acknowledged
<1>13. CASE DrainFails
  BY <1>13 DEF DrainFails
<1>14. CASE LoadFails
  BY <1>14 DEF LoadFails, Finish, PauseAfter
<1>15. CASE TimesOut
  BY <1>15 DEF TimesOut, Finish, PauseAfter
<1>16. CASE Handshake
  BY <1>16 DEF Handshake
<1>17. CASE Clock
  BY <1>17 DEF Clock
<1>18. CASE CopyWord
  BY <1>18 DEF CopyWord
<1>19. CASE Stall
  BY <1>19 DEF Stall
<1>20. CASE UNCHANGED server
  BY <1>20
<1>21. QED
  BY <1>1, <1>2, <1>3, <1>4, <1>5, <1>6, <1>7, <1>8, <1>9, <1>10,
     <1>11, <1>12, <1>13, <1>14, <1>15, <1>16, <1>17, <1>18, <1>19, <1>20
  DEF ServerNext, Command, ThreadStep

\* A boot that agrees with a whole ROM is of one image.
LEMMA BootedUnmixed ==
    ASSUME ServerCounts, RomUniform, Booted
    PROVE  ~Mixed
<1>1. 1 .. boot \subseteq Word
  BY ServerAssumption DEF ServerAssumption, ServerCounts, Word
<1>2. QED
  BY <1>1 DEF RomUniform, Booted, Mixed

\* A command begins on a core that has booted, or whose boot agrees.
LEMMA BeginWhole ==
    ASSUME ServerTypeOK, Told, RomWhole, Started, BootWhole,
           Begin("reset") \/ Begin("reload")
    PROVE  BootWhole'
<1>1. /\ at = "serve" /\ at' = "drain"
      /\ UNCHANGED <<slow, late, boot, sram, rom>>
  BY DEF Begin, core
<1>2. CASE cmd = "start"
  <2>1. Booted
    BY <1>1, <1>2 DEF Started, Told
  <2>2. ~Mixed
    BY <1>1, <2>1, BootedUnmixed DEF RomWhole, ServerTypeOK
  <2>3. QED
    BY <1>1, <2>1, <2>2 DEF BootWhole, Booted, Mixed
<1>3. CASE cmd # "start"
  BY <1>1, <1>3 DEF BootWhole, Booted, Mixed
<1>4. QED
  BY <1>2, <1>3

LEMMA BootWholeStep ==
    ServerTypeOK /\ CommandInv /\ Pending /\ RomWhole /\ Started /\ BootWhole
    /\ [ServerNext]_server => BootWhole'
<1> SUFFICES ASSUME ServerTypeOK, CommandInv, Pending, RomWhole, Started,
                    BootWhole, [ServerNext]_server
             PROVE  BootWhole'
  OBVIOUS
<1> USE DEF BootWhole,
            server, thread, bits, report, plReg, core
<1>1. CASE Begin("reset")
  BY <1>1, BeginWhole DEF CommandInv
<1>2. CASE Begin("reload")
  BY <1>2, BeginWhole DEF CommandInv
<1>3. CASE Shutdown
  BY <1>3 DEF Shutdown, Mixed, Booted
<1>4. CASE LoseClient
  BY <1>4 DEF LoseClient, Mixed, Booted
<1>5. CASE Restart
  BY <1>5 DEF Restart, Mixed, Booted
<1>6. CASE Drained
  BY <1>6 DEF Drained, Quiet, Mixed, Booted
<1>7. CASE LoadWord
  <2>1. ~slow /\ ~late /\ cmd # "start" => boot = NWords
    BY <1>7 DEF LoadWord
  <2>2. UNCHANGED <<sram, boot, slow, late, cmd>>
    BY <1>7 DEF LoadWord
  <2>3. boot = NWords => ~(boot < NWords)
    BY ServerAssumption DEF ServerAssumption
  <2>4. QED
    BY <2>1, <2>2, <2>3 DEF Mixed
<1>8. CASE LoadDone
  BY <1>8 DEF LoadDone, MoreWords, Mixed, Booted
<1>9. CASE ReadBefore
  BY <1>9 DEF ReadBefore, Baseline, Mixed, Booted
<1>10. CASE Press
  BY <1>10 DEF Press, Mixed, Booted
<1>11. CASE Release
  BY <1>11 DEF Release, Mixed, Booted
<1>12. CASE Answered
  BY <1>12 DEF Answered, Finish, PauseAfter, Acknowledged, Mixed, Booted
<1>13. CASE DrainFails
  BY <1>13 DEF DrainFails, Mixed, Booted
<1>14. CASE LoadFails
  BY <1>14 DEF LoadFails, Finish, PauseAfter, Mixed, Booted
<1>15. CASE TimesOut
  BY <1>15 DEF TimesOut, Finish, PauseAfter, Mixed, Booted
<1>16. CASE Handshake
  <2>1. boot' = 0 /\ valid /\ UNCHANGED <<at, late>>
    BY <1>16 DEF Handshake
  <2>2. ~late => at # "load"
    BY <2>1 DEF Pending
  <2>3. QED
    BY <2>1, <2>2, NoWordYet DEF Mixed, Booted
<1>17. CASE Clock
  BY <1>17 DEF Clock, Mixed, Booted
<1>18. CASE CopyWord
  <2>1. UNCHANGED <<at, late, cmd, slow, rom>> /\ boot < NWords
    BY <1>18 DEF CopyWord
  <2>2. SUFFICES ASSUME ~slow, ~late, cmd # "start"
                 PROVE  ~Mixed' /\ at # "load" /\ Booted'
    BY <2>1
  <2>3. at # "load" /\ Booted
    BY <2>1, <2>2, ServerAssumption DEF ServerAssumption
  <2>4. Booted'
    BY <1>18, <2>1, <2>3, BootedKept
  <2>5. RomUniform'
    BY <2>1, <2>3 DEF RomWhole, RomUniform
  <2>6. 1 .. boot' \subseteq Word
    BY <1>18, CopyInRange DEF ServerTypeOK
  <2>7. ~Mixed'
    BY <2>4, <2>5, <2>6 DEF Mixed, Booted, RomUniform
  <2>8. QED
    BY <2>3, <2>4, <2>7
<1>19. CASE Stall
  BY <1>19 DEF Stall, Mixed, Booted
<1>20. CASE UNCHANGED server
  BY <1>20 DEF Mixed, Booted
<1>21. QED
  BY <1>1, <1>2, <1>3, <1>4, <1>5, <1>6, <1>7, <1>8, <1>9, <1>10,
     <1>11, <1>12, <1>13, <1>14, <1>15, <1>16, <1>17, <1>18, <1>19, <1>20
  DEF ServerNext, Command, ThreadStep

(***************************************************************************)
(* No boot mixes images, where a drained core is one that has booted and   *)
(* no reset comes late.                                                    *)
(***************************************************************************)
THEOREM BootCorrect == ServerSpec => []CleanBoot
<1>1. ServerInit => RomWhole /\ Started /\ BootWhole
  BY DEF ServerInit, RomWhole, RomUniform, Fill, Started, BootWhole
<1>2. /\ ServerTypeOK /\ CommandInv /\ Pending
      /\ RomWhole /\ Started /\ BootWhole /\ [ServerNext]_server
      => RomWhole' /\ Started' /\ BootWhole'
  BY RomWholeStep, StartedStep, BootWholeStep DEF CommandInv
<1>3. BootWhole => CleanBoot
  BY DEF BootWhole, CleanBoot
<1>4. QED
  BY <1>1, <1>2, <1>3, ServerTyped, CommandInvCorrect, PendingCorrect, PTL
     DEF ServerSpec

-----------------------------------------------------------------------------
(***************************************************************************)
(* The live viewers (harness/host/dvs_*_live.py), for every recording,     *)
(* every size of batch, dump and frame, and every way in which the output  *)
(* of the simulator reaches the file.  Two invariants carry them: what was *)
(* read is the front of the file of this session, and what was seen is     *)
(* what was used of it.                                                    *)
(***************************************************************************)

(***************************************************************************)
(* Arithmetic of whole quotients.                                          *)
(***************************************************************************)

\* What division by a positive number gives, under a name.
Quotients == \A a \in Nat, m \in Nat \ {0} :
               /\ a \div m \in Nat /\ m * (a \div m) \in Nat
               /\ m * (a \div m) <= a /\ a < m * ((a \div m) + 1)

\* It gives that.
LEMMA Division == Quotients
  BY DEF Quotients

-----------------------------------------------------------------------------
(***************************************************************************)
(* What the viewers agree on for every recording, batch size and chunking  *)
(* of the simulator's output: the types, whose file is read, that every    *)
(* line is read once, as one word or as its two parts, and, as long as no  *)
(* flush ends inside a number, as one.  What is said of the words and of   *)
(* the file holds until a simulator that was left behind touches the file. *)
(***************************************************************************)

\* A word as the viewer reads it: who wrote it, and from which line.
ReadWord == [writer : Nat, line : Nat, part : {"whole", "front", "rest"}]

\* What the assumption says of each constant.
LEMMA TailConstants ==
    /\ EVENTS_PER_WORD \in Nat \ {0} /\ EVENTS_PER_DUMP \in Nat \ {0}
    /\ DUMP_WORDS \in Nat \ {0} /\ STABILIZE_BATCH \in Nat \ {0} /\ Rate \in Nat \ {0}
    /\ Recordings \subseteq Nat /\ 0 \in LineCuts /\ LineCuts \subseteq 0 .. 2
    /\ Kinds \subseteq {"motion", "blob", "track", "timesurface", "denoise", "stabilize"}
  BY TailAssumption DEF TailAssumption

\* The viewer that was started and its recording.
Chosen == kind \in Kinds /\ n \in Recordings

\* A whole quotient.
LEMMA Exactly ==
    ASSUME NEW q \in Nat, NEW m \in Nat \ {0}
    PROVE  (q * m) \div m = q
<1> DEFINE d == (q * m) \div m
<1>1. q * m \in Nat
  OBVIOUS
<1>2. d \in Nat /\ m * d <= q * m /\ q * m < m * (d + 1)
  BY <1>1, Division DEF Quotients
<1> HIDE DEF d
<1>3. ~(d < q)
  <2> SUFFICES ASSUME d < q PROVE FALSE
    OBVIOUS
  <2>1. PICK e \in Nat : q = d + 1 + e
    <3>1. q - d - 1 \in Nat /\ q = d + 1 + (q - d - 1)
      BY <1>2
    <3>2. QED
      BY <3>1
  <2>2. q * m = m * (d + 1) + m * e /\ m * e \in Nat /\ m * (d + 1) \in Nat
    BY <1>2, <2>1
  <2>3. QED
    BY <1>1, <1>2, <2>2
<1>4. ~(q < d)
  <2> SUFFICES ASSUME q < d PROVE FALSE
    OBVIOUS
  <2>1. PICK e \in Nat : d = q + 1 + e
    <3>1. d - q - 1 \in Nat /\ d = q + 1 + (d - q - 1)
      BY <1>2
    <3>2. QED
      BY <3>1
  <2>2. m * d = q * m + m + m * e /\ m * e \in Nat
    BY <1>2, <2>1
  <2>3. QED
    BY <1>1, <1>2, <2>2
<1>5. d = q
  BY <1>2, <1>3, <1>4
<1>6. QED
  BY <1>5 DEF d

LEMMA NoRemainder == \A q \in Nat, m \in Nat \ {0} : (q * m) % m = 0
  OBVIOUS

\* A recording cut to batches is a whole number of them, and not longer.
LEMMA Events ==
    ASSUME Chosen
    PROVE  /\ n_events \in Nat /\ n_dumps_total \in Nat /\ n \in Nat /\ n_events <= n
           /\ n_dumps_total * EVENTS_PER_DUMP <= n_events
           /\ kind # "stabilize" =>
                 /\ n_events \div EVENTS_PER_WORD \in Nat
                 /\ (n_events \div EVENTS_PER_WORD) * EVENTS_PER_WORD = n_events
<1>1. kind \in {"motion", "blob", "track", "timesurface", "denoise", "stabilize"} /\ n \in Nat
  BY TailConstants DEF Chosen
<1>2. ASSUME NEW b \in Nat \ {0}
      PROVE  /\ WholeBatches(b) \in Nat /\ WholeBatches(b) <= n
             /\ WholeBatches(b) = (n \div b) * b /\ n \div b \in Nat
  <2>1. n \div b \in Nat /\ b * (n \div b) \in Nat /\ b * (n \div b) <= n
    BY <1>1, Division DEF Quotients
  <2>2. (n \div b) * b = b * (n \div b)
    BY <2>1
  <2>3. QED
    BY <1>1, <2>1, <2>2 DEF WholeBatches
<1>3. CASE kind = "stabilize"
  <2>1. n_events \in Nat /\ n_events <= n
    BY <1>2, <1>3, TailConstants DEF n_events
  <2>2. n_dumps_total \in Nat /\ EVENTS_PER_DUMP * n_dumps_total <= n_events
    BY <2>1, TailConstants, Division DEF n_dumps_total, Quotients
  <2>3. n_dumps_total * EVENTS_PER_DUMP = EVENTS_PER_DUMP * n_dumps_total
    BY <2>2, TailConstants
  <2>4. QED
    BY <1>1, <1>3, <2>1, <2>2, <2>3
<1>4. CASE kind # "stabilize"
  <2>1. /\ n_events \in Nat /\ n_events <= n
        /\ n_events = (n \div EVENTS_PER_WORD) * EVENTS_PER_WORD
        /\ n \div EVENTS_PER_WORD \in Nat
    BY <1>2, <1>4, TailConstants DEF n_events
  <2>2. n_dumps_total \in Nat /\ EVENTS_PER_DUMP * n_dumps_total <= n_events
    BY <2>1, TailConstants, Division DEF n_dumps_total, Quotients
  <2>3. n_dumps_total * EVENTS_PER_DUMP = EVENTS_PER_DUMP * n_dumps_total
    BY <2>2, TailConstants
  <2>4. n_events \div EVENTS_PER_WORD = n \div EVENTS_PER_WORD
    BY <2>1, TailConstants, Exactly
  <2>5. QED
    BY <1>1, <2>1, <2>2, <2>3, <2>4
<1>5. QED
  BY <1>3, <1>4

\* How much the chip answers, and what each viewer waits for.
LEMMA Answers ==
    ASSUME Chosen
    PROVE  /\ Results \in Nat /\ Owed \in Nat
           /\ kind \in {"motion", "blob", "track", "timesurface", "denoise", "stabilize"}
           /\ kind \in {"motion", "blob"} =>
                 Results * EVENTS_PER_WORD = n_events /\ Owed = Results
           /\ kind = "track" => Results = 2 * n_dumps_total /\ Owed = n_events
           /\ kind \in {"timesurface", "denoise"} =>
                 Results = DUMP_WORDS * n_dumps_total /\ Owed = n_dumps_total
           /\ kind = "stabilize" => Results = n_events /\ Owed = n_events
<1>1. kind \in {"motion", "blob", "track", "timesurface", "denoise", "stabilize"}
  BY TailConstants DEF Chosen
<1>2. CASE kind \in {"motion", "blob"}
  <2>1. Results = n_events \div EVENTS_PER_WORD
    BY <1>2 DEF Results
  <2>2. Owed = n_events \div EVENTS_PER_WORD
    BY <1>2 DEF Owed
  <2>3. QED
    BY <1>2, <2>1, <2>2, Events
<1>3. CASE kind = "track"
  <2>1. Results = 2 * n_dumps_total
    BY <1>3 DEF Results
  <2>2. Owed = n_events
    BY <1>3 DEF Owed
  <2>3. QED
    BY <1>3, <2>1, <2>2, Events
<1>4. CASE kind \in {"timesurface", "denoise"}
  <2>1. Results = DUMP_WORDS * n_dumps_total
    BY <1>4 DEF Results
  <2>2. Owed = n_dumps_total
    BY <1>4 DEF Owed
  <2>3. Results \in Nat
    BY <2>1, Events, TailConstants
  <2>4. QED
    BY <1>4, <2>1, <2>2, <2>3, Events
<1>5. CASE kind = "stabilize"
  <2>1. Results = n_events
    BY <1>5 DEF Results
  <2>2. Owed = n_events
    BY <1>5 DEF Owed
  <2>3. QED
    BY <1>5, <2>1, <2>2, Events
<1>6. QED
  BY <1>1, <1>2, <1>3, <1>4, <1>5

\* Both stay as long as the viewer and its recording do.
LEMMA ChosenKept ==
    ASSUME UNCHANGED <<kind, n>>
    PROVE  /\ Chosen => Chosen'
           /\ n_events' = n_events /\ n_dumps_total' = n_dumps_total
           /\ Results' = Results /\ Owed' = Owed
<1>1. n_events' = n_events
  BY DEF n_events, WholeBatches
<1>2. n_dumps_total' = n_dumps_total
  BY <1>1 DEF n_dumps_total
<1>3. Results' = Results
  BY <1>1, <1>2 DEF Results
<1>4. Owed' = Owed
  BY <1>1, <1>2 DEF Owed
<1>5. QED
  BY <1>1, <1>2, <1>3, <1>4 DEF Chosen

\* Where a viewer and a simulator can be.
Phases == {"off", "launched", "read", "process", "poll", "show"}
SimStates == {"none", "starting", "running", "done", "crashed", "killed", "left"}

\* Types that are inductive; the bound on what is drawn comes later.
TailTyped ==
    /\ Chosen
    /\ phase \in Phases /\ sim \in SimStates
    /\ session \in Nat /\ file.writer \in 0 .. session
    /\ pos \in Nat /\ file.text \in Nat /\ file.text <= 3 * Results
    /\ pending \in Seq(ReadWord) /\ taken \in Seq(ReadWord)
    /\ seen \in Nat /\ drawn \in Nat
    /\ finished \in BOOLEAN /\ short \in BOOLEAN /\ shown \in {"running", "DONE"}
    /\ spoilt \in BOOLEAN /\ waiting \union writing \subseteq 1 .. session
    /\ session = 0 => sim = "none"

\* The file a viewer reads is of its own session (WithoutStale, SimOpens).
OwnFile ==
    /\ pos <= file.text
    /\ sim = "starting" => file.text = 0
    /\ file.text > 0 => file.writer = session
    /\ sim = "running" => file.writer = session

\* What the viewer knows of the simulator is true, and known before it reads
\* what it takes for the end (dvs_stabilize_live.py).
Finished ==
    /\ finished => ~Alive
    /\ ~spoilt => /\ finished /\ phase = "process" => pos = file.text
                  /\ short => /\ kind = "stabilize" /\ finished
                              /\ pos = file.text /\ pending = << >>

\* Every line was read whole, once and in order.
WholeLines ==
    /\ file.text % 3 # 1 /\ pos % 3 # 1
    /\ Len(taken) = (pos + 2) \div 3
    /\ \A ix \in DOMAIN taken : taken[ix] = [writer |-> session, line |-> ix, part |-> "whole"]

\* Wherever the flushes end, every line was read once, in order.
InLine(s) ==
    \A ix \in DOMAIN s : /\ s[ix].writer = session
                         /\ ix = 1 => s[ix].line = 1 /\ s[ix].part # "rest"
                         /\ ix > 1 => NextTo(s[ix - 1], s[ix])

\* The last word read is where the reading position is.
UpTo(s, t) == /\ s = << >> <=> t = 0
              /\ s # << >> => /\ s[Len(s)].line = (t + 2) \div 3
                              /\ s[Len(s)].part = "front" <=> t % 3 = 1

LinesFollow == InLine(taken) /\ UpTo(taken, pos)

Unspoilt == OwnFile /\ LinesFollow /\ (1 \notin LineCuts => WholeLines)

\* The inductive invariant.
TailInv == TailTyped /\ Finished /\ (~spoilt => Unspoilt)

\* Its sequences have lengths.
LEMMA LenOfTail ==
    TailTyped => /\ Len(pending) \in Nat /\ Len(taken) \in Nat
                 /\ pending \in [1 .. Len(pending) -> ReadWord]
  BY LenProperties DEF TailTyped

\* What a read adds.
LEMMA LinesRead ==
    ASSUME TailTyped
    PROVE  /\ NewWords \in Seq(ReadWord)
           /\ file.text <= pos => NewWords = << >>
           /\ file.text > pos =>
                 /\ Len(NewWords) = LastLine - FirstLine + 1
                 /\ \A j \in 1 .. Len(NewWords) : NewWords[j] = Line(FirstLine + j - 1)
<1>1. /\ pos \in Nat /\ file.text \in Nat /\ session \in Nat /\ file.writer \in Nat
  BY DEF TailTyped
<1>2. CASE file.text <= pos
  BY <1>1, <1>2, EmptySeq DEF NewWords
<1>3. CASE file.text > pos
  <2>1. /\ FirstLine \in Nat \ {0} /\ LastLine \in Nat /\ LastLine - FirstLine + 1 \in Nat
    <3>1. CASE pos % 3 = 2
      BY <1>1, <1>3, <3>1 DEF FirstLine, LastLine
    <3>2. CASE pos % 3 # 2
      BY <1>1, <1>3, <3>2 DEF FirstLine, LastLine
    <3>3. QED
      BY <3>1, <3>2
  <2> DEFINE m == LastLine - FirstLine + 1
  <2>2. ASSUME NEW j \in 1 .. m
        PROVE  Line(FirstLine + j - 1) \in ReadWord
    <3>1. FirstLine + j - 1 \in Nat
      BY <2>1
    <3>2. Part(FirstLine + j - 1) \in {"whole", "front", "rest"}
      BY DEF Part
    <3>3. QED
      BY <1>1, <3>1, <3>2 DEF Line, ReadWord
  <2>3. NewWords = [j \in 1 .. m |-> Line(FirstLine + j - 1)]
    BY <1>1, <1>3 DEF NewWords
  <2>4. m \in Nat
    BY <2>1
  <2> HIDE DEF m
  <2>5. NewWords \in [1 .. m -> ReadWord]
    BY <2>2, <2>3
  <2>6. NewWords \in Seq(ReadWord) /\ Len(NewWords) = m
    BY <2>4, <2>5
  <2>7. \A j \in 1 .. m : NewWords[j] = Line(FirstLine + j - 1)
    BY <2>3
  <2>8. QED
    BY <1>1, <1>3, <2>6, <2>7 DEF m
<1>4. QED
  BY <1>1, <1>2, <1>3

\* If no flush ends inside a number, it adds whole lines in order.
LEMMA WholeRead ==
    ASSUME TailTyped, OwnFile, WholeLines
    PROVE  /\ Len(taken) + Len(NewWords) = (file.text + 2) \div 3
           /\ \A j \in 1 .. Len(NewWords) :
                 NewWords[j] = [writer |-> session, line |-> Len(taken) + j, part |-> "whole"]
<1>1. /\ pos \in Nat /\ file.text \in Nat /\ pos <= file.text
      /\ file.text % 3 # 1 /\ pos % 3 # 1 /\ Len(taken) = (pos + 2) \div 3
      /\ file.text > 0 => file.writer = session
  BY DEF TailTyped, OwnFile, WholeLines
<1>2. CASE file.text = pos
  <2>1. NewWords = << >>
    BY <1>1, <1>2, LinesRead
  <2>2. Len(NewWords) = 0
    BY <2>1
  <2>3. QED
    BY <1>1, <1>2, <2>2
<1>3. CASE file.text # pos
  <2>0. file.text > pos
    BY <1>1, <1>3
  <2>1. FirstLine = Len(taken) + 1
    BY <1>1 DEF FirstLine
  <2>2. Len(taken) \in Nat
    BY <1>1
  <2>3. Len(NewWords) = LastLine - FirstLine + 1
    BY <2>0, LinesRead
  <2>4. LastLine \in Nat /\ LastLine = (file.text + 2) \div 3
    BY <1>1 DEF LastLine
  <2>5. ASSUME NEW j \in 1 .. Len(NewWords)
        PROVE  NewWords[j] = [writer |-> session, line |-> Len(taken) + j, part |-> "whole"]
    <3>1. NewWords[j] = Line(FirstLine + j - 1)
      BY <2>0, LinesRead
    <3>2. FirstLine + j - 1 = Len(taken) + j /\ Len(taken) + j \in Nat
          /\ Len(taken) + j <= LastLine
      BY <2>1, <2>2, <2>3, <2>4
    <3> DEFINE ix == Len(taken) + j
    <3>3. pos <= 3 * ix - 3
      <4>1. pos <= 3 * Len(taken)
        BY <1>1
      <4>2. Len(taken) <= ix - 1 /\ ix \in Nat
        BY <2>2
      <4> HIDE DEF ix
      <4>3. \A a, b, c \in Nat : a <= 3 * b /\ b <= c - 1 => a <= 3 * c - 3
        OBVIOUS
      <4>4. QED
        BY <1>1, <2>2, <4>1, <4>2, <4>3, Zenon
    <3>4. file.text >= 3 * ix - 1
      <4>0. \A t \in Nat : t % 3 # 1 => 3 * ((t + 2) \div 3) <= t + 1
        OBVIOUS
      <4>1. 3 * LastLine <= file.text + 1
        BY <1>1, <2>4, <4>0, Zenon
      <4>2. ix <= LastLine /\ ix \in Nat
        BY <3>2, Zenon
      <4> HIDE DEF ix
      <4>3. \A a, b, c \in Nat : 3 * b <= a + 1 /\ c <= b => a >= 3 * c - 1
        OBVIOUS
      <4>4. QED
        BY <1>1, <2>4, <4>1, <4>2, <4>3, Zenon
    <3>5. Part(ix) = "whole"
      <4>1. ix \in Nat
        BY <3>2
      <4> HIDE DEF ix
      <4>2. ~(pos > 3 * ix - 3) /\ ~(file.text < 3 * ix - 1)
        BY <1>1, <3>3, <3>4, <4>1
      <4>3. QED
        BY <4>2 DEF Part
    <3>6. file.writer = session
      BY <1>1, <1>3
    <3>7. QED
      BY <3>1, <3>2, <3>5, <3>6 DEF Line
  <2>6. Len(taken) + Len(NewWords) = LastLine
    <3>1. PICK l \in Nat, e \in Nat : l = Len(taken) /\ e = LastLine
      BY <2>2, <2>4
    <3>2. FirstLine = l + 1 /\ Len(NewWords) = e - (l + 1) + 1
      BY <2>1, <2>3, <3>1, Zenon
    <3>3. Len(NewWords) = e - l
      BY <3>2
    <3>4. l + (e - l) = e
      OBVIOUS
    <3>5. QED
      BY <3>1, <3>3, <3>4, Zenon
  <2>7. QED
    BY <2>4, <2>5, <2>6, Zenon
<1>4. QED
  BY <1>2, <1>3

\* Where the lines that are read begin and end, and which are in parts.
LEMMA PartsOfLines ==
    ASSUME pos \in Nat, file.text \in Nat, pos < file.text
    PROVE  /\ FirstLine \in Nat \ {0} /\ LastLine \in Nat
           /\ LastLine = (file.text + 2) \div 3
           /\ (pos % 3) = 1 => FirstLine = (pos + 2) \div 3 /\ Part(FirstLine) = "rest"
           /\ (pos % 3) # 1 => FirstLine = (pos + 2) \div 3 + 1 /\ Part(FirstLine) # "rest"
           /\ FirstLine <= LastLine => (Part(LastLine) = "front" <=> (file.text % 3) = 1)
           /\ LastLine < FirstLine => /\ (file.text % 3) # 1 /\ (pos % 3) = 2
                                      /\ (file.text + 2) \div 3 = (pos + 2) \div 3
           /\ \A ix \in FirstLine + 1 .. LastLine : Part(ix) # "rest" /\ Part(ix - 1) # "front"
<1>0. \A x \in Nat : \E w \in Nat, k \in 0 .. 2 : x = 3 * w + k
  <2>1. \A x \in Nat : /\ x = 3 * (x \div 3) + (x % 3)
                      /\ x \div 3 \in Nat /\ (x % 3) \in 0 .. 2
    OBVIOUS
  <2>2. QED
    BY <2>1
<1>1. PICK q \in Nat, r \in 0 .. 2 : pos = 3 * q + r
  BY <1>0
<1>2. PICK v \in Nat, u \in 0 .. 2 : file.text = 3 * v + u
  BY <1>0
<1>3. \A w \in Nat, k \in 0 .. 2 :
          /\ (3 * w + k) % 3 = k /\ (3 * w + k) \div 3 = w
          /\ (3 * w + k + 2) \div 3 = IF k = 0 THEN w ELSE w + 1
  OBVIOUS
<1>4. /\ (pos % 3) = r /\ pos \div 3 = q /\ (pos + 2) \div 3 = IF r = 0 THEN q ELSE q + 1
      /\ (file.text % 3) = u /\ (file.text + 2) \div 3 = IF u = 0 THEN v ELSE v + 1
  BY <1>1, <1>2, <1>3
<1>5. FirstLine = (IF r = 2 THEN q + 2 ELSE q + 1) /\ LastLine = IF u = 0 THEN v ELSE v + 1
  BY <1>4 DEF FirstLine, LastLine
<1>6. \A ix \in Nat : /\ Part(ix) = "rest" <=> 3 * q + r > 3 * ix - 3
                      /\ Part(ix) = "front" <=> ~(3 * q + r > 3 * ix - 3) /\ 3 * v + u < 3 * ix - 1
  BY <1>1, <1>2 DEF Part
<1>7. 3 * q + r < 3 * v + u
  BY <1>1, <1>2
<1>8. ASSUME NEW ix \in FirstLine + 1 .. LastLine
      PROVE  Part(ix) # "rest" /\ Part(ix - 1) # "front"
  <2>1. ix \in Nat /\ ix - 1 \in Nat /\ ix >= q + 2 /\ ix <= v + 1
    BY <1>5
  <2>2. ~(3 * q + r > 3 * ix - 3) /\ ~(3 * v + u < 3 * (ix - 1) - 1)
    BY <2>1
  <2>3. QED
    BY <1>6, <2>1, <2>2
<1>9. /\ FirstLine \in Nat \ {0} /\ LastLine \in Nat
      /\ LastLine = (file.text + 2) \div 3
  BY <1>4, <1>5
<1>10. /\ r = 1 => FirstLine = q + 1 /\ Part(FirstLine) = "rest"
       /\ r # 1 => FirstLine = (IF r = 0 THEN q ELSE q + 1) + 1 /\ Part(FirstLine) # "rest"
  BY <1>5, <1>6
<1>11. FirstLine <= LastLine => (Part(LastLine) = "front" <=> u = 1)
  <2>1. CASE u = 0
    BY <1>5, <1>6, <2>1
  <2>2. CASE u = 1
    BY <1>5, <1>6, <1>7, <2>2
  <2>3. CASE u = 2
    BY <1>5, <1>6, <2>3
  <2>4. QED
    BY <2>1, <2>2, <2>3
<1>12. LastLine < FirstLine => u = 0 /\ r = 2 /\ v = q + 1
  BY <1>5, <1>7
<1>13. QED
  BY <1>4, <1>8, <1>9, <1>10, <1>11, <1>12

\* Positions in a run and in what comes before it.
LEMMA OneBefore ==
    \A a, b \in Nat : \A x \in 1 .. b : \A y : y = a + x /\ x > 1 =>
        x - 1 \in 1 .. b /\ y - 1 = a + (x - 1)
  OBVIOUS

\* The last of c lines from the a-th on.
LEMMA LastOfCount ==
    \A a, b \in Nat : \A c \in Nat \ {0} :
        c = b - a + 1 => c \in 1 .. c /\ a + c - 1 = b
  OBVIOUS

\* Two runs of lines that fit together are one.
LEMMA InLineConcat ==
    ASSUME NEW s \in Seq(ReadWord), NEW t \in Seq(ReadWord), t # << >>, InLine(s),
           \A ix \in DOMAIN t : /\ t[ix].writer = session
                                /\ ix > 1 => NextTo(t[ix - 1], t[ix]),
           s = << >> => t[1].line = 1 /\ t[1].part # "rest",
           s # << >> => NextTo(s[Len(s)], t[1])
    PROVE  /\ InLine(s \o t)
           /\ s \o t # << >> /\ (s \o t)[Len(s \o t)] = t[Len(t)]
<1>1. /\ Len(s) \in Nat /\ Len(t) \in Nat /\ DOMAIN s = 1 .. Len(s) /\ DOMAIN t = 1 .. Len(t)
      /\ s = << >> <=> Len(s) = 0 /\ Len(t) # 0
  BY LenProperties, EmptySeq
<1> DEFINE c == s \o t
<1>2. /\ c \in Seq(ReadWord) /\ Len(c) = Len(s) + Len(t)
      /\ \A ix \in 1 .. Len(s) + Len(t) : c[ix] = IF ix <= Len(s) THEN s[ix] ELSE t[ix - Len(s)]
  BY ConcatProperties
<1>3. DOMAIN c = 1 .. Len(s) + Len(t)
  BY <1>2, LenProperties
<1> HIDE DEF c
<1>4. \A ix \in 1 .. Len(s) : c[ix] = s[ix]
  BY <1>1, <1>2
<1>5. \A ix \in 1 .. Len(t) : c[Len(s) + ix] = t[ix]
  <2> SUFFICES ASSUME NEW ix \in 1 .. Len(t)
               PROVE  c[Len(s) + ix] = t[ix]
    OBVIOUS
  <2>1. Len(s) + ix \in 1 .. Len(s) + Len(t) /\ ~(Len(s) + ix <= Len(s))
        /\ Len(s) + ix - Len(s) = ix
    BY <1>1
  <2>2. QED
    BY <1>2, <2>1
<1>6. ASSUME NEW ix \in DOMAIN c
      PROVE  /\ c[ix].writer = session
             /\ ix = 1 => c[ix].line = 1 /\ c[ix].part # "rest"
             /\ ix > 1 => NextTo(c[ix - 1], c[ix])
  <2>1. CASE ix <= Len(s)
    <3>1. ix \in 1 .. Len(s) /\ (ix > 1 => ix - 1 \in 1 .. Len(s))
      BY <1>1, <1>3, <2>1
    <3>2. QED
      BY <1>1, <1>4, <3>1 DEF InLine
  <2>2. CASE ~(ix <= Len(s))
    <3> DEFINE j == ix - Len(s)
    <3>1. j \in 1 .. Len(t) /\ ix = Len(s) + j
      BY <1>1, <1>3, <2>2
    <3>2. c[ix] = t[j]
      BY <1>5, <3>1
    <3>3. ASSUME j > 1
          PROVE  c[ix - 1] = t[j - 1]
      <4>1. j - 1 \in 1 .. Len(t) /\ ix - 1 = Len(s) + (j - 1)
        <5> HIDE DEF j
        <5>1. QED
          BY <1>1, <3>1, <3>3, OneBefore
      <4>2. QED
        BY <1>5, <4>1
    <3>4. ASSUME j = 1, s # << >>
          PROVE  c[ix - 1] = s[Len(s)]
      <4>1. ix - 1 = Len(s) /\ Len(s) \in 1 .. Len(s)
        BY <1>1, <3>1, <3>4
      <4>2. QED
        BY <1>4, <4>1
    <3>5. j \in DOMAIN t /\ (j > 1 \/ j = 1) /\ (s = << >> => ix = j)
      BY <1>1, <3>1
    <3>6. ix = 1 => s = << >> /\ j = 1
      BY <1>1, <3>1
    <3> HIDE DEF j
    <3>7. CASE j > 1
      BY <3>2, <3>3, <3>5, <3>6, <3>7
    <3>8. CASE j = 1
      BY <3>2, <3>4, <3>5, <3>6, <3>8
    <3>9. QED
      BY <3>5, <3>7, <3>8
  <2>3. QED
    BY <2>1, <2>2
<1>7. Len(t) \in 1 .. Len(t) /\ Len(c) = Len(s) + Len(t) /\ Len(c) # 0
  BY <1>1, <1>2
<1>8. c[Len(c)] = t[Len(t)] /\ c # << >>
  BY <1>1, <1>2, <1>5, <1>7
<1>9. QED
  BY <1>6, <1>8 DEF c, InLine

\* Wherever the flushes end, what is read follows what was read.
LEMMA FollowsRead ==
    ASSUME TailTyped, OwnFile, LinesFollow
    PROVE  InLine(taken \o NewWords) /\ UpTo(taken \o NewWords, file.text)
<1>1. /\ pos \in Nat /\ file.text \in Nat /\ pos <= file.text /\ session \in Nat
      /\ file.text > 0 => file.writer = session
      /\ taken \in Seq(ReadWord) /\ NewWords \in Seq(ReadWord)
      /\ InLine(taken) /\ UpTo(taken, pos)
  BY LinesRead DEF TailTyped, OwnFile, LinesFollow
<1>2. CASE NewWords = << >>
  <2>1. taken \o NewWords = taken
    BY <1>1, <1>2, ConcatEmptySeq
  <2>2. CASE file.text = pos
    BY <1>1, <2>1, <2>2
  <2>3. CASE file.text # pos
    <3>1. file.text > pos
      BY <1>1, <2>3
    <3>2. Len(NewWords) = LastLine - FirstLine + 1 /\ Len(NewWords) = 0
      BY <1>2, <3>1, LinesRead
    <3>3. FirstLine \in Nat /\ LastLine \in Nat
      BY <1>1, <3>1, PartsOfLines
    <3>4. LastLine < FirstLine
      BY <3>2, <3>3
    <3>5. file.text % 3 # 1 /\ pos % 3 = 2 /\ (file.text + 2) \div 3 = (pos + 2) \div 3
      BY <1>1, <3>1, <3>4, PartsOfLines
    <3>6. pos # 0 /\ file.text # 0 /\ pos % 3 # 1
      BY <1>1, <3>1, <3>5
    <3>7. QED
      BY <1>1, <2>1, <3>5, <3>6 DEF UpTo
  <2>4. QED
    BY <2>2, <2>3
<1>3. CASE NewWords # << >>
  <2>1. file.text > pos /\ file.writer = session
    <3>1. ~(file.text <= pos)
      BY <1>3, LinesRead
    <3>2. QED
      BY <1>1, <3>1
  <2>2. Len(NewWords) \in Nat \ {0} /\ DOMAIN NewWords = 1 .. Len(NewWords)
    BY <1>1, <1>3, LenProperties, EmptySeq
  <2>3. /\ FirstLine \in Nat \ {0} /\ LastLine \in Nat
        /\ LastLine = (file.text + 2) \div 3
        /\ pos % 3 = 1 => FirstLine = (pos + 2) \div 3 /\ Part(FirstLine) = "rest"
        /\ pos % 3 # 1 => FirstLine = (pos + 2) \div 3 + 1 /\ Part(FirstLine) # "rest"
        /\ FirstLine <= LastLine => (Part(LastLine) = "front" <=> file.text % 3 = 1)
        /\ \A ix \in FirstLine + 1 .. LastLine : Part(ix) # "rest" /\ Part(ix - 1) # "front"
    BY <1>1, <2>1, PartsOfLines
  <2>4. /\ Len(NewWords) = LastLine - FirstLine + 1
        /\ \A j \in 1 .. Len(NewWords) : NewWords[j] = Line(FirstLine + j - 1)
    BY <2>1, LinesRead
  <2>5. ASSUME NEW j \in 1 .. Len(NewWords)
        PROVE  /\ NewWords[j].writer = session
               /\ NewWords[j].line = FirstLine + j - 1
               /\ NewWords[j].part = Part(FirstLine + j - 1)
    BY <2>1, <2>4 DEF Line
  <2>6. ASSUME NEW j \in 1 .. Len(NewWords), j > 1
        PROVE  NextTo(NewWords[j - 1], NewWords[j])
    <3>1. PICK ix \in Nat : ix = FirstLine + j - 1
      BY <2>3
    <3>2. ix \in FirstLine + 1 .. LastLine
      BY <2>2, <2>3, <2>4, <2>6, <3>1
    <3>3. j - 1 \in 1 .. Len(NewWords) /\ FirstLine + (j - 1) - 1 = ix - 1
      BY <2>2, <2>3, <2>6, <3>1
    <3>4. /\ NewWords[j].line = ix /\ NewWords[j].part = Part(ix)
          /\ NewWords[j - 1].line = ix - 1 /\ NewWords[j - 1].part = Part(ix - 1)
      BY <2>5, <3>1, <3>3
    <3>5. Part(ix) # "rest" /\ Part(ix - 1) # "front"
      BY <2>3, <3>2
    <3>6. ix = ix - 1 + 1
      OBVIOUS
    <3>7. QED
      BY <3>4, <3>5, <3>6 DEF NextTo
  <2>7. NewWords[1].line = FirstLine /\ NewWords[1].part = Part(FirstLine)
    <3>1. 1 \in 1 .. Len(NewWords) /\ FirstLine + 1 - 1 = FirstLine
      BY <2>2, <2>3
    <3>2. QED
      BY <2>5, <3>1
  <2>8. ASSUME taken = << >>
        PROVE  NewWords[1].line = 1 /\ NewWords[1].part # "rest"
    <3>1. pos = 0
      BY <1>1, <2>8 DEF UpTo
    <3>2. pos % 3 # 1 /\ (pos + 2) \div 3 + 1 = 1
      BY <3>1
    <3>3. QED
      BY <2>3, <2>7, <3>2
  <2>9. ASSUME taken # << >>
        PROVE  NextTo(taken[Len(taken)], NewWords[1])
    <3>1. /\ taken[Len(taken)].line = (pos + 2) \div 3
          /\ taken[Len(taken)].part = "front" <=> pos % 3 = 1
      BY <1>1, <2>9 DEF UpTo
    <3>2. QED
      BY <2>3, <2>7, <3>1 DEF NextTo
  <2>10. /\ InLine(taken \o NewWords) /\ taken \o NewWords # << >>
         /\ (taken \o NewWords)[Len(taken \o NewWords)] = NewWords[Len(NewWords)]
    BY <1>1, <1>3, <2>2, <2>5, <2>6, <2>8, <2>9, InLineConcat
  <2>11. /\ NewWords[Len(NewWords)].line = LastLine
         /\ NewWords[Len(NewWords)].part = Part(LastLine)
    <3>1. Len(NewWords) \in 1 .. Len(NewWords) /\ FirstLine + Len(NewWords) - 1 = LastLine
      <4>1. LastLine \in Nat /\ FirstLine \in Nat /\ Len(NewWords) \in Nat \ {0}
        BY <2>2, <2>3
      <4>2. QED
        BY <2>4, <4>1, LastOfCount
    <3>2. QED
      BY <2>5, <3>1
  <2>12. FirstLine <= LastLine /\ file.text # 0
    BY <1>1, <2>1, <2>2, <2>3, <2>4
  <2>13. UpTo(taken \o NewWords, file.text)
    BY <2>3, <2>10, <2>11, <2>12 DEF UpTo
  <2>14. QED
    BY <2>10, <2>13
<1>4. QED
  BY <1>2, <1>3

\* Nothing has been read when the first viewer starts.
LEMMA TailStarts == TailInit => TailInv
<1> SUFFICES ASSUME TailInit
             PROVE  TailInv
  OBVIOUS
<1>1. file.writer = 0 /\ file.text = 0 /\ pos = 0 /\ session = 0
  BY DEF TailInit, NoFile
<1>2. Chosen
  BY DEF TailInit, Chosen
<1>3. << >> \in Seq(ReadWord) /\ Len(<< >>) = 0
  BY EmptySeq
<1>4. TailTyped
  <2>1. pending = << >> /\ taken = << >> /\ 0 <= 3 * Results
    BY <1>2, Answers DEF TailInit
  <2>2. /\ phase = "off" /\ sim = "none" /\ seen = 0 /\ finished = FALSE /\ drawn = 0
        /\ short = FALSE /\ shown = "running" /\ spoilt = FALSE
        /\ waiting \union writing = {}
    BY DEF TailInit
  <2>3. session \in Nat /\ file.writer \in 0 .. session /\ pos \in Nat /\ file.text \in Nat
        /\ file.text <= 3 * Results
    BY <1>1, <2>1
  <2>4. pending \in Seq(ReadWord) /\ taken \in Seq(ReadWord)
    BY <1>3, <2>1
  <2>5. waiting \union writing \subseteq 1 .. session
    BY <2>2
  <2>6. QED
    BY <1>1, <1>2, <2>2, <2>3, <2>4, <2>5 DEF TailTyped, Phases, SimStates
<1>5. OwnFile /\ Finished
  BY <1>1 DEF TailInit, OwnFile, Finished, Alive
<1>6. WholeLines
  BY <1>1, <1>3 DEF TailInit, WholeLines
<1>7. LinesFollow
  BY <1>1 DEF TailInit, LinesFollow, InLine, UpTo
<1>8. QED
  BY <1>4, <1>5, <1>6, <1>7 DEF TailInv, Unspoilt

\* What is left of the pending words when k of them were used.
LEMMA Used ==
    ASSUME TailTyped, NEW k \in Nat, k <= Len(pending)
    PROVE  /\ Rest(k) \in Seq(ReadWord) /\ Len(Rest(k)) = Len(pending) - k
           /\ k = Len(pending) => Rest(k) = << >>
<1>1. Len(pending) \in Nat /\ pending \in [1 .. Len(pending) -> ReadWord]
  BY LenOfTail
<1>2. \A ix \in k + 1 .. Len(pending) : pending[ix] \in ReadWord
  BY <1>1
<1>3. k + 1 \in Int /\ Len(pending) \in Int
  BY <1>1
<1> DEFINE r == SubSeq(pending, k + 1, Len(pending))
<1>4. /\ r \in Seq(ReadWord)
      /\ Len(r) = IF k + 1 <= Len(pending) THEN Len(pending) - (k + 1) + 1 ELSE 0
  BY <1>2, <1>3, SubSeqProperties
<1>5. k = Len(pending) => r = << >>
  BY <1>1, <1>3, SubSeqEmpty
<1> HIDE DEF r
<1>6. Len(r) = Len(pending) - k
  <2>1. CASE k = Len(pending)
    BY <1>1, <1>4, <2>1
  <2>2. CASE k # Len(pending)
    <3> DEFINE l == Len(pending)
    <3>1. l \in Nat /\ k <= l /\ k # l
      BY <1>1, <2>2
    <3> HIDE DEF l
    <3>2. k + 1 <= l
      BY <3>1
    <3>3. k + 1 <= Len(pending)
      BY <3>2 DEF l
    <3>4. QED
      BY <1>1, <1>4, <3>3
  <2>3. QED
    BY <2>1, <2>2
<1>7. QED
  BY <1>4, <1>5, <1>6 DEF r, Rest

\* How many words each viewer uses, and what it counts and draws for them.
LEMMA ProcessCases ==
    ASSUME TailTyped, Process
    PROVE  \E k \in Nat :
             /\ k <= Len(pending) /\ pending' = Rest(k)
             /\ kind = "motion" => /\ k = Len(pending) /\ seen' = seen + k
                                   /\ drawn' = Smaller(n_events, seen' * EVENTS_PER_WORD)
             /\ kind = "blob" => /\ k = Len(pending) /\ seen' = seen + k
                                 /\ drawn' = seen' * EVENTS_PER_WORD
             /\ kind = "track" =>
                   /\ \E dumps \in Nat :
                        /\ k = 2 * dumps
                        /\ seen' = Smaller(seen + dumps * EVENTS_PER_DUMP, n_events)
                   /\ drawn' = seen'
             /\ kind \in {"timesurface", "denoise"} =>
                   /\ \E dumps \in Nat : k = dumps * DUMP_WORDS /\ seen' = seen + dumps
                   /\ drawn' = drawn
             /\ kind = "stabilize" =>
                   /\ seen' = seen + k /\ drawn' = seen'
                   /\ finished => k = Len(pending)
                   /\ ~finished => short' = short
             /\ kind # "stabilize" => short' = short
             /\ short' \in BOOLEAN
<1>1. Len(pending) \in Nat /\ seen \in Nat /\ drawn \in Nat /\ short \in BOOLEAN
      /\ finished \in BOOLEAN
  BY LenOfTail DEF TailTyped
<1>2. pending' = << >> => pending' = Rest(Len(pending))
  BY <1>1, Used
<1>3. CASE MotionShows
  BY <1>1, <1>2, <1>3 DEF MotionShows
<1>4. CASE BlobShows
  BY <1>1, <1>2, <1>4 DEF BlobShows
<1>5. CASE TrackShows
  <2> DEFINE dumps == Len(pending) \div 2
  <2>1. dumps \in Nat /\ 2 * dumps <= Len(pending) /\ 2 * dumps \in Nat
    BY <1>1
  <2>2. pending' = Rest(2 * dumps) /\ drawn' = seen' /\ short' = short /\ kind = "track"
        /\ seen' = Smaller(seen + dumps * EVENTS_PER_DUMP, n_events)
    BY <1>5 DEF TrackShows
  <2> HIDE DEF dumps
  <2>3. QED
    BY <1>1, <2>1, <2>2
<1>6. CASE TimesurfaceShows \/ DenoiseShows
  <2> DEFINE dumps == Len(pending) \div DUMP_WORDS
  <2>1. dumps \in Nat /\ DUMP_WORDS * dumps <= Len(pending) /\ DUMP_WORDS * dumps \in Nat
    BY <1>1, TailConstants, Division DEF Quotients
  <2>2. /\ pending' = Rest(dumps * DUMP_WORDS) /\ drawn' = drawn /\ short' = short
        /\ kind \in {"timesurface", "denoise"} /\ seen' = seen + dumps
    BY <1>6 DEF TimesurfaceShows, DenoiseShows, DumpsShown
  <2>3. dumps * DUMP_WORDS = DUMP_WORDS * dumps
    BY <2>1, TailConstants
  <2> HIDE DEF dumps
  <2>4. QED
    BY <1>1, <2>1, <2>2, <2>3
<1>7. CASE StabilizeShows
  <2> DEFINE q == Len(pending) \div Rate
  <2> DEFINE k == IF finished THEN Len(pending) ELSE q * Rate
  <2>1. q \in Nat /\ Rate * q <= Len(pending) /\ Rate * q \in Nat
    BY <1>1, TailConstants, Division DEF Quotients
  <2>2. q * Rate = Rate * q
    BY <2>1, TailConstants
  <2>3. k \in Nat /\ k <= Len(pending)
    BY <1>1, <2>1, <2>2
  <2>4. /\ pending' = Rest(k) /\ seen' = seen + k /\ drawn' = seen' /\ kind = "stabilize"
        /\ short' = (short \/ k % Rate # 0)
    BY <1>7 DEF StabilizeShows, LastFrames
  <2>5. ~finished => k % Rate = 0
    <3>1. Rate \in Nat \ {0}
      BY TailConstants
    <3> HIDE DEF q
    <3>2. (q * Rate) % Rate = 0
      BY <2>1, <3>1, NoRemainder, Zenon
    <3>3. QED
      BY <3>2, Zenon
  <2>6. finished => k = Len(pending)
    OBVIOUS
  <2> HIDE DEF k
  <2>7. short' \in BOOLEAN
    BY <2>4
  <2>8. ~finished => short' = short
    BY <1>1, <2>4, <2>5
  <2>9. QED
    BY <2>3, <2>4, <2>6, <2>7, <2>8
<1>8. QED
  BY <1>3, <1>4, <1>5, <1>6, <1>7 DEF Process

\* The steps there are.
LEMMA TailActions ==
    ASSUME [TailNext]_liveTail
    PROVE  \/ Prepare(TRUE) \/ Prepare(FALSE) \/ SimOpens \/ SimEnds \/ SimCrashes
           \/ \E t \in 1 .. 3 * Results : SimWrites(t) \/ StrayWrites(t)
           \/ \E s \in waiting \union writing : StrayOpens(s) \/ StrayEnds(s)
           \/ Enter \/ Read \/ Process \/ Poll \/ Show \/ LeavesEarly \/ QuitTail
           \/ UNCHANGED liveTail
  BY DEF TailNext, Simulator, Strays, TailLoop

\* No step changes the viewer or the recording.
LEMMA KindKept ==
    ASSUME TailTyped, [TailNext]_liveTail
    PROVE  UNCHANGED <<kind, n>>
<1>1. \A b \in BOOLEAN : Prepare(b) => UNCHANGED <<kind, n>>
  BY DEF Prepare
<1>2. \A t : SimWrites(t) \/ StrayWrites(t) => UNCHANGED <<kind, n>>
  BY DEF SimWrites, StrayWrites
<1>3. \A s : StrayOpens(s) \/ StrayEnds(s) => UNCHANGED <<kind, n>>
  BY DEF StrayOpens, StrayEnds
<1>4. QED
  BY <1>1, <1>2, <1>3, TailActions
  DEF SimOpens, SimEnds, SimCrashes, Enter, Read, Process, Poll, Show, LeavesEarly,
      QuitTail, liveTail

\* A new session starts over.
LEMMA PrepareKeeps ==
    ASSUME TailTyped, NEW b \in BOOLEAN, Prepare(b)
    PROVE  TailInv'
<1>1. UNCHANGED <<kind, n>>
  BY DEF Prepare
<1>2. /\ Chosen' /\ Results' = Results /\ Results \in Nat
  BY <1>1, ChosenKept, Answers DEF TailTyped
<1>3. /\ file'.writer = 0 /\ file'.text = 0 /\ pos' = 0 /\ session' = session + 1
      /\ pending' = << >> /\ taken' = << >> /\ seen' = 0 /\ drawn' = 0
      /\ finished' = FALSE /\ short' = FALSE /\ shown' = "running" /\ spoilt' = FALSE
      /\ \/ phase' = "launched" /\ sim' = "starting"
         \/ phase' = "off" /\ sim' = "none"
  BY DEF Prepare, WithoutStale, NoFile
<1>4. session' \in Nat /\ file'.writer \in 0 .. session' /\ file'.text <= 3 * Results'
  BY <1>2, <1>3 DEF TailTyped
<1>5. << >> \in Seq(ReadWord) /\ Len(<< >>) = 0
  BY EmptySeq
<1>6. (waiting \union writing)' \subseteq 1 .. session'
  <2>1. waiting' = waiting /\ writing' = {} /\ session' = session + 1
    BY DEF Prepare
  <2>2. session \in Nat /\ waiting \subseteq 1 .. session
    BY DEF TailTyped
  <2>3. QED
    BY <2>1, <2>2
<1>7. TailTyped'
  <2>1. pos' \in Nat /\ file'.text \in Nat
    BY <1>3
  <2>2. pending' \in Seq(ReadWord) /\ taken' \in Seq(ReadWord)
    BY <1>3, <1>5
  <2>3. /\ seen' \in Nat /\ drawn' \in Nat /\ finished' \in BOOLEAN /\ short' \in BOOLEAN
        /\ shown' \in {"running", "DONE"} /\ spoilt' \in BOOLEAN
        /\ phase' \in Phases /\ sim' \in SimStates
    BY <1>3 DEF Phases, SimStates
  <2>4. session' # 0
    BY <1>3 DEF TailTyped
  <2>5. QED
    BY <1>2, <1>4, <1>6, <2>1, <2>2, <2>3, <2>4 DEF TailTyped
<1>8. OwnFile' /\ Finished'
  BY <1>3 DEF OwnFile, Finished, Alive
<1>9. WholeLines'
  BY <1>3, <1>5 DEF WholeLines
<1>10. LinesFollow'
  BY <1>3 DEF LinesFollow, InLine, UpTo
<1>11. QED
  BY <1>7, <1>8, <1>9, <1>10 DEF TailInv, Unspoilt

\* How far the viewer has read and what it has.
Reading == <<kind, n, session, pos, pending, taken>>

\* A step that leaves that alone keeps the types and the lines.
LEMMA ReadingKept ==
    ASSUME TailInv, UNCHANGED Reading, phase' \in Phases, sim' \in SimStates,
           file'.writer \in 0 .. session, file'.text \in Nat, file'.text <= 3 * Results,
           waiting' \union writing' \subseteq 1 .. session, spoilt' \in BOOLEAN,
           seen' \in Nat, drawn' \in Nat, finished' \in BOOLEAN, short' \in BOOLEAN,
           shown' \in {"running", "DONE"}, session = 0 => sim' = "none",
           ~spoilt' => /\ ~spoilt /\ OwnFile'
                       /\ 1 \notin LineCuts => file'.text % 3 # 1
    PROVE  TailTyped' /\ (~spoilt' => Unspoilt')
<1> USE DEF Reading
<1>1. /\ Chosen' /\ Results' = Results
  BY ChosenKept DEF TailInv, TailTyped
<1>2. /\ session' = session /\ pos' = pos /\ pending' = pending /\ taken' = taken
  OBVIOUS
<1>3. TailTyped'
  BY <1>1, <1>2 DEF TailInv, TailTyped
<1>4. ASSUME ~spoilt'
      PROVE  Unspoilt'
  <2>1. Unspoilt
    BY <1>4 DEF TailInv
  <2>2. 1 \notin LineCuts => WholeLines'
    BY <1>2, <1>4, <2>1 DEF Unspoilt, WholeLines
  <2>3. LinesFollow'
    BY <1>2, <2>1 DEF Unspoilt, LinesFollow, InLine
  <2>4. QED
    BY <1>4, <2>2, <2>3 DEF Unspoilt
<1>5. QED
  BY <1>3, <1>4

\* In an untouched file of whole lines the text ends where a flush may end.
LEMMA TextWhole ==
    TailInv /\ ~spoilt /\ 1 \notin LineCuts => file.text % 3 # 1
  BY DEF TailInv, Unspoilt, WholeLines

\* The parts of the types the steps below need.
LEMMA TypesOfTail ==
    TailInv => /\ seen \in Nat /\ drawn \in Nat /\ finished \in BOOLEAN /\ short \in BOOLEAN
               /\ shown \in {"running", "DONE"} /\ spoilt \in BOOLEAN
               /\ phase \in Phases /\ sim \in SimStates /\ session \in Nat /\ pos \in Nat
               /\ file.writer \in 0 .. session /\ file.text \in Nat
               /\ file.text <= 3 * Results /\ Results \in Nat
               /\ waiting \union writing \subseteq 1 .. session
               /\ session = 0 => sim = "none"
               /\ Finished /\ (~spoilt => OwnFile)
  BY Answers DEF TailInv, TailTyped, Unspoilt

\* The simulator opens the file.
LEMMA OpensKeeps == TailInv /\ SimOpens => TailInv'
<1> SUFFICES ASSUME TailInv, SimOpens
             PROVE  TailInv'
  OBVIOUS
<1>1. /\ sim = "starting" /\ sim' = "running" /\ Alive
      /\ UNCHANGED <<phase, seen, drawn, short, finished, shown, strays, Reading>>
  BY DEF SimOpens, counts, Reading, Alive
<1>2. file'.writer = session /\ file'.text = 0 /\ UNCHANGED <<waiting, writing, spoilt>>
  BY <1>1 DEF SimOpens, strays
<1>3. ~finished
  BY <1>1, TypesOfTail DEF Finished
<1>4. ~spoilt => OwnFile'
  <2>1. ~spoilt => pos = 0
    BY <1>1, TypesOfTail DEF OwnFile
  <2>2. UNCHANGED <<pos, session>>
    BY <1>1 DEF Reading
  <2>3. QED
    BY <1>1, <1>2, <2>1, <2>2 DEF OwnFile
<1>5. TailTyped' /\ (~spoilt' => Unspoilt')
  <2>1. file'.writer \in 0 .. session /\ file'.text \in Nat /\ file'.text <= 3 * Results
        /\ file'.text % 3 # 1
    BY <1>2, TypesOfTail
  <2>2. sim' \in SimStates /\ session # 0
    BY <1>1, TypesOfTail DEF SimStates
  <2>3. QED
    BY <1>1, <1>2, <1>4, <2>1, <2>2, TypesOfTail, ReadingKept
<1>6. Finished'
  BY <1>1, <1>2, <1>3, TypesOfTail DEF Finished, Reading
<1>7. QED
  BY <1>5, <1>6 DEF TailInv

\* It writes up to a place where a flush may end.
LEMMA WritesKeeps == ASSUME TailInv, NEW t \in 1 .. 3 * Results, SimWrites(t)
                     PROVE  TailInv'
<1>1. /\ sim = "running" /\ Alive /\ t > file.text /\ t % 3 \in LineCuts
      /\ UNCHANGED <<phase, sim, seen, drawn, short, finished, shown, strays, Reading>>
  BY DEF SimWrites, counts, Reading, Alive
<1>2. file' = [file EXCEPT !.text = t] /\ UNCHANGED <<waiting, writing, spoilt>>
  BY <1>1 DEF SimWrites, strays
<1>3. file'.writer = file.writer /\ file'.text = t
  <2>1. file.text \in Nat /\ t \in Nat /\ t # file.text
    BY <1>1, TypesOfTail
  <2>2. file' # file => file'.writer = file.writer /\ file'.text = t
    BY <1>2
  <2>3. QED
    BY <1>2
<1>4. ~finished /\ (~spoilt => ~short)
  BY <1>1, TypesOfTail DEF Finished
<1>5. ~spoilt => OwnFile'
  <2>1. ~spoilt => file.writer = session /\ pos <= file.text
    BY <1>1, TypesOfTail DEF OwnFile
  <2>2. UNCHANGED <<pos, session>> /\ t \in Nat
    BY <1>1, TypesOfTail DEF Reading
  <2>3. ~spoilt => pos <= t
    BY <1>1, <2>1, <2>2, TypesOfTail
  <2>4. QED
    BY <1>1, <1>3, <2>1, <2>2, <2>3 DEF OwnFile
<1>6. TailTyped' /\ (~spoilt' => Unspoilt')
  <2>1. /\ file'.writer \in 0 .. session /\ file'.text \in Nat /\ file'.text <= 3 * Results
        /\ (1 \notin LineCuts => file'.text % 3 # 1)
    BY <1>1, <1>3, TypesOfTail
  <2>2. QED
    BY <1>1, <1>2, <1>5, <2>1, TypesOfTail, ReadingKept
<1>7. Finished'
  BY <1>1, <1>2, <1>4, TypesOfTail DEF Finished
<1>8. QED
  BY <1>6, <1>7 DEF TailInv

\* It ends or crashes, or its viewer leaves it or goes on to the loop.
LEMMA EndsKeeps == TailInv /\ (SimEnds \/ SimCrashes \/ LeavesEarly \/ Enter) => TailInv'
<1> SUFFICES ASSUME TailInv, SimEnds \/ SimCrashes \/ LeavesEarly \/ Enter
             PROVE  TailInv'
  OBVIOUS
<1>1. UNCHANGED <<file, seen, drawn, short, finished, shown, spoilt, Reading>>
  <2>1. CASE SimEnds \/ SimCrashes
    BY <2>1 DEF SimEnds, SimCrashes, counts, strays, Reading
  <2>2. CASE LeavesEarly
    BY <2>2 DEF LeavesEarly, counts, Reading
  <2>3. CASE Enter
    BY <2>3 DEF Enter, counts, strays, Reading
  <2>4. QED
    BY <2>1, <2>2, <2>3
<1>2. /\ phase' \in Phases /\ sim' \in SimStates
      /\ sim' # "starting" \/ sim' = sim
      /\ sim' # "running" \/ sim' = sim
      /\ phase' # "process" \/ phase' = phase
      /\ session = 0 => sim' = "none"
  <2>1. CASE SimEnds \/ SimCrashes
    BY <2>1, TypesOfTail DEF SimEnds, SimCrashes, SimStates, Alive
  <2>2. CASE LeavesEarly
    BY <2>2, TypesOfTail DEF LeavesEarly, SimStates, Phases, Alive
  <2>3. CASE Enter
    BY <2>3, TypesOfTail DEF Enter, Phases
  <2>4. QED
    BY <2>1, <2>2, <2>3
<1>3. waiting' \union writing' \subseteq 1 .. session
  <2>1. CASE SimEnds \/ SimCrashes \/ Enter
    BY <2>1, TypesOfTail DEF SimEnds, SimCrashes, Enter, strays
  <2>2. CASE LeavesEarly
    <3>1. sim \in {"starting", "running"} => session \in 1 .. session
      <4>1. sim \in {"starting", "running"} => session # 0
        BY TypesOfTail
      <4>2. QED
        BY <4>1, TypesOfTail
    <3>2. waiting' \union writing' \subseteq waiting \union writing \union {session}
          /\ (sim \notin {"starting", "running"} => waiting' = waiting /\ writing' = writing)
      BY <2>2 DEF LeavesEarly
    <3>3. QED
      BY <3>1, <3>2, TypesOfTail
  <2>3. QED
    BY <2>1, <2>2
<1>4. UNCHANGED <<pos, session, kind, pending>>
  BY <1>1 DEF Reading
<1>5. ~spoilt => OwnFile'
  BY <1>1, <1>2, <1>4, TypesOfTail DEF OwnFile
<1>6. TailTyped' /\ (~spoilt' => Unspoilt')
  BY <1>1, <1>2, <1>3, <1>5, TypesOfTail, TextWhole, ReadingKept
<1>7. Finished'
  BY <1>1, <1>2, <1>4, TypesOfTail DEF Finished, Alive
<1>8. QED
  BY <1>6, <1>7 DEF TailInv

\* A simulator that was left behind touches the file, or ends.
LEMMA StraysKeep == TailInv /\ Strays => TailInv'
<1> SUFFICES ASSUME TailInv, Strays
             PROVE  TailInv'
  OBVIOUS
<1>1. /\ UNCHANGED <<phase, sim, seen, drawn, short, finished, shown, Reading>>
      /\ waiting' \union writing' \subseteq waiting \union writing
      /\ \/ /\ spoilt' = TRUE
            /\ file'.writer \in 0 .. session /\ file'.text \in Nat /\ file'.text <= 3 * Results
         \/ file' = file /\ spoilt' = spoilt
  <2>1. ASSUME NEW s \in waiting \union writing, StrayOpens(s)
        PROVE  <1>1!1 /\ <1>1!2 /\ <1>1!3
    <3>1. file'.writer = s /\ file'.text = 0 /\ spoilt' = TRUE
      BY <2>1 DEF StrayOpens
    <3>2. waiting' \union writing' \subseteq waiting \union writing
      BY <2>1 DEF StrayOpens
    <3>3. s \in 0 .. session
      BY TypesOfTail
    <3>4. 0 \in Nat /\ 0 <= 3 * Results
      BY TypesOfTail
    <3>5. UNCHANGED <<phase, sim, seen, drawn, short, finished, shown, Reading>>
      BY <2>1 DEF StrayOpens, counts, Reading
    <3>6. QED
      BY <3>1, <3>2, <3>3, <3>4, <3>5, Zenon
  <2>2. ASSUME NEW s \in waiting \union writing, StrayEnds(s)
        PROVE  <1>1!1 /\ <1>1!2 /\ <1>1!3
    BY <2>2 DEF StrayEnds, counts, Reading
  <2>3. ASSUME NEW t \in 1 .. 3 * Results, StrayWrites(t)
        PROVE  <1>1!1 /\ <1>1!2 /\ <1>1!3
    <3>1. /\ file' = [file EXCEPT !.text = t] /\ spoilt' = TRUE
          /\ waiting' = waiting /\ writing' = writing
          /\ UNCHANGED <<phase, sim, seen, drawn, short, finished, shown, Reading>>
      BY <2>3 DEF StrayWrites, counts, Reading
    <3>2. t \in Nat /\ t <= 3 * Results /\ t # file.text
      BY <2>3, TypesOfTail DEF StrayWrites
    <3>3. file'.writer = file.writer /\ file'.text = t
      BY <3>1, <3>2
    <3>4. QED
      BY <3>1, <3>2, <3>3, TypesOfTail
  <2>4. QED
    BY <2>1, <2>2, <2>3 DEF Strays
<1>2. waiting' \union writing' \subseteq 1 .. session
  BY <1>1, TypesOfTail
<1>3. UNCHANGED <<pos, session, kind, pending>>
  BY <1>1 DEF Reading
<1>4. ~spoilt' => ~spoilt /\ file' = file /\ OwnFile'
  BY <1>1, <1>3, TypesOfTail DEF OwnFile
<1>5. /\ file'.writer \in 0 .. session /\ file'.text \in Nat /\ file'.text <= 3 * Results
      /\ spoilt' \in BOOLEAN
  BY <1>1, TypesOfTail
<1>6. TailTyped' /\ (~spoilt' => Unspoilt')
  BY <1>1, <1>2, <1>4, <1>5, TypesOfTail, TextWhole, ReadingKept
<1>7. Finished'
  BY <1>1, <1>3, <1>4, TypesOfTail DEF Finished, Alive
<1>8. QED
  BY <1>6, <1>7 DEF TailInv

\* A read takes the lines that follow those it has.
LEMMA ReadKeeps == TailInv /\ Read => TailInv'
<1> SUFFICES ASSUME TailInv, Read
             PROVE  TailInv'
  OBVIOUS
<1>1. TailTyped /\ Finished
  BY DEF TailInv
<1>2. /\ phase = "read" /\ phase' = "process" /\ pos' = ReadUpTo
      /\ pending' = pending \o NewWords /\ taken' = taken \o NewWords
      /\ UNCHANGED <<kind, n, session, sim, file, seen, drawn, short, finished, shown>>
      /\ UNCHANGED <<waiting, writing, spoilt>>
  BY DEF Read, strays
<1>3. Chosen' /\ Results' = Results
  BY <1>1, <1>2, ChosenKept DEF TailTyped
<1>4. pending \in Seq(ReadWord) /\ taken \in Seq(ReadWord) /\ NewWords \in Seq(ReadWord)
  BY <1>1, LinesRead DEF TailTyped
<1>5. pending' \in Seq(ReadWord) /\ taken' \in Seq(ReadWord)
  BY <1>2, <1>4, ConcatProperties
<1>6. TailTyped'
  <2>1. pos' \in Nat
    BY <1>1, <1>2 DEF ReadUpTo, TailTyped
  <2>2. phase' \in Phases
    BY <1>2 DEF Phases
  <2>3. QED
    BY <1>1, <1>2, <1>3, <1>5, <2>1, <2>2 DEF TailTyped
<1>7. ~spoilt => pos' = file.text
  BY <1>2, TypesOfTail DEF ReadUpTo, OwnFile
<1>8. Finished'
  <2>1. ~spoilt /\ short => pending' = << >>
    <3>1. ~spoilt /\ short => NewWords = << >> /\ pending = << >>
      BY <1>1, LinesRead, TypesOfTail DEF Finished
    <3>2. pending = << >> /\ NewWords = << >> => pending \o NewWords = << >>
      BY <1>4, ConcatEmptySeq
    <3>3. QED
      BY <1>2, <3>1, <3>2
  <2>2. QED
    BY <1>1, <1>2, <1>7, <2>1 DEF Finished, Alive
<1>9. ASSUME ~spoilt, WholeLines
      PROVE  WholeLines'
  <2>1. /\ Len(taken) + Len(NewWords) = (file.text + 2) \div 3
        /\ \A j \in 1 .. Len(NewWords) :
              NewWords[j] = [writer |-> session, line |-> Len(taken) + j, part |-> "whole"]
    BY <1>1, <1>9, WholeRead, TypesOfTail
  <2>2. Len(taken) \in Nat /\ Len(NewWords) \in Nat /\ DOMAIN taken = 1 .. Len(taken)
    BY <1>4, LenProperties
  <2>3. /\ Len(taken') = Len(taken) + Len(NewWords) /\ DOMAIN taken' = 1 .. Len(taken')
        /\ \A ix \in 1 .. Len(taken) + Len(NewWords) :
              taken'[ix] = IF ix <= Len(taken) THEN taken[ix] ELSE NewWords[ix - Len(taken)]
    BY <1>2, <1>4, <1>5, ConcatProperties, LenProperties
  <2>4. ASSUME NEW ix \in 1 .. Len(taken) + Len(NewWords)
        PROVE  taken'[ix] = [writer |-> session, line |-> ix, part |-> "whole"]
    <3>1. CASE ix <= Len(taken)
      <4>1. ix \in DOMAIN taken
        BY <2>2, <3>1
      <4>2. QED
        BY <1>9, <2>3, <3>1, <4>1 DEF WholeLines
    <3>2. CASE ~(ix <= Len(taken))
      <4>1. ix - Len(taken) \in 1 .. Len(NewWords) /\ Len(taken) + (ix - Len(taken)) = ix
        BY <2>2, <3>2
      <4>2. taken'[ix] = NewWords[ix - Len(taken)]
        BY <2>3, <3>2
      <4>3. QED
        BY <2>1, <4>1, <4>2
    <3>3. QED
      BY <3>1, <3>2
  <2>5. file'.text % 3 # 1 /\ pos' % 3 # 1 /\ Len(taken') = (pos' + 2) \div 3
    BY <1>2, <1>7, <1>9, <2>1, <2>3 DEF WholeLines
  <2>6. \A ix \in DOMAIN taken' :
            taken'[ix] = [writer |-> session', line |-> ix, part |-> "whole"]
    BY <1>2, <2>3, <2>4
  <2>7. QED
    BY <2>5, <2>6 DEF WholeLines
<1>10. ASSUME ~spoilt, Unspoilt
       PROVE  Unspoilt'
  <2>1. LinesFollow'
    <3>1. InLine(taken \o NewWords) /\ UpTo(taken \o NewWords, file.text)
      BY <1>1, <1>10, FollowsRead DEF Unspoilt
    <3>2. taken' = taken \o NewWords /\ pos' = file.text /\ session' = session
      BY <1>2, <1>7, <1>10
    <3> DEFINE s == taken \o NewWords
    <3>3. taken' = s /\ InLine(s) /\ UpTo(s, file.text)
      BY <3>1, <3>2
    <3> HIDE DEF s
    <3>4. UpTo(taken', pos')
      BY <3>2, <3>3
    <3>5. InLine(taken)'
      BY <3>2, <3>3 DEF InLine
    <3>6. UpTo(taken, pos)'
      BY <3>4 DEF UpTo
    <3>7. QED
      BY <3>5, <3>6 DEF LinesFollow
  <2>2. OwnFile'
    BY <1>2, <1>7, <1>10, TypesOfTail DEF Unspoilt, OwnFile
  <2>3. QED
    BY <1>9, <1>10, <2>1, <2>2 DEF Unspoilt
<1>11. QED
  BY <1>2, <1>6, <1>8, <1>10 DEF TailInv

\* Products of numbers, for the provers.
LEMMA Products ==
    \A a, b, c \in Nat : a * b \in Nat /\ (a + b) * c = a * c + b * c
  OBVIOUS

\* The smaller of two numbers.
LEMMA SmallerNat == \A a, b \in Nat : Smaller(a, b) \in Nat /\ Smaller(a, b) <= b
  BY DEF Smaller

\* What is used is a front of what is pending.
LEMMA ProcessKeeps == TailInv /\ Process => TailInv'
<1> SUFFICES ASSUME TailInv, Process
             PROVE  TailInv'
  OBVIOUS
<1>1. TailTyped /\ Finished
  BY DEF TailInv
<1>2. PICK k \in Nat :
             /\ k <= Len(pending) /\ pending' = Rest(k)
             /\ kind = "motion" => /\ k = Len(pending) /\ seen' = seen + k
                                   /\ drawn' = Smaller(n_events, seen' * EVENTS_PER_WORD)
             /\ kind = "blob" => /\ k = Len(pending) /\ seen' = seen + k
                                 /\ drawn' = seen' * EVENTS_PER_WORD
             /\ kind = "track" =>
                   /\ \E dumps \in Nat :
                        /\ k = 2 * dumps
                        /\ seen' = Smaller(seen + dumps * EVENTS_PER_DUMP, n_events)
                   /\ drawn' = seen'
             /\ kind \in {"timesurface", "denoise"} =>
                   /\ \E dumps \in Nat : k = dumps * DUMP_WORDS /\ seen' = seen + dumps
                   /\ drawn' = drawn
             /\ kind = "stabilize" =>
                   /\ seen' = seen + k /\ drawn' = seen'
                   /\ finished => k = Len(pending)
                   /\ ~finished => short' = short
             /\ kind # "stabilize" => short' = short
             /\ short' \in BOOLEAN
  BY <1>1, ProcessCases
<1>3. /\ phase = "process" /\ phase' = "poll"
      /\ UNCHANGED <<kind, n, session, sim, file, pos, finished, shown, taken>>
      /\ UNCHANGED <<waiting, writing, spoilt>>
  BY DEF Process, strays
<1>4. Chosen' /\ Results' = Results /\ n_events \in Nat
      /\ kind \in {"motion", "blob", "track", "timesurface", "denoise", "stabilize"}
  BY <1>1, <1>3, ChosenKept, Events, Answers DEF TailTyped
<1>5. pending' \in Seq(ReadWord)
  BY <1>1, <1>2, Used
<1>6. seen' \in Nat /\ drawn' \in Nat
  <2>1. seen \in Nat /\ drawn \in Nat
    BY <1>1 DEF TailTyped
  <2>2. CASE kind \in {"motion", "blob"}
    <3>1. seen' \in Nat
      BY <1>2, <2>1, <2>2
    <3>2. seen' * EVENTS_PER_WORD \in Nat
      <4>1. EVENTS_PER_WORD \in Nat
        BY TailConstants
      <4>2. QED
        BY <3>1, <4>1, Products
    <3>3. QED
      BY <1>2, <1>4, <2>2, <3>1, <3>2, SmallerNat
  <2>3. CASE kind = "track"
    <3>1. PICK dumps \in Nat : seen' = Smaller(seen + dumps * EVENTS_PER_DUMP, n_events)
      BY <1>2, <2>3
    <3>2. seen + dumps * EVENTS_PER_DUMP \in Nat
      BY <2>1, TailConstants
    <3>3. QED
      BY <1>2, <1>4, <2>3, <3>1, <3>2, SmallerNat
  <2>4. CASE kind \in {"timesurface", "denoise"}
    BY <1>2, <2>1, <2>4
  <2>5. CASE kind = "stabilize"
    BY <1>2, <2>1, <2>5
  <2>6. QED
    BY <1>4, <2>2, <2>3, <2>4, <2>5
<1>7. TailTyped'
  <2>1. phase' \in Phases
    BY <1>3 DEF Phases
  <2>2. QED
    BY <1>1, <1>2, <1>3, <1>4, <1>5, <1>6, <2>1 DEF TailTyped
<1>8. Finished'
  <2>1. CASE spoilt
    BY <1>1, <1>3, <2>1 DEF Finished, Alive
  <2>2. CASE ~spoilt /\ ~finished
    BY <1>1, <1>2, <1>3, <1>4, <2>2 DEF Finished, TailTyped
  <2>3. CASE ~spoilt /\ finished
    <3>1. pos = file.text /\ ~Alive
      BY <1>1, <1>3, <2>3 DEF Finished
    <3>2. kind = "stabilize" => pending' = << >>
      BY <1>1, <1>2, <2>3, Used
    <3>3. kind # "stabilize" => ~short'
      BY <1>1, <1>2, <2>3 DEF Finished, TailTyped
    <3>4. QED
      BY <1>3, <2>3, <3>1, <3>2, <3>3 DEF Finished, Alive
  <2>4. QED
    BY <2>1, <2>2, <2>3
<1>9. ASSUME ~spoilt, Unspoilt
      PROVE  Unspoilt'
  <2>1. OwnFile'
    BY <1>3, <1>9 DEF Unspoilt, OwnFile
  <2>2. 1 \notin LineCuts => WholeLines'
    BY <1>3, <1>9 DEF Unspoilt, WholeLines
  <2>3. LinesFollow'
    BY <1>3, <1>9 DEF Unspoilt, LinesFollow, InLine
  <2>4. QED
    BY <2>1, <2>2, <2>3 DEF Unspoilt
<1>10. QED
  BY <1>3, <1>7, <1>8, <1>9 DEF TailInv

\* The other steps touch neither the file nor the words.
LEMMA OthersKeep == TailInv /\ (Poll \/ Show \/ QuitTail \/ UNCHANGED liveTail) => TailInv'
<1> SUFFICES ASSUME TailInv, Poll \/ Show \/ QuitTail \/ UNCHANGED liveTail
             PROVE  TailInv'
  OBVIOUS
<1>1. UNCHANGED <<file, seen, drawn, short, waiting, writing, spoilt, Reading>>
  <2>1. CASE Poll \/ Show
    BY <2>1 DEF Poll, Show, Reading, counts, strays
  <2>2. CASE QuitTail
    BY <2>2 DEF QuitTail, Reading, counts, strays
  <2>3. CASE UNCHANGED liveTail
    BY <2>3 DEF liveTail, Reading, counts, strays
  <2>4. QED
    BY <2>1, <2>2, <2>3
<1>2. UNCHANGED <<pending, pos, session, kind>>
  BY <1>1 DEF Reading
<1>3. /\ phase' \in Phases /\ sim' \in SimStates
      /\ finished' \in BOOLEAN /\ shown' \in {"running", "DONE"}
      /\ sim' \notin {"starting", "running"} \/ sim' = sim
      /\ (finished' => finished \/ ~Alive) /\ (finished => finished')
      /\ session = 0 => sim' = "none"
      /\ phase' # "process" \/ (phase' = phase /\ finished' = finished)
  <2>1. CASE Poll
    BY <2>1, TypesOfTail DEF Poll, Phases
  <2>2. CASE Show
    BY <2>2, TypesOfTail DEF Show, Phases
  <2>3. CASE QuitTail
    BY <2>3, TypesOfTail DEF QuitTail, SimAfter, Alive, Phases, SimStates
  <2>4. CASE UNCHANGED liveTail
    BY <2>4, TypesOfTail DEF liveTail
  <2>5. QED
    BY <2>1, <2>2, <2>3, <2>4
<1>4. ~spoilt => OwnFile'
  BY <1>1, <1>2, <1>3, TypesOfTail DEF OwnFile
<1>5. TailTyped' /\ (~spoilt' => Unspoilt')
  BY <1>1, <1>3, <1>4, TypesOfTail, TextWhole, ReadingKept
<1>6. Finished'
  <2>1. finished' => ~Alive'
    BY <1>3, TypesOfTail DEF Finished, Alive
  <2>2. QED
    BY <1>1, <1>2, <1>3, <2>1, TypesOfTail DEF Finished
<1>7. QED
  BY <1>5, <1>6 DEF TailInv

\* So each step keeps the invariant.
LEMMA TailStep == TailInv /\ [TailNext]_liveTail => TailInv'
<1> SUFFICES ASSUME TailInv, [TailNext]_liveTail
             PROVE  TailInv'
  OBVIOUS
<1>1. TailTyped
  BY DEF TailInv
<1>2. Prepare(TRUE) => TailInv'
  BY <1>1, PrepareKeeps
<1>3. Prepare(FALSE) => TailInv'
  BY <1>1, PrepareKeeps
<1>4. ASSUME NEW t \in 1 .. 3 * Results, SimWrites(t) \/ StrayWrites(t)
      PROVE  TailInv'
  BY <1>4, WritesKeeps, StraysKeep DEF Strays
<1>5. ASSUME NEW s \in waiting \union writing, StrayOpens(s) \/ StrayEnds(s)
      PROVE  TailInv'
  BY <1>5, StraysKeep DEF Strays
<1>6. QED
  BY <1>2, <1>3, <1>4, <1>5, TailActions, OpensKeeps, EndsKeeps, ReadKeeps, ProcessKeeps,
     OthersKeep

\* Nothing is left to use once a short frame was shown.
LEMMA NothingAfterShort ==
    ASSUME TailInv, [TailNext]_liveTail, short, ~spoilt
    PROVE  seen' = seen \/ session' # session
<1>1. TailTyped /\ Finished
  BY DEF TailInv
<1>2. kind = "stabilize" /\ finished /\ pending = << >>
  BY <1>1 DEF Finished
<1>3. CASE Prepare(TRUE) \/ Prepare(FALSE)
  BY <1>1, <1>3 DEF Prepare, TailTyped
<1>4. CASE Process
  <2>1. PICK k \in Nat : k <= Len(pending) /\ seen' = seen + k
    BY <1>1, <1>2, <1>4, ProcessCases
  <2>2. Len(pending) = 0
    BY <1>2
  <2>3. QED
    BY <1>1, <2>1, <2>2 DEF TailTyped
<1>5. ASSUME NEW t, SimWrites(t) \/ StrayWrites(t)
      PROVE  seen' = seen
  BY <1>5 DEF SimWrites, StrayWrites, counts
<1>6. ASSUME NEW s, StrayOpens(s) \/ StrayEnds(s)
      PROVE  seen' = seen
  BY <1>6 DEF StrayOpens, StrayEnds, counts
<1>7. CASE SimOpens \/ SimEnds \/ SimCrashes \/ LeavesEarly \/ Enter
  BY <1>7 DEF SimOpens, SimEnds, SimCrashes, LeavesEarly, Enter, counts
<1>8. CASE Read \/ Poll \/ Show \/ QuitTail \/ UNCHANGED liveTail
  BY <1>8 DEF Read, Poll, Show, QuitTail, liveTail, counts
<1>9. QED
  BY <1>3, <1>4, <1>5, <1>6, <1>7, <1>8, TailActions

\* What the invariant says of the words is what the property says.
LEMMA WordsOwned == TailInv => OwnWords
  BY DEF TailInv, Unspoilt, LinesFollow, InLine, OwnWords

(***************************************************************************)
(* dvs_motion_live.py:182-187, dvs_stabilize_live.py:284: for every        *)
(* recording, and wherever the simulator's flushes end, the words a viewer *)
(* uses are those of its own simulator, each line once and in order: as    *)
(* one word, or as two where a flush ended inside its number.  And nothing *)
(* is used after a short frame.  All this until a simulator that an        *)
(* earlier viewer left behind touches the file (spoilt); that it never     *)
(* does is not claimed, it is false (OneWriter).                           *)
(***************************************************************************)
THEOREM WordsCorrect == TailSpec => WordsPaired
<1>1. TailInv /\ [TailNext]_liveTail =>
          [short /\ ~spoilt => seen' = seen \/ session' # session]_liveTail
  BY NothingAfterShort
<1>2. QED
  BY <1>1, WordsOwned, TailStarts, TailStep, PTL DEF TailSpec, WordsPaired

(***************************************************************************)
(* dvs_motion_live.py:182-187: if no flush ends inside a number, whether   *)
(* or not it ends before the newline, the i-th word used is line i, whole. *)
(***************************************************************************)
THEOREM WordsWhole ==
    ASSUME 1 \notin LineCuts
    PROVE  TailSpec => [](~spoilt => \A ix \in DOMAIN taken :
               taken[ix] = [writer |-> session, line |-> ix, part |-> "whole"])
<1>1. TailInv => (~spoilt => \A ix \in DOMAIN taken :
          taken[ix] = [writer |-> session, line |-> ix, part |-> "whole"])
  BY DEF TailInv, Unspoilt, WholeLines
<1>2. QED
  BY <1>1, TailStarts, TailStep, PTL DEF TailSpec

-----------------------------------------------------------------------------
(***************************************************************************)
(* The status.  DONE is shown when the simulator has ended and enough was  *)
(* seen, and what is seen is counted in events, words or dumps.            *)
(***************************************************************************)

\* What is seen is what was used, in the viewer's own unit.
UsedCounted ==
    /\ kind \in {"motion", "blob", "stabilize"} => seen + Len(pending) = Len(taken)
    /\ kind = "track" => \E d \in Nat : /\ 2 * d + Len(pending) = Len(taken)
                                        /\ seen = Smaller(d * EVENTS_PER_DUMP, n_events)
    /\ kind \in {"timesurface", "denoise"} =>
          seen * DUMP_WORDS + Len(pending) = Len(taken)

\* Nothing was used at the start.
LEMMA CountStarts == TailInit => UsedCounted
<1> SUFFICES ASSUME TailInit
             PROVE  UsedCounted
  OBVIOUS
<1>1. Len(pending) = 0 /\ Len(taken) = 0 /\ seen = 0
  BY DEF TailInit
<1>2. n_events \in Nat /\ Smaller(0 * EVENTS_PER_DUMP, n_events) = 0
  <2>1. n_events \in Nat
    BY Events DEF TailInit, Chosen
  <2>2. 0 * EVENTS_PER_DUMP = 0
    BY TailConstants
  <2>3. QED
    BY <2>1, <2>2 DEF Smaller
<1>3. 0 * DUMP_WORDS = 0
  BY TailConstants
<1>4. QED
  BY <1>1, <1>2, <1>3 DEF UsedCounted

\* Nothing used, nothing counted.
LEMMA CountOfNone ==
    ASSUME Chosen, pending = << >>, taken = << >>, seen = 0
    PROVE  UsedCounted
<1>1. Len(pending) = 0 /\ Len(taken) = 0
  OBVIOUS
<1>2. n_events \in Nat
  BY Events
<1>3. 0 * EVENTS_PER_DUMP = 0 /\ 0 * DUMP_WORDS = 0
  BY TailConstants
<1>4. Smaller(0 * EVENTS_PER_DUMP, n_events) = 0
  BY <1>2, <1>3 DEF Smaller
<1>5. QED
  BY <1>1, <1>3, <1>4 DEF UsedCounted

\* The counter starts again with each session.
LEMMA CountPrepared ==
    ASSUME TailInv, NEW b \in BOOLEAN, Prepare(b)
    PROVE  UsedCounted'
<1>1. UNCHANGED <<kind, n>> /\ pending' = << >> /\ taken' = << >> /\ seen' = 0
  BY DEF Prepare
<1>2. Chosen' /\ n_events' = n_events /\ n_events \in Nat
  BY <1>1, ChosenKept, Events DEF TailInv, TailTyped
<1>3. Len(pending') = 0 /\ Len(taken') = 0
  BY <1>1
<1>4. 0 * EVENTS_PER_DUMP = 0 /\ 0 * DUMP_WORDS = 0
  BY TailConstants
<1>5. Smaller(0 * EVENTS_PER_DUMP, n_events) = 0
  BY <1>2, <1>4 DEF Smaller
<1>6. QED
  BY <1>1, <1>2, <1>3, <1>4, <1>5 DEF UsedCounted

\* Reading uses nothing.
LEMMA CountRead ==
    ASSUME TailInv, UsedCounted, Read
    PROVE  UsedCounted'
<1>1. TailTyped
  BY DEF TailInv
<1>2. /\ pending' = pending \o NewWords /\ taken' = taken \o NewWords
      /\ UNCHANGED <<kind, n, seen>>
  BY DEF Read
<1>3. pending \in Seq(ReadWord) /\ taken \in Seq(ReadWord) /\ NewWords \in Seq(ReadWord) /\ seen \in Nat
  BY <1>1, LinesRead DEF TailTyped
<1>4. /\ Len(pending') = Len(pending) + Len(NewWords)
      /\ Len(taken') = Len(taken) + Len(NewWords)
      /\ Len(pending) \in Nat /\ Len(taken) \in Nat /\ Len(NewWords) \in Nat
  BY <1>2, <1>3, ConcatProperties, LenProperties
<1>5. n_events' = n_events
  BY <1>2, ChosenKept
<1>6. kind \in {"motion", "blob", "stabilize"} => seen' + Len(pending') = Len(taken')
  <2>1. kind \in {"motion", "blob", "stabilize"} => seen + Len(pending) = Len(taken)
    BY DEF UsedCounted
  <2>2. seen' = seen
    BY <1>2
  <2>3. QED
    BY <1>3, <1>4, <2>1, <2>2
<1>7. kind = "track" => \E d \in Nat : /\ 2 * d + Len(pending') = Len(taken')
                                       /\ seen' = Smaller(d * EVENTS_PER_DUMP, n_events)
  BY <1>2, <1>3, <1>4 DEF UsedCounted
<1>8. kind \in {"timesurface", "denoise"} =>
          seen' * DUMP_WORDS + Len(pending') = Len(taken')
  <2>1. kind \in {"timesurface", "denoise"} => seen * DUMP_WORDS + Len(pending) = Len(taken)
    BY DEF UsedCounted
  <2>2. PICK used \in Nat : used = seen * DUMP_WORDS
    BY <1>3, TailConstants
  <2>3. seen' * DUMP_WORDS = used
    BY <1>2, <2>2
  <2>4. QED
    BY <1>4, <2>1, <2>2, <2>3
<1>9. QED
  BY <1>2, <1>5, <1>6, <1>7, <1>8 DEF UsedCounted

\* Limiting a sum twice is limiting it once (dvs_track_live.py).
LEMMA Limited ==
    \A a, b, c \in Nat : Smaller(Smaller(a, c) + b, c) = Smaller(a + b, c)
  BY DEF Smaller

\* What a step uses it counts.
LEMMA CountProcessed ==
    ASSUME TailInv, UsedCounted, Process
    PROVE  UsedCounted'
<1>1. TailTyped
  BY DEF TailInv
<1>2. PICK k \in Nat :
             /\ k <= Len(pending) /\ pending' = Rest(k)
             /\ kind = "motion" => /\ k = Len(pending) /\ seen' = seen + k
                                   /\ drawn' = Smaller(n_events, seen' * EVENTS_PER_WORD)
             /\ kind = "blob" => /\ k = Len(pending) /\ seen' = seen + k
                                 /\ drawn' = seen' * EVENTS_PER_WORD
             /\ kind = "track" =>
                   /\ \E dumps \in Nat :
                        /\ k = 2 * dumps
                        /\ seen' = Smaller(seen + dumps * EVENTS_PER_DUMP, n_events)
                   /\ drawn' = seen'
             /\ kind \in {"timesurface", "denoise"} =>
                   /\ \E dumps \in Nat : k = dumps * DUMP_WORDS /\ seen' = seen + dumps
                   /\ drawn' = drawn
             /\ kind = "stabilize" =>
                   /\ seen' = seen + k /\ drawn' = seen'
                   /\ finished => k = Len(pending)
                   /\ ~finished => short' = short
             /\ kind # "stabilize" => short' = short
             /\ short' \in BOOLEAN
  BY <1>1, ProcessCases
<1>3. UNCHANGED <<kind, n, taken>>
  BY DEF Process
<1>4. n_events' = n_events /\ n_events \in Nat
  BY <1>1, <1>3, ChosenKept, Events DEF TailTyped
<1>5. /\ Len(pending') = Len(pending) - k /\ Len(pending) \in Nat
      /\ Len(taken) \in Nat /\ seen \in Nat
  BY <1>1, <1>2, Used, LenOfTail DEF TailTyped
<1>6. kind \in {"motion", "blob", "stabilize"} => seen' + Len(pending') = Len(taken)
  BY <1>2, <1>5 DEF UsedCounted
<1>7. ASSUME kind = "track"
      PROVE  \E d \in Nat : /\ 2 * d + Len(pending') = Len(taken)
                            /\ seen' = Smaller(d * EVENTS_PER_DUMP, n_events)
  <2>1. PICK d \in Nat : /\ 2 * d + Len(pending) = Len(taken)
                         /\ seen = Smaller(d * EVENTS_PER_DUMP, n_events)
    BY <1>7 DEF UsedCounted
  <2>2. PICK m \in Nat : /\ k = 2 * m
                         /\ seen' = Smaller(seen + m * EVENTS_PER_DUMP, n_events)
    BY <1>2, <1>7
  <2>3. d + m \in Nat /\ 2 * (d + m) + Len(pending') = Len(taken)
    BY <1>5, <2>1, <2>2
  <2>4. d * EVENTS_PER_DUMP \in Nat /\ m * EVENTS_PER_DUMP \in Nat
        /\ (d + m) * EVENTS_PER_DUMP = d * EVENTS_PER_DUMP + m * EVENTS_PER_DUMP
    BY TailConstants
  <2>5. seen' = Smaller((d + m) * EVENTS_PER_DUMP, n_events)
    <3>1. PICK a \in Nat : a = d * EVENTS_PER_DUMP
      BY <2>4
    <3>2. PICK b \in Nat : b = m * EVENTS_PER_DUMP
      BY <2>4
    <3>3. seen = Smaller(a, n_events) /\ seen' = Smaller(seen + b, n_events)
          /\ (d + m) * EVENTS_PER_DUMP = a + b
      BY <2>1, <2>2, <2>4, <3>1, <3>2
    <3>4. QED
      BY <1>4, <3>3, Limited
  <2>6. QED
    BY <2>3, <2>5
<1>8. ASSUME kind \in {"timesurface", "denoise"}
      PROVE  seen' * DUMP_WORDS + Len(pending') = Len(taken)
  <2>1. PICK m \in Nat : k = m * DUMP_WORDS /\ seen' = seen + m
    BY <1>2, <1>8
  <2>2. seen * DUMP_WORDS + Len(pending) = Len(taken)
    BY <1>8 DEF UsedCounted
  <2>3. /\ seen * DUMP_WORDS \in Nat /\ m * DUMP_WORDS \in Nat
        /\ (seen + m) * DUMP_WORDS = seen * DUMP_WORDS + m * DUMP_WORDS
    BY <1>5, TailConstants
  <2>4. PICK x \in Nat, y \in Nat : x = seen * DUMP_WORDS /\ y = m * DUMP_WORDS
    BY <2>3, Zenon
  <2>5. seen' * DUMP_WORDS = x + y /\ k = y /\ x + Len(pending) = Len(taken)
    BY <2>1, <2>2, <2>3, <2>4, Zenon
  <2>6. (x + y) + Len(pending') = Len(taken)
    BY <1>5, <2>5
  <2>7. QED
    BY <2>5, <2>6, Zenon
<1>9. QED
  BY <1>3, <1>4, <1>6, <1>7, <1>8 DEF UsedCounted

\* So each step keeps the count.
LEMMA CountKept == TailInv /\ UsedCounted /\ [TailNext]_liveTail => UsedCounted'
<1> SUFFICES ASSUME TailInv, UsedCounted, [TailNext]_liveTail
             PROVE  UsedCounted'
  OBVIOUS
<1>1. ASSUME UNCHANGED <<kind, n, pending, seen, taken>>
      PROVE  UsedCounted'
  BY <1>1, ChosenKept DEF UsedCounted
<1>2. ASSUME NEW t, SimWrites(t) \/ StrayWrites(t)
      PROVE  UNCHANGED <<kind, n, pending, seen, taken>>
  BY <1>2 DEF SimWrites, StrayWrites, counts
<1>3. CASE SimOpens \/ SimEnds \/ SimCrashes \/ LeavesEarly \/ Enter
  <2>1. UNCHANGED <<kind, n, pending, seen, taken>>
    BY <1>3 DEF SimOpens, SimEnds, SimCrashes, LeavesEarly, Enter, counts
  <2>2. QED
    BY <1>1, <2>1
<1>4. CASE Poll \/ Show \/ QuitTail \/ UNCHANGED liveTail
  <2>1. UNCHANGED <<kind, n, pending, seen, taken>>
    BY <1>4 DEF Poll, Show, QuitTail, liveTail, counts
  <2>2. QED
    BY <1>1, <2>1
<1>5. Prepare(TRUE) => UsedCounted'
  BY CountPrepared
<1>6. Prepare(FALSE) => UsedCounted'
  BY CountPrepared
<1>7. ASSUME NEW s, StrayOpens(s) \/ StrayEnds(s)
      PROVE  UNCHANGED <<kind, n, pending, seen, taken>>
  BY <1>7 DEF StrayOpens, StrayEnds, counts
<1>8. QED
  BY <1>1, <1>2, <1>3, <1>4, <1>5, <1>6, <1>7, TailActions, CountRead, CountProcessed

\* When every number was read whole, word i is line i.
LEMMA LinesCounted ==
    ASSUME taken \in Seq(ReadWord), InLine(taken), NumbersWhole
    PROVE  \A ix \in DOMAIN taken : taken[ix].line = ix
<1>1. Len(taken) \in Nat /\ DOMAIN taken = 1 .. Len(taken)
  BY LenProperties
<1> DEFINE T == {m \in Nat : m + 1 \in DOMAIN taken => taken[m + 1].line = m + 1}
<1>2. 0 \in T
  BY DEF InLine
<1>3. ASSUME NEW m \in Nat, m \in T
      PROVE  m + 1 \in T
  <2> SUFFICES ASSUME m + 2 \in DOMAIN taken
               PROVE  taken[m + 2].line = m + 2
    OBVIOUS
  <2>1. m + 1 \in DOMAIN taken /\ m + 2 > 1 /\ (m + 2) - 1 = m + 1
    BY <1>1
  <2>2. taken[m + 1].line = m + 1 /\ taken[m + 1].part = "whole"
    BY <1>3, <2>1 DEF NumbersWhole
  <2>3. NextTo(taken[m + 1], taken[m + 2])
    BY <2>1 DEF InLine
  <2>4. QED
    BY <2>2, <2>3 DEF NextTo
<1>4. Nat \subseteq T
  <2> HIDE DEF T
  <2>1. QED
    BY <1>2, <1>3, Induction
<1>5. ASSUME NEW ix \in DOMAIN taken
      PROVE  taken[ix].line = ix
  <2>1. ix - 1 \in Nat /\ (ix - 1) + 1 = ix
    BY <1>1
  <2>2. ix - 1 \in T
    BY <1>4, <2>1
  <2>3. QED
    BY <2>1, <2>2
<1>6. QED
  BY <1>5

\* So as many were read as lines were begun.
LEMMA WordsCounted ==
    TailInv /\ ~spoilt /\ NumbersWhole => Len(taken) = (pos + 2) \div 3
<1> SUFFICES ASSUME TailInv, ~spoilt, NumbersWhole
             PROVE  Len(taken) = (pos + 2) \div 3
  OBVIOUS
<1>1. taken \in Seq(ReadWord) /\ InLine(taken) /\ UpTo(taken, pos) /\ pos \in Nat
  BY DEF TailInv, TailTyped, Unspoilt, LinesFollow
<1>2. Len(taken) \in Nat /\ DOMAIN taken = 1 .. Len(taken) /\ (taken = << >> <=> Len(taken) = 0)
  BY <1>1, LenProperties, EmptySeq
<1>3. CASE taken = << >>
  BY <1>1, <1>2, <1>3 DEF UpTo
<1>4. CASE taken # << >>
  <2>1. \A ix \in DOMAIN taken : taken[ix].line = ix
    BY <1>1, LinesCounted
  <2>2. Len(taken) \in DOMAIN taken
    BY <1>2, <1>4
  <2>3. taken[Len(taken)].line = (pos + 2) \div 3
    BY <1>1, <1>4 DEF UpTo
  <2>4. QED
    BY <2>1, <2>2, <2>3, Zenon
<1>5. QED
  BY <1>3, <1>4

\* No more can be used than the chip answers.
LEMMA UsedBound ==
    TailInv /\ UsedCounted /\ ~spoilt /\ NumbersWhole =>
        /\ Len(pending) <= Results /\ Len(taken) - Len(pending) <= Results
        /\ kind \in {"motion", "blob", "stabilize"} => seen <= Results
<1> SUFFICES ASSUME TailInv, UsedCounted, ~spoilt, NumbersWhole
             PROVE  /\ Len(pending) <= Results /\ Len(taken) - Len(pending) <= Results
                    /\ kind \in {"motion", "blob", "stabilize"} => seen <= Results
  OBVIOUS
<1>1. /\ pos \in Nat /\ file.text \in Nat /\ pos <= file.text /\ file.text <= 3 * Results
      /\ seen \in Nat /\ Chosen
  BY DEF TailInv, TailTyped, Unspoilt, OwnFile
<1>2. Results \in Nat /\ Len(pending) \in Nat /\ Len(taken) \in Nat
  BY <1>1, Answers, LenOfTail DEF TailInv
<1>3. Len(taken) = (pos + 2) \div 3
  BY WordsCounted
<1>4. Len(taken) <= Results
  BY <1>1, <1>2, <1>3
<1>5. Len(pending) <= Len(taken)
  <2>1. CASE kind \in {"motion", "blob", "stabilize"}
    BY <1>1, <1>2, <2>1 DEF UsedCounted
  <2>2. CASE kind = "track"
    <3>1. PICK d \in Nat : 2 * d + Len(pending) = Len(taken)
      BY <2>2 DEF UsedCounted
    <3>2. QED
      BY <1>2, <3>1
  <2>3. CASE kind \in {"timesurface", "denoise"}
    <3>1. seen * DUMP_WORDS \in Nat
      BY <1>1, TailConstants
    <3>2. QED
      BY <1>2, <2>3, <3>1 DEF UsedCounted
  <2>4. QED
    BY <1>1, <2>1, <2>2, <2>3, Answers
<1>6. QED
  BY <1>1, <1>2, <1>4, <1>5 DEF UsedCounted

\* What is drawn stays inside the recording, and DONE is true.
ShowsRight ==
    /\ shown = "DONE" => finished
    /\ ~spoilt /\ NumbersWhole =>
          /\ drawn <= n_events
          /\ shown = "DONE" => Len(taken) - Len(pending) = Results

\* It starts so.
LEMMA ShowsRightStarts == TailInit => ShowsRight
  BY Events DEF TailInit, ShowsRight, Chosen

\* When all that is owed was seen, all there is was used.
LEMMA OwedUsed ==
    ASSUME TailInv, UsedCounted, ~spoilt, NumbersWhole, seen >= Owed
    PROVE  Len(taken) - Len(pending) = Results
<1>1. /\ Len(pending) \in Nat /\ Len(taken) \in Nat /\ seen \in Nat /\ Chosen
      /\ Results \in Nat /\ Owed \in Nat
      /\ Len(taken) - Len(pending) <= Results
  BY LenOfTail, Answers, UsedBound DEF TailInv, TailTyped
<1>2. CASE kind \in {"motion", "blob", "stabilize"}
  BY <1>1, <1>2, Answers DEF UsedCounted
<1>3. CASE kind = "track"
  <2>1. PICK d \in Nat : /\ 2 * d + Len(pending) = Len(taken)
                         /\ seen = Smaller(d * EVENTS_PER_DUMP, n_events)
    BY <1>3 DEF UsedCounted
  <2>2. /\ n_events \in Nat /\ n_dumps_total \in Nat /\ Owed = n_events
        /\ Results = 2 * n_dumps_total
        /\ n_dumps_total * EVENTS_PER_DUMP <= n_events
    BY <1>1, <1>3, Answers, Events
  <2>3. PICK a \in Nat : a = d * EVENTS_PER_DUMP
    BY TailConstants
  <2>4. a >= n_events
    BY <1>1, <2>1, <2>2, <2>3 DEF Smaller
  <2>5. ~(d < n_dumps_total)
    <3> SUFFICES ASSUME d < n_dumps_total
                 PROVE  FALSE
      OBVIOUS
    <3>1. PICK e \in Nat : n_dumps_total = d + 1 + e
      <4>1. n_dumps_total - d - 1 \in Nat /\ n_dumps_total = d + 1 + (n_dumps_total - d - 1)
        BY <2>2
      <4>2. QED
        BY <4>1
    <3>2. EVENTS_PER_DUMP \in Nat \ {0}
      BY TailConstants
    <3>3. /\ n_dumps_total * EVENTS_PER_DUMP = a + EVENTS_PER_DUMP + e * EVENTS_PER_DUMP
          /\ e * EVENTS_PER_DUMP \in Nat
      BY <2>3, <3>1, <3>2
    <3>4. QED
      BY <2>2, <2>4, <3>2, <3>3
  <2>6. QED
    BY <1>1, <2>1, <2>2, <2>5
<1>4. CASE kind \in {"timesurface", "denoise"}
  <2>1. /\ Owed = n_dumps_total /\ Results = DUMP_WORDS * n_dumps_total
        /\ n_dumps_total \in Nat
    BY <1>1, <1>4, Answers, Events
  <2>2. seen * DUMP_WORDS + Len(pending) = Len(taken)
    BY <1>4 DEF UsedCounted
  <2>3. PICK e \in Nat : seen = n_dumps_total + e
    <3>1. seen - n_dumps_total \in Nat /\ seen = n_dumps_total + (seen - n_dumps_total)
      BY <1>1, <2>1
    <3>2. QED
      BY <3>1
  <2>4. seen * DUMP_WORDS = Results + e * DUMP_WORDS /\ e * DUMP_WORDS \in Nat
    BY <2>1, <2>3, TailConstants
  <2>5. QED
    BY <1>1, <2>2, <2>4
<1>5. QED
  BY <1>1, <1>2, <1>3, <1>4, Answers

\* Two viewers do not limit what they draw: the count does.
LEMMA ShowsRightProcessed ==
    ASSUME TailInv, TailInv', UsedCounted, UsedCounted', ShowsRight, Process, ~spoilt,
           NumbersWhole
    PROVE  ShowsRight'
<1>1. /\ TailTyped /\ UNCHANGED <<kind, n, shown, finished, taken, spoilt>>
      /\ NumbersWhole' = NumbersWhole
  BY DEF TailInv, Process, strays, NumbersWhole
<1>2. PICK k \in Nat :
             /\ k <= Len(pending) /\ pending' = Rest(k)
             /\ kind = "motion" => /\ k = Len(pending) /\ seen' = seen + k
                                   /\ drawn' = Smaller(n_events, seen' * EVENTS_PER_WORD)
             /\ kind = "blob" => /\ k = Len(pending) /\ seen' = seen + k
                                 /\ drawn' = seen' * EVENTS_PER_WORD
             /\ kind = "track" =>
                   /\ \E dumps \in Nat :
                        /\ k = 2 * dumps
                        /\ seen' = Smaller(seen + dumps * EVENTS_PER_DUMP, n_events)
                   /\ drawn' = seen'
             /\ kind \in {"timesurface", "denoise"} =>
                   /\ \E dumps \in Nat : k = dumps * DUMP_WORDS /\ seen' = seen + dumps
                   /\ drawn' = drawn
             /\ kind = "stabilize" =>
                   /\ seen' = seen + k /\ drawn' = seen'
                   /\ finished => k = Len(pending)
                   /\ ~finished => short' = short
             /\ kind # "stabilize" => short' = short
             /\ short' \in BOOLEAN
  BY <1>1, ProcessCases DEF TailInv
<1>3. /\ Chosen /\ n_events' = n_events /\ n_events \in Nat /\ Results' = Results
      /\ Results \in Nat
      /\ kind \in {"motion", "blob", "track", "timesurface", "denoise", "stabilize"}
  BY <1>1, ChosenKept, Events, Answers DEF TailTyped
<1>4. /\ Len(pending') = Len(pending) - k /\ Len(pending) \in Nat /\ Len(taken) \in Nat
      /\ seen \in Nat /\ seen' \in Nat /\ drawn \in Nat
  BY <1>1, <1>2, Used, LenOfTail DEF TailInv, TailTyped
<1>5. /\ Len(taken) - Len(pending') <= Results
      /\ kind \in {"motion", "blob", "stabilize"} => seen' <= Results
  <2>1. (TailInv /\ UsedCounted /\ ~spoilt /\ NumbersWhole =>
             /\ Len(pending) <= Results /\ Len(taken) - Len(pending) <= Results
             /\ kind \in {"motion", "blob", "stabilize"} => seen <= Results)'
    BY UsedBound, PTL
  <2>2. QED
    BY <1>1, <1>3, <2>1
<1>6. shown = "DONE" => Len(taken) - Len(pending') = Results
  BY <1>2, <1>3, <1>4, <1>5 DEF ShowsRight
<1>7. drawn' <= n_events
  <2>1. CASE kind = "motion"
    <3>1. seen' * EVENTS_PER_WORD \in Nat
      <4>1. EVENTS_PER_WORD \in Nat
        BY TailConstants
      <4>2. QED
        BY <1>4, <4>1, Products
    <3>2. QED
      BY <1>2, <1>3, <2>1, <3>1 DEF Smaller
  <2>2. CASE kind = "blob"
    <3>1. Results * EVENTS_PER_WORD = n_events /\ EVENTS_PER_WORD \in Nat
      BY <1>3, <2>2, Answers, TailConstants
    <3>2. PICK s \in Nat : s = seen'
      BY <1>4
    <3>3. PICK e \in Nat : Results = s + e
      <4>1. s <= Results
        BY <1>5, <2>2, <3>2
      <4>2. Results - s \in Nat /\ Results = s + (Results - s)
        BY <1>3, <4>1
      <4>3. QED
        BY <4>2
    <3>4. n_events = s * EVENTS_PER_WORD + e * EVENTS_PER_WORD
          /\ s * EVENTS_PER_WORD \in Nat /\ e * EVENTS_PER_WORD \in Nat
      BY <3>1, <3>3, Products
    <3>5. drawn' = s * EVENTS_PER_WORD
      BY <1>2, <2>2, <3>2
    <3>6. QED
      BY <3>4, <3>5
  <2>3. CASE kind = "track"
    <3>1. PICK m \in Nat : seen' = Smaller(seen + m * EVENTS_PER_DUMP, n_events)
      BY <1>2, <2>3
    <3>2. seen + m * EVENTS_PER_DUMP \in Nat
      BY <1>4, TailConstants
    <3>3. QED
      BY <1>2, <1>3, <2>3, <3>1, <3>2, SmallerNat
  <2>4. CASE kind \in {"timesurface", "denoise"}
    BY <1>2, <1>3, <2>4 DEF ShowsRight
  <2>5. CASE kind = "stabilize"
    BY <1>2, <1>3, <1>5, <2>5, Answers
  <2>6. QED
    BY <1>3, <2>1, <2>2, <2>3, <2>4, <2>5
<1>8. QED
  BY <1>1, <1>3, <1>6, <1>7 DEF ShowsRight

\* So each step keeps it.
LEMMA ShowsRightStep ==
    ASSUME TailInv, TailInv', UsedCounted, UsedCounted', ShowsRight,
           [TailNext]_liveTail
    PROVE  ShowsRight'
<1>1. TailTyped
  BY DEF TailInv
<1>2. n_events' = n_events /\ n_events \in Nat /\ Results' = Results
  BY <1>1, KindKept, ChosenKept, Events DEF TailTyped
<1>3. \A b \in BOOLEAN : Prepare(b) => ShowsRight'
  BY <1>2 DEF Prepare, ShowsRight
<1>4. Prepare(TRUE) => ShowsRight'
  BY <1>3
<1>5. Prepare(FALSE) => ShowsRight'
  BY <1>3
<1>6. ASSUME ~spoilt' => ~spoilt, drawn' = drawn, finished => finished',
             NumbersWhole' => NumbersWhole,
             Len(taken') - Len(pending') = Len(taken) - Len(pending),
             shown' = shown \/ shown' = "running"
      PROVE  ShowsRight'
  BY <1>2, <1>6 DEF ShowsRight
<1>7. ASSUME NEW t, SimWrites(t)
      PROVE  ShowsRight'
  BY <1>6, <1>7 DEF SimWrites, counts, strays, NumbersWhole
<1>8. CASE SimOpens \/ SimEnds \/ SimCrashes \/ LeavesEarly \/ Enter
  <2>1. UNCHANGED <<drawn, finished, taken, pending, shown, spoilt>>
    BY <1>8 DEF SimOpens, SimEnds, SimCrashes, LeavesEarly, Enter, counts, strays
  <2>2. QED
    BY <1>6, <2>1 DEF NumbersWhole
<1>9. CASE Poll \/ QuitTail \/ UNCHANGED liveTail
  <2>1. UNCHANGED <<drawn, taken, pending, shown, spoilt>> /\ (finished => finished')
    <3>1. CASE Poll
      BY <3>1 DEF Poll, counts, strays
    <3>2. CASE QuitTail
      BY <3>2 DEF QuitTail, counts, strays
    <3>3. CASE UNCHANGED liveTail
      BY <3>3 DEF liveTail, counts, strays
    <3>4. QED
      BY <1>9, <3>1, <3>2, <3>3
  <2>2. QED
    BY <1>6, <2>1 DEF NumbersWhole
<1>10. CASE Show
  <2>1. /\ UNCHANGED <<drawn, taken, pending, finished, spoilt>>
        /\ shown' = IF Done THEN "DONE" ELSE "running"
    BY <1>10 DEF Show, counts, strays
  <2>2. /\ Done => finished
        /\ Done /\ ~spoilt /\ NumbersWhole => Len(taken) - Len(pending) = Results
    BY OwedUsed DEF Done
  <2>3. QED
    BY <1>2, <2>1, <2>2 DEF ShowsRight, NumbersWhole
<1>11. CASE Read
  <2>1. /\ pending \in Seq(ReadWord) /\ taken \in Seq(ReadWord) /\ NewWords \in Seq(ReadWord)
        /\ pending' = pending \o NewWords /\ taken' = taken \o NewWords
        /\ UNCHANGED <<drawn, shown, finished, spoilt>>
    BY <1>1, <1>11, LinesRead DEF Read, TailTyped, strays
  <2>2. /\ Len(pending') = Len(pending) + Len(NewWords)
        /\ Len(taken') = Len(taken) + Len(NewWords)
        /\ Len(pending) \in Nat /\ Len(taken) \in Nat /\ Len(NewWords) \in Nat
    BY <2>1, ConcatProperties, LenProperties
  <2>3. Len(taken') - Len(pending') = Len(taken) - Len(pending)
    BY <2>2
  <2>4. NumbersWhole' => NumbersWhole
    <3> SUFFICES ASSUME NumbersWhole', NEW ix \in DOMAIN taken
                 PROVE  taken[ix].part = "whole"
      BY DEF NumbersWhole
    <3>1. ix \in 1 .. Len(taken) /\ ix \in 1 .. Len(taken')
      BY <2>1, <2>2, LenProperties
    <3>2. ix \in DOMAIN taken' /\ taken'[ix] = taken[ix]
      BY <2>1, <2>2, <3>1, ConcatProperties, LenProperties
    <3>3. QED
      BY <3>2 DEF NumbersWhole
  <2>5. QED
    BY <1>6, <2>1, <2>3, <2>4
<1>12. ASSUME NEW t, StrayWrites(t)
       PROVE  ShowsRight'
  BY <1>12 DEF StrayWrites, ShowsRight
<1>13. ASSUME NEW s, StrayOpens(s)
       PROVE  ShowsRight'
  BY <1>13 DEF StrayOpens, ShowsRight
<1>14. ASSUME NEW s, StrayEnds(s)
       PROVE  ShowsRight'
  BY <1>6, <1>14 DEF StrayEnds, counts, NumbersWhole
<1>15. CASE Process
  <2>1. CASE ~(~spoilt /\ NumbersWhole)
    BY <1>15, <2>1 DEF Process, strays, ShowsRight, NumbersWhole
  <2>2. CASE ~spoilt /\ NumbersWhole
    BY <1>15, <2>2, ShowsRightProcessed
  <2>3. QED
    BY <2>1, <2>2
<1>16. QED
  BY <1>4, <1>5, <1>7, <1>8, <1>9, <1>10, <1>11, <1>12, <1>13, <1>14, <1>15, TailActions

\* The invariants say what the type invariant and the property say.
LEMMA TailTypes ==
    TailInv /\ UsedCounted /\ ShowsRight => TailTypeOK /\ DoneIsTrue
<1> SUFFICES ASSUME TailInv, UsedCounted, ShowsRight
             PROVE  TailTypeOK /\ DoneIsTrue
  OBVIOUS
<1>1. TailTyped /\ Finished /\ (~spoilt /\ NumbersWhole => Len(pending) <= Results)
  BY UsedBound DEF TailInv
<1>2. n_events \in Nat /\ n_events <= n /\ n \in Nat
  BY <1>1, Events DEF TailTyped
<1>3. ~spoilt /\ NumbersWhole => drawn \in 0 .. n
  BY <1>1, <1>2 DEF TailTyped, ShowsRight
<1>4. file.text \in 0 .. 3 * Results
  BY TypesOfTail
<1>5. TailTypeOK
  BY <1>1, <1>3, <1>4 DEF TailTyped, TailTypeOK, Phases, SimStates
<1>6. DoneIsTrue
  BY <1>1 DEF Finished, ShowsRight, DoneIsTrue
<1>7. QED
  BY <1>5, <1>6

(***************************************************************************)
(* The status DONE (dvs_*_live.py): it is shown only when the simulator    *)
(* has ended, and then, if every number was read whole, all of its words   *)
(* were used; and no viewer indexes past the end of the recording.  The    *)
(* second and the third until a simulator that an earlier viewer left      *)
(* behind touches the file (spoilt).                                       *)
(***************************************************************************)
THEOREM DoneCorrect == TailSpec => [](TailTypeOK /\ DoneIsTrue)
<1> DEFINE I == TailInv /\ UsedCounted /\ ShowsRight
<1>1. TailInit => I
  BY TailStarts, CountStarts, ShowsRightStarts
<1>2. I /\ [TailNext]_liveTail => I'
  BY TailStep, CountKept, ShowsRightStep
<1>3. I => TailTypeOK /\ DoneIsTrue
  BY TailTypes
<1>4. QED
  BY <1>1, <1>2, <1>3, PTL DEF TailSpec

-----------------------------------------------------------------------------
(***************************************************************************)
(* The rotation: the chip's rotate45 (software/dvs_rotate/main.c), which   *)
(* works on packed words, and its mirror in dvs_rotate_view.py.            *)
(***************************************************************************)

\* The powers of two that occur.
LEMMA Powers == 2^7 = 128 /\ 2^14 = 128 * 128
  OBVIOUS

\* A packed event is unpacked to its fields, whatever is above them.
LEMMA PackedFields ==
    ASSUME NEW h \in Nat, NEW y \in 0 .. 127, NEW x \in 0 .. 127
    PROVE  /\ Pack(h, y, x) \in Nat
           /\ unpack(Pack(h, y, x)) = [x |-> x, y |-> y]
           /\ Pack(h, y, x) \div 2^14 = h
<1> DEFINE w == h * (128 * 128) + y * 128 + x
<1>1. w \in Nat /\ Pack(h, y, x) = w
  BY Powers DEF Pack
<1> HIDE DEF w
<1>2. w = h * (128 * 128) + y * 128 + x
  BY DEF w
<1>3. w % 128 = x
  BY <1>2
<1>4. w \div 128 = h * 128 + y
  BY <1>2
<1>5. (w \div 128) % 128 = y
  BY <1>4
<1>6. w \div (128 * 128) = h
  BY <1>2
<1>7. QED
  BY <1>1, <1>3, <1>5, <1>6, Powers DEF unpack

\* What the assumption says of the bits above the fields.
LEMMA HighNat ==
    ASSUME NEW h \in HighBits
    PROVE  h \in Nat
  BY RotationAssumption DEF RotationAssumption

\* The shift of a negative number rounds down, as Python's // does.
LEMMA HalfIsFloor ==
    ASSUME NEW v \in Int
    PROVE  Half(v) \in Int /\ (v - (v % 2)) \div 2 = Half(v)
  BY DEF Half

\* Both turn a pixel to the same one, inside the sensor, and the chip leaves
\* the bits above the fields as they were.
LEMMA RotatedAlike ==
    ASSUME NEW h \in Nat, NEW y \in 0 .. 127, NEW x \in 0 .. 127
    PROVE  LET w == rotate45(Pack(h, y, x)) IN
           /\ w \in Nat
           /\ unpack(w) = mirrored(x, y)
           /\ w \div 2^14 = h
           /\ unpack(w).x < WIDTH /\ unpack(w).y < HEIGHT
<1> DEFINE a == (x - CX) - (y - CY)
           b == (x - CX) + (y - CY)
           nx == clampi(Half(a) + CX, 0, WIDTH - 1)
           ny == clampi(Half(b) + CY, 0, HEIGHT - 1)
<1>1. CX = 63 /\ CY = 56 /\ WIDTH = 126 /\ HEIGHT = 112
  BY DEF CX, CY, WIDTH, HEIGHT
<1>2. a \in Int /\ b \in Int
  BY <1>1
<1>3. Half(a) \in Int /\ Half(b) \in Int
  BY <1>2, HalfIsFloor
<1>4. nx \in 0 .. 125 /\ ny \in 0 .. 111
  BY <1>1, <1>3 DEF clampi
<1>5. rotate45(Pack(h, y, x)) = Pack(h, ny, nx)
  <2>1. /\ unpack(Pack(h, y, x)) = [x |-> x, y |-> y]
        /\ Pack(h, y, x) \div 2^14 = h
    BY PackedFields
  <2> DEFINE r == [x |-> x, y |-> y]
  <2>2. r.x = x /\ r.y = y
    OBVIOUS
  <2> HIDE DEF r
  <2>3. unpack(Pack(h, y, x)).x = x /\ unpack(Pack(h, y, x)).y = y
    BY <2>1, <2>2 DEF r
  <2>4. QED
    BY <2>1, <2>3, Zenon DEF rotate45
<1>6. mirrored(x, y) = [x |-> nx, y |-> ny]
  <2>1. (a - (a % 2)) \div 2 = Half(a) /\ (b - (b % 2)) \div 2 = Half(b)
    BY <1>2, HalfIsFloor
  <2> HIDE DEF a, b
  <2>2. mirrored(x, y) =
            [x |-> LET f == (a - (a % 2)) \div 2 + CX
                       c == IF f >= 0 THEN f ELSE 0
                   IN  IF WIDTH - 1 <= c THEN WIDTH - 1 ELSE c,
             y |-> LET f == (b - (b % 2)) \div 2 + CY
                       c == IF f >= 0 THEN f ELSE 0
                   IN  IF HEIGHT - 1 <= c THEN HEIGHT - 1 ELSE c]
    BY Zenon DEF mirrored, a, b
  <2>3. QED
    BY <1>1, <1>3, <2>1, <2>2 DEF clampi
<1> HIDE DEF nx, ny
<1>7. /\ Pack(h, ny, nx) \in Nat
      /\ unpack(Pack(h, ny, nx)) = [x |-> nx, y |-> ny]
      /\ Pack(h, ny, nx) \div 2^14 = h
  <2>1. ny \in 0 .. 127 /\ nx \in 0 .. 127
    BY <1>4
  <2>2. QED
    BY <2>1, PackedFields
<1>8. nx < WIDTH /\ ny < HEIGHT
  BY <1>1, <1>4
<1>9. QED
  BY <1>5, <1>6, <1>7, <1>8

\* An event is packed from fields of their width.
RotationTypeOK ==
    \E h \in HighBits, y, x \in 0 .. 2^7 - 1 : event = Pack(h, y, x)

\* The rotation of one event after another.
RotationSpec == RotationInit /\ [][Rotate]_turning

(***************************************************************************)
(* dvs_rotate_view.py draws each event where the chip puts it, for every   *)
(* pixel and whatever is above the fields; no event leaves the sensor, and *)
(* the bits above the fields are kept.                                     *)
(***************************************************************************)
THEOREM RotationCorrect == RotationSpec => []RotationsAgree
<1>1. RotationInit => RotationTypeOK /\ RotationsAgree
  BY DEF RotationInit, RotationTypeOK, RotationsAgree
<1>2. RotationTypeOK /\ RotationsAgree /\ [Rotate]_turning
          => (RotationTypeOK /\ RotationsAgree)'
  <2> SUFFICES ASSUME RotationTypeOK, RotationsAgree, [Rotate]_turning
               PROVE  (RotationTypeOK /\ RotationsAgree)'
    OBVIOUS
  <2>1. event' = event
    BY DEF Rotate, turning
  <2>2. RotationTypeOK'
    BY <2>1 DEF RotationTypeOK
  <2>3. CASE Rotate
    <3>1. PICK h \in HighBits, y \in 0 .. 127, x \in 0 .. 127 : event = Pack(h, y, x)
      <4>1. 2^7 - 1 = 127
        BY Powers
      <4>2. QED
        BY <4>1, Zenon DEF RotationTypeOK
    <3>2. h \in Nat
      BY HighNat
    <3>3. /\ unpack(event) = [x |-> x, y |-> y] /\ event \div 2^14 = h
          /\ result' = rotate45(Pack(h, y, x))
      BY <2>3, <3>1, <3>2, PackedFields DEF Rotate
    <3>4. /\ unpack(result') = mirrored(x, y)
          /\ result' \div 2^14 = h
          /\ unpack(result').x < WIDTH /\ unpack(result').y < HEIGHT
      BY <3>2, <3>3, RotatedAlike
    <3>5. unpack(event').x = x /\ unpack(event').y = y /\ event' \div 2^14 = h
      BY <2>1, <3>3
    <3>6. RotationsAgree'
      BY <3>4, <3>5, Zenon DEF RotationsAgree
    <3>7. QED
      BY <2>2, <3>6
  <2>4. CASE UNCHANGED turning
    BY <2>2, <2>4 DEF turning, RotationsAgree
  <2>5. QED
    BY <2>3, <2>4
<1>3. QED
  BY <1>1, <1>2, PTL DEF RotationSpec

-----------------------------------------------------------------------------
(***************************************************************************)
(* The players of recordings (dvs_replay.py, dvs_motion_view.py,           *)
(* dvs_rotate_view.py).                                                    *)
(***************************************************************************)

\* What a player was started with.
ArgumentsOK ==
    /\ player \in Players /\ size \in Captures /\ repeat \in BOOLEAN
    /\ file_words \in IF player = "replay" THEN {Computed}
                      ELSE ResultFiles \cup {Computed}

\* What division by a positive number gives.
LEMMA Quotient ==
    ASSUME NEW a \in Nat, NEW m \in Nat \ {0}
    PROVE  /\ a \div m \in Nat /\ m * (a \div m) \in Nat
           /\ m * (a \div m) <= a /\ a < m * ((a \div m) + 1)
  OBVIOUS

\* The length a player goes by, and how much of it was recorded.
LEMMA Lengths ==
    ASSUME ArgumentsOK
    PROVE  /\ player \in {"replay", "motion", "rotate"}
           /\ player = "replay" => length = size /\ Recorded = size
           /\ player = "motion" => length = Cut /\ Recorded = Cut
           /\ player = "rotate" => length = ResultCount /\ Recorded = Lesser(size, ResultCount)
<1>1. player \in {"replay", "motion", "rotate"}
  BY PlaybackAssumption DEF PlaybackAssumption, ArgumentsOK
<1>2. CASE player = "replay"
  BY <1>2 DEF length, Recorded
<1>3. CASE player = "motion"
  BY <1>3 DEF length, Recorded
<1>4. CASE player = "rotate"
  BY <1>4 DEF length, Recorded
<1>5. QED
  BY <1>1, <1>2, <1>3, <1>4

\* Only a longer file of results makes it go past what was recorded.
LEMMA LengthFacts ==
    ASSUME ArgumentsOK
    PROVE  /\ length \in Nat /\ Recorded \in Nat /\ ResultCount \in Nat /\ size \in Nat
           /\ Recorded <= length
           /\ Recorded = length \/ (player = "rotate" /\ file_words > size)
           /\ player = "motion" => \E g \in Nat : /\ g <= ResultCount
                                                  /\ length = g * PER_WORD
<1>1. size \in Nat \ {0} /\ PER_WORD \in Nat \ {0}
  BY PlaybackAssumption DEF PlaybackAssumption, ArgumentsOK
<1>2. size \div PER_WORD \in Nat
  BY <1>1, Quotient
<1>3. ResultCount \in Nat
  <2>1. CASE file_words # Computed
    <3>1. ResultCount = file_words
      BY <2>1, Zenon DEF ResultCount
    <3>2. QED
      BY <2>1, <3>1, PlaybackAssumption DEF PlaybackAssumption, ArgumentsOK
  <2>2. CASE file_words = Computed
    <3>1. player = "motion" => ResultCount = size \div PER_WORD
      BY <2>2 DEF ResultCount
    <3>2. player = "rotate" => ResultCount = size
      BY <2>2 DEF ResultCount
    <3>3. player = "replay" => ResultCount = 0
      BY <2>2 DEF ResultCount
    <3>4. QED
      BY <1>1, <1>2, <3>1, <3>2, <3>3, Lengths
  <2>3. QED
    BY <2>1, <2>2
<1>4. player = "rotate" /\ file_words = Computed => ResultCount = size
  BY DEF ResultCount
<1>5. player = "rotate" /\ file_words # Computed => ResultCount = file_words
  BY DEF ResultCount
<1>6. CASE player = "replay"
  BY <1>1, <1>3, <1>6, Lengths
<1>7. CASE player = "rotate"
  BY <1>1, <1>3, <1>4, <1>5, <1>7, Lengths DEF Lesser
<1>8. CASE player = "motion"
  <2> DEFINE g == Lesser(size \div PER_WORD, ResultCount)
  <2>1. g \in Nat /\ g <= ResultCount
    BY <1>2, <1>3 DEF Lesser
  <2>2. Cut = g * PER_WORD
    BY DEF Cut
  <2> HIDE DEF g
  <2>3. Cut \in Nat
    BY <1>1, <2>1, <2>2
  <2>4. length = Cut /\ Recorded = Cut
    BY <1>8, Lengths
  <2>5. QED
    BY <1>1, <1>3, <1>8, <2>1, <2>2, <2>3, <2>4
<1>9. QED
  BY <1>6, <1>7, <1>8, Lengths

\* Both panels show the events before i, each where it is shown at all.
Panels(s) == /\ s.raw = 0 .. s.i - 1
             /\ s.turned = IF player = "rotate" THEN s.raw ELSE {}
             /\ length > 0 => s.i <= length

\* Screens of that kind.
Screens == {s \in [i : Nat, raw : SUBSET Nat, turned : SUBSET Nat] : Panels(s)}

\* Drawing event j on such a screen makes the next one.
LEMMA StampedScreen ==
    ASSUME NEW j \in Nat, NEW t, t = IF player = "rotate" THEN 0 .. j - 1 ELSE {}
    PROVE  /\ StampAt([i |-> j, raw |-> 0 .. j - 1, turned |-> t])
                  = [i |-> j + 1, raw |-> 0 .. (j + 1) - 1,
                     turned |-> IF player = "rotate" THEN 0 .. (j + 1) - 1 ELSE {}]
<1>1. (0 .. j - 1) \cup {j} = 0 .. (j + 1) - 1
  OBVIOUS
<1>2. CASE player = "rotate"
  BY <1>1, <1>2 DEF StampAt
<1>3. CASE player # "rotate"
  BY <1>1, <1>3 DEF StampAt
<1>4. QED
  BY <1>2, <1>3

\* And i is all there is to such a screen.
LEMMA ScreenIs ==
    ASSUME NEW s \in Screens
    PROVE  s = [i |-> s.i, raw |-> 0 .. s.i - 1,
                turned |-> IF player = "rotate" THEN 0 .. s.i - 1 ELSE {}]
  BY DEF Screens, Panels

\* An event, or a start over, makes another.
LEMMA OneEventKeeps ==
    ASSUME ArgumentsOK, NEW s \in Screens
    PROVE  OneEvent(s) \in Screens
<1> DEFINE Sc(j) == [i |-> j, raw |-> 0 .. j - 1,
                     turned |-> IF player = "rotate" THEN 0 .. j - 1 ELSE {}]
<1>1. length \in Nat /\ s.i \in Nat /\ s = Sc(s.i)
  BY LengthFacts, ScreenIs DEF Screens
<1>2. ASSUME NEW j \in Nat, length > 0 => j <= length
      PROVE  Sc(j) \in Screens
  <2>1. Sc(j) \in [i : Nat, raw : SUBSET Nat, turned : SUBSET Nat]
    OBVIOUS
  <2>2. Panels(Sc(j))
    BY <1>2 DEF Panels
  <2>3. QED
    BY <2>1, <2>2 DEF Screens
<1>3. \A j \in Nat : StampAt(Sc(j)) = Sc(j + 1)
  BY StampedScreen
<1>4. StartOver(s) = Sc(0)
  BY DEF StartOver
<1> HIDE DEF Sc
<1>5. CASE More(s)
  <2>1. OneEvent(s) = Sc(s.i + 1) /\ s.i < length
    BY <1>1, <1>3, <1>5 DEF OneEvent, More
  <2>2. QED
    BY <1>1, <1>2, <2>1
<1>6. CASE ~More(s) /\ repeat
  <2>1. OneEvent(s) = Sc(0 + 1)
    BY <1>3, <1>4, <1>6 DEF OneEvent
  <2>2. QED
    BY <1>1, <1>2, <2>1
<1>7. CASE ~More(s) /\ ~repeat
  BY <1>7 DEF OneEvent
<1>8. QED
  BY <1>5, <1>6, <1>7

\* And so does a frame, which is a recursive function of its events.
LEMMA FramesKeep ==
    ASSUME ArgumentsOK, Screen \in Screens
    PROVE  \A k \in 0 .. FrameEvents : Frames[k] \in Screens
<1> DEFINE S == [p \in (1 .. FrameEvents) \X Screens |-> OneEvent(p[2])]
<1>1. FrameEvents \in Nat
  BY PlaybackAssumption DEF PlaybackAssumption
<1>2. S \in [(1 .. FrameEvents) \X Screens -> Screens]
  BY OneEventKeeps
<1>3. \A k \in 1 .. FrameEvents, s \in Screens : S[<<k, s>>] = OneEvent(s)
  OBVIOUS
<1> HIDE DEF S
<1>4. PICK f \in [0 .. FrameEvents -> Screens] : Goes(f, Screen, S, FrameEvents)
  BY <1>1, <1>2, GoesOn
<1>5. ASSUME NEW k \in 0 .. FrameEvents
      PROVE  f[k] = IF k = 0 THEN Screen ELSE OneEvent(f[k - 1])
  <2>1. CASE k = 0
    BY <1>4, <2>1 DEF Goes
  <2>2. CASE k # 0
    <3>1. k \in 1 .. FrameEvents /\ f[k - 1] \in Screens
      BY <1>1, <1>4, <2>2
    <3>2. f[k] = S[<<k, f[k - 1]>>]
      BY <1>4, <3>1 DEF Goes
    <3>3. QED
      BY <1>3, <2>2, <3>1, <3>2
  <2>3. QED
    BY <2>1, <2>2
<1>6. f = [k \in 0 .. FrameEvents |->
              IF k = 0 THEN Screen ELSE OneEvent(f[k - 1])]
  BY <1>5
<1>7. Frames = [k \in 0 .. FrameEvents |->
                   IF k = 0 THEN Screen ELSE OneEvent(Frames[k - 1])]
  BY <1>6 DEF Frames
<1>8. QED
  <2> DEFINE T == {num \in Nat : num <= FrameEvents => Frames[num] \in Screens}
  <2>1. 0 \in T
    BY <1>1, <1>7
  <2>2. ASSUME NEW num \in Nat, num \in T
        PROVE  num + 1 \in T
    <3> SUFFICES ASSUME num + 1 <= FrameEvents
                 PROVE  Frames[num + 1] \in Screens
      OBVIOUS
    <3>1. Frames[num] \in Screens /\ num + 1 \in 0 .. FrameEvents /\ num + 1 # 0
      BY <1>1, <2>2
    <3>2. Frames[num + 1] = OneEvent(Frames[(num + 1) - 1])
      BY <1>7, <3>1
    <3>3. QED
      BY <3>1, <3>2, OneEventKeeps
  <2> HIDE DEF T
  <2>3. \A num \in 0 .. FrameEvents : num \in T
    BY <2>1, <2>2, Induction
  <2>4. QED
    BY <2>3 DEF T

\* The inductive invariant.
PlaybackInv == ArgumentsOK /\ PlaybackTypeOK /\ Screen \in Screens /\ StaysInside

\* What it says of the variables.
LEMMA ScreenFields ==
    /\ Screen.i = i /\ Screen.raw = raw /\ Screen.turned = turned
    /\ (Screen \in Screens)' <=> Screen' \in Screens'
    /\ Screen \in Screens =>
           /\ i \in Nat /\ raw = 0 .. i - 1
           /\ turned = IF player = "rotate" THEN raw ELSE {}
           /\ length > 0 => i <= length
  BY DEF Screen, Screens, Panels

\* And what makes it.
LEMMA ScreenMakes ==
    ASSUME i \in Nat, raw = 0 .. i - 1,
           turned = IF player = "rotate" THEN raw ELSE {},
           length > 0 => i <= length
    PROVE  Screen \in Screens
  BY DEF Screen, Screens, Panels

\* Nothing but a longer file of results lets a frame run off the recording.
LEMMA OverrunsOnly ==
    ASSUME ArgumentsOK, Screen \in Screens, Overruns
    PROVE  length = 0 \/ (player = "rotate" /\ file_words > size)
<1> SUFFICES ASSUME length # 0, Recorded = length
             PROVE  FALSE
  BY LengthFacts
<1>1. PICK k \in 1 .. FrameEvents : \E e \in Frames[k].raw : e >= Recorded
  BY DEF Overruns
<1>2. k \in 0 .. FrameEvents
  BY PlaybackAssumption DEF PlaybackAssumption
<1>3. Frames[k] \in Screens
  BY <1>2, FramesKeep
<1>4. /\ Frames[k].i \in Nat /\ Frames[k].raw = 0 .. Frames[k].i - 1
      /\ length > 0 => Frames[k].i <= length
  BY <1>3 DEF Screens, Panels
<1>5. PICK e \in 0 .. Frames[k].i - 1 : e >= Recorded
  BY <1>1, <1>4
<1>6. length \in Nat /\ length > 0
  BY LengthFacts
<1>7. QED
  BY <1>4, <1>5, <1>6

\* A frame that does not leaves such a screen, inside the recording.
LEMMA FrameShown ==
    ASSUME ArgumentsOK, Screen \in Screens, ~Overruns
    PROVE  Stamped \in Screens /\ Stamped.i \in 0 .. length
<1>1. FrameEvents \in 0 .. FrameEvents /\ FrameEvents \in 1 .. FrameEvents
  BY PlaybackAssumption DEF PlaybackAssumption
<1>2. Stamped \in Screens
  BY <1>1, FramesKeep DEF Stamped
<1>3. /\ Stamped.i \in Nat /\ Stamped.raw = 0 .. Stamped.i - 1
      /\ length > 0 => Stamped.i <= length
  BY <1>2 DEF Screens, Panels
<1>4. length \in Nat /\ Recorded \in Nat /\ Recorded <= length
  BY LengthFacts
<1>5. \A e \in Stamped.raw : ~(e >= Recorded)
  BY <1>1 DEF Overruns, Stamped
<1>6. length = 0 => Stamped.i = 0
  <2> SUFFICES ASSUME length = 0, Stamped.i # 0
               PROVE  FALSE
    OBVIOUS
  <2>1. 0 \in Stamped.raw
    BY <1>3
  <2>2. QED
    BY <1>4, <1>5, <2>1
<1>7. QED
  BY <1>2, <1>3, <1>4, <1>6

\* A box that is drawn is one of a word of results.
LEMMA BoxesOK ==
    ASSUME ArgumentsOK
    PROVE  /\ \A k \in Nat : Box(k) \in {NoBox} \cup 0 .. ResultCount - 1
           /\ LastWord \in {NoBox} \cup 0 .. ResultCount - 1
<1>1. ResultCount \in Nat /\ PER_WORD \in Nat \ {0}
  BY LengthFacts, PlaybackAssumption DEF PlaybackAssumption
<1>2. ASSUME NEW k \in Nat, ResultCount > 0
      PROVE  BoxAt(k) \in 0 .. ResultCount - 1
  <2>1. k \div PER_WORD \in Nat
    BY <1>1, Quotient
  <2>2. QED
    BY <1>1, <1>2, <2>1 DEF BoxAt, Lesser
<1>3. QED
  BY <1>1, <1>2 DEF Box, LastWord

\* The results and the recording a player was started with stay.
LEMMA ArgumentsKept ==
    ASSUME UNCHANGED arguments
    PROVE  /\ ArgumentsOK => ArgumentsOK'
           /\ length' = length /\ ResultCount' = ResultCount /\ Recorded' = Recorded
           /\ Screens' = Screens
<1> USE DEF arguments
<1>1. ArgumentsOK => ArgumentsOK'
  BY DEF ArgumentsOK
<1>2. ResultCount' = ResultCount
  BY DEF ResultCount
<1>3. length' = length /\ Recorded' = Recorded
  BY <1>2 DEF length, Recorded, Cut
<1>4. Screens' = Screens
  BY <1>3 DEF Screens, Panels
<1>5. QED
  BY <1>1, <1>2, <1>3, <1>4

\* A player at work.
PlaybackSpec == PlaybackInit /\ [][PlaybackNext]_playback

\* A player starts with an empty screen.
LEMMA PlaybackStarts == PlaybackInit => PlaybackInv
<1> SUFFICES ASSUME PlaybackInit
             PROVE  PlaybackInv
  OBVIOUS
<1>1. ArgumentsOK
  BY DEF PlaybackInit, ArgumentsOK
<1>2. length \in Nat /\ ResultCount \in Nat
  BY <1>1, LengthFacts
<1>3. Screen \in Screens
  BY <1>2, ScreenMakes DEF PlaybackInit
<1>4. PlaybackTypeOK /\ StaysInside
  <2>1. i = 0 /\ box = NoBox /\ saved = NoBox /\ running = "loop" /\ paused = FALSE
    BY DEF PlaybackInit
  <2>2. repeat \in BOOLEAN
    BY <1>1 DEF ArgumentsOK
  <2>3. {paused, repeat} \subseteq BOOLEAN
    BY <2>1, <2>2
  <2>4. {box, saved} \subseteq {NoBox} \cup 0 .. ResultCount - 1
    BY <2>1
  <2>5. i \in 0 .. length /\ running \in {"loop", "closed", "raised"}
    BY <1>2, <2>1
  <2>6. StaysInside
    BY <2>1 DEF StaysInside
  <2>7. QED
    BY <2>3, <2>4, <2>5, <2>6, Zenon DEF PlaybackTypeOK
<1>5. QED
  BY <1>1, <1>3, <1>4 DEF PlaybackInv

\* Each step keeps the invariant.
LEMMA PlaybackStep == PlaybackInv /\ [PlaybackNext]_playback => PlaybackInv'
<1> SUFFICES ASSUME PlaybackInv, [PlaybackNext]_playback
             PROVE  PlaybackInv'
  OBVIOUS
<1>1. UNCHANGED arguments
  BY DEF PlaybackNext, PlayFrame, Raises, Redraw, Pause, Rewind, Quit, Headless, playback
<1>2. /\ ArgumentsOK /\ ArgumentsOK' /\ Screens' = Screens /\ length' = length
      /\ ResultCount' = ResultCount
  BY <1>1, ArgumentsKept DEF PlaybackInv
<1>3. length \in Nat /\ ResultCount \in Nat
  BY <1>2, LengthFacts
<1>4. /\ i \in 0 .. length /\ i \in Nat /\ raw = 0 .. i - 1 /\ Screen \in Screens
      /\ turned = IF player = "rotate" THEN raw ELSE {}
      /\ {paused, repeat} \subseteq BOOLEAN /\ running \in {"loop", "closed", "raised"}
      /\ box \in {NoBox} \cup 0 .. ResultCount - 1
      /\ saved \in {NoBox} \cup 0 .. ResultCount - 1
      /\ StaysInside /\ player' = player /\ file_words' = file_words
      /\ size' = size /\ repeat' = repeat
  BY <1>1, ScreenFields DEF PlaybackInv, PlaybackTypeOK, arguments
<1>5. /\ \A k \in Nat : Box(k) \in {NoBox} \cup 0 .. ResultCount - 1
      /\ LastWord \in {NoBox} \cup 0 .. ResultCount - 1
  BY <1>2, BoxesOK
<1>6. \A k : Box(k)' = Box(k)
  BY <1>2, <1>4 DEF Box, BoxAt
<1> DEFINE Fine ==
        /\ running' \in {"loop", "closed", "raised"} /\ paused' \in BOOLEAN
        /\ i' \in 0 .. length /\ Screen' \in Screens
        /\ box' \in {NoBox} \cup 0 .. ResultCount - 1
        /\ saved' \in {NoBox} \cup 0 .. ResultCount - 1
        /\ running' = "raised" =>
               length = 0 \/ (player = "rotate" /\ file_words > size)
<1> DEFINE Same == UNCHANGED <<i, raw, turned>>
<1>7. Same => i' \in 0 .. length /\ Screen' \in Screens
  BY <1>4 DEF Screen
<1>8. running # "raised" \/ length = 0 \/ (player = "rotate" /\ file_words > size)
  BY <1>4 DEF StaysInside
<1>9. ASSUME Fine
      PROVE  PlaybackInv'
  <2>1. PlaybackTypeOK'
    BY <1>2, <1>4, <1>9 DEF PlaybackTypeOK
  <2>2. StaysInside'
    BY <1>2, <1>4, <1>9 DEF StaysInside
  <2>3. QED
    BY <1>2, <1>9, <2>1, <2>2 DEF PlaybackInv
<1>10. CASE PlayFrame
  <2>1. Stamped \in Screens /\ Stamped.i \in 0 .. length /\ Stamped.i \in Nat
    BY <1>2, <1>3, <1>4, <1>10, FrameShown DEF PlayFrame
  <2>2. Screen' = [i |-> Stamped.i, raw |-> Stamped.raw, turned |-> Stamped.turned]
    BY <1>10 DEF PlayFrame, Screen
  <2>3. Screen' = Stamped
    BY <2>1, <2>2 DEF Screens
  <2>4. box' = Box(i') \/ box' = Box(i)
    BY <1>6, <1>10 DEF PlayFrame
  <2>5. i' \in Nat /\ i' \in 0 .. length
    BY <1>10, <2>1 DEF PlayFrame
  <2>6. Fine
    BY <1>4, <1>5, <1>10, <2>1, <2>3, <2>4, <2>5 DEF PlayFrame
  <2>7. QED
    BY <1>9, <2>6
<1>11. CASE Raises
  <2>1. length = 0 \/ (player = "rotate" /\ file_words > size)
    <3>1. CASE Overruns
      BY <1>2, <1>4, <3>1, OverrunsOnly
    <3>2. CASE Recorded < length
      BY <1>2, <3>2, LengthFacts
    <3>3. QED
      BY <1>11, <3>1, <3>2 DEF Raises
  <2>2. Fine
    BY <1>4, <1>7, <1>11, <2>1 DEF Raises
  <2>3. QED
    BY <1>9, <2>2
<1>12. CASE Redraw
  <2>1. Fine
    BY <1>4, <1>5, <1>7, <1>8, <1>12 DEF Redraw
  <2>2. QED
    BY <1>9, <2>1
<1>13. CASE Pause
  <2>1. Fine
    BY <1>4, <1>7, <1>8, <1>13 DEF Pause
  <2>2. QED
    BY <1>9, <2>1
<1>14. CASE Rewind
  <2>1. i' = 0 /\ raw' = 0 .. 0 - 1
    BY <1>14 DEF Rewind
  <2>2. Screen' = [i |-> 0, raw |-> 0 .. 0 - 1, turned |-> {}]
    BY <1>14 DEF Rewind, Screen
  <2>3. Screen' \in Screens
    <3> DEFINE s == [i |-> 0, raw |-> 0 .. 0 - 1, turned |-> {}]
    <3>1. s \in [i : Nat, raw : SUBSET Nat, turned : SUBSET Nat]
      OBVIOUS
    <3>2. s.i = 0 /\ s.raw = {} /\ s.turned = {} /\ 0 .. s.i - 1 = {}
      OBVIOUS
    <3> HIDE DEF s
    <3>3. Panels(s)
      BY <1>3, <3>2 DEF Panels
    <3>4. s \in Screens
      BY <3>1, <3>3 DEF Screens
    <3>5. QED
      BY <2>2, <3>4 DEF s
  <2>4. Fine
    BY <1>3, <1>4, <1>8, <1>14, <2>1, <2>3 DEF Rewind
  <2>5. QED
    BY <1>9, <2>4
<1>15. CASE Quit
  <2>1. Fine
    BY <1>4, <1>5, <1>7, <1>15 DEF Quit
  <2>2. QED
    BY <1>9, <2>1
<1>16. CASE Headless
  <2>1. Screen' = [i |-> length, raw |-> 0 .. length - 1,
                   turned |-> IF player = "rotate" THEN 0 .. length - 1 ELSE {}]
    BY <1>16 DEF Headless, Screen
  <2>2. Screen' \in Screens
    BY <1>3, <2>1 DEF Screens, Panels
  <2>3. i' \in 0 .. length
    BY <1>3, <1>16 DEF Headless
  <2>4. Fine
    BY <1>4, <1>5, <1>16, <2>2, <2>3 DEF Headless
  <2>5. QED
    BY <1>9, <2>4
<1>17. CASE UNCHANGED playback
  <2>1. Fine
    BY <1>4, <1>7, <1>8, <1>17 DEF playback
  <2>2. QED
    BY <1>9, <2>1
<1>18. QED
  BY <1>10, <1>11, <1>12, <1>13, <1>14, <1>15, <1>16, <1>17 DEF PlaybackNext

\* The box of a frame is that of the last whole group of events before it.
LEMMA BoxStep ==
    ASSUME PlaybackInv, PlayFrame, player = "motion", i' >= PER_WORD
    PROVE  PER_WORD * (box' + 1) <= i' /\ i' < PER_WORD * (box' + 2)
<1>1. ArgumentsOK /\ Screen \in Screens /\ UNCHANGED arguments
  BY DEF PlaybackInv, PlayFrame
<1>2. i' = Stamped.i /\ Stamped.i \in 0 .. length
  BY <1>1, FrameShown DEF PlayFrame
<1>3. PICK g \in Nat : g <= ResultCount /\ length = g * PER_WORD
  BY <1>1, LengthFacts
<1>4. PER_WORD \in Nat \ {0} /\ ResultCount \in Nat /\ i' \in Nat /\ i' <= length
  BY <1>1, <1>2, LengthFacts, PlaybackAssumption DEF PlaybackAssumption
<1> DEFINE q == i' \div PER_WORD
<1>5. /\ q \in Nat /\ PER_WORD * q <= i' /\ i' < PER_WORD * (q + 1)
      /\ i' \div PER_WORD = q
  BY <1>4, Quotient
<1> HIDE DEF q
<1>6. 1 <= q
  <2> SUFFICES ASSUME q = 0
               PROVE  FALSE
    BY <1>5
  <2>1. QED
    BY <1>4, <1>5
<1>7. q <= g
  <2> SUFFICES ASSUME g + 1 <= q
               PROVE  FALSE
    BY <1>3, <1>5
  <2>1. PICK d \in Nat : q = g + 1 + d
    BY <1>3, <1>5
  <2>2. PER_WORD * q = g * PER_WORD + PER_WORD + PER_WORD * d /\ PER_WORD * d \in Nat
    BY <1>3, <1>4, <2>1
  <2>3. QED
    BY <1>3, <1>4, <1>5, <2>2
<1>8. box' = BoxAt(i')
  <2>1. box' = Box(i') /\ ResultCount > 0
    <3>1. ResultCount > 0
      BY <1>3, <1>4, <1>6, <1>7
    <3>2. box' = Box(i')
      BY DEF PlayFrame
    <3>3. QED
      BY <3>1, <3>2
  <2>2. QED
    BY <2>1, Zenon DEF Box
<1>9. BoxAt(i') = q - 1
  <2>1. q - 1 <= ResultCount - 1 /\ q - 1 \in Int /\ ~(q - 1 < 0)
    BY <1>3, <1>4, <1>5, <1>6, <1>7
  <2>2. Lesser(ResultCount - 1, q - 1) = q - 1
    BY <1>4, <2>1 DEF Lesser
  <2>3. QED
    BY <1>5, <2>1, <2>2, Zenon DEF BoxAt
<1>10. box' + 1 = q /\ box' + 2 = q + 1
  BY <1>5, <1>8, <1>9
<1>11. QED
  BY <1>5, <1>10

(***************************************************************************)
(* Type correctness of the players, for every recording, every file of     *)
(* results and every size of a frame.                                      *)
(***************************************************************************)
THEOREM PlaybackTyped == PlaybackSpec => []PlaybackTypeOK
<1>1. PlaybackInv => PlaybackTypeOK
  BY DEF PlaybackInv
<1>2. QED
  BY <1>1, PlaybackStarts, PlaybackStep, PTL DEF PlaybackSpec

(***************************************************************************)
(* The pictures are true (dvs_replay.py, dvs_motion_view.py,               *)
(* dvs_rotate_view.py): a player without repeat goes through the recording *)
(* once, the panels show the same events, and the box is that of the newest *)
(* group; a player runs off the recording only with a longer results file. *)
(***************************************************************************)
THEOREM ScreenCorrect == PlaybackSpec => ScreenIsTrue
<1>1. PlaybackInv => OnePass /\ StaysInside
  BY ScreenFields DEF PlaybackInv, OnePass
<1>2. PlaybackInv /\ [PlaybackNext]_playback =>
          [PlayFrame /\ player = "motion" /\ i' >= PER_WORD =>
              /\ PER_WORD * (box' + 1) <= i'
              /\ i' < PER_WORD * (box' + 2)]_playback
  BY BoxStep
<1>3. QED
  BY <1>1, <1>2, PlaybackStarts, PlaybackStep, PTL
  DEF PlaybackSpec, ScreenIsTrue, BoxOfNewestGroup

-----------------------------------------------------------------------------
(***************************************************************************)
(* The motion detector of the chip and the host's mirror of it             *)
(* (dvs_motion_blob_live.py).                                              *)
(***************************************************************************)

\* Counters are bytes.
Grids == [Cells -> 0 .. CAP]

\* The numbers of the code, so that no proof expands them.
LEMMA MotionNumbers ==
    /\ CELL = 32 /\ CAP = 255 /\ STEP = 32 /\ SX = 126 /\ SY = 112 /\ THRESHOLD = 96
    /\ Cells = 0 .. 15 /\ 2^3 = 8 /\ 2^6 = 64 /\ 2^8 = 256 /\ 2^14 = 256 * 64 /\ 2^15 = 256 * 64 + 256 * 64
  BY DEF CELL, CELL_SHIFT, CAP, STEP, SX, SY, THRESHOLD, Cells, GRID_COLS

\* One event is counted.
Counted(g, p) == [g EXCEPT ![CellOf(p)] = Saturated(@ + STEP)]

\* The cell of a pixel is one of the sixteen.
LEMMA PixelCells ==
    ASSUME NEW p \in Pixels
    PROVE  /\ p[1] \in 0 .. 125 /\ p[2] \in 0 .. 111
           /\ CellOf(p) \in Cells
           /\ CellOf(p) \div 4 = p[2] \div 32 /\ CellOf(p) % 4 = p[1] \div 32
<1>1. p \in (0 .. SX - 1) \X (0 .. SY - 1)
  BY MotionAssumption DEF MotionAssumption
<1>2. p[1] \in 0 .. 125 /\ p[2] \in 0 .. 111
  BY <1>1, MotionNumbers
<1>3. p[1] \div 32 \in 0 .. 3 /\ p[2] \div 32 \in 0 .. 3
  BY <1>2
<1>4. CellOf(p) = (p[2] \div 32) * 4 + (p[1] \div 32)
  BY MotionNumbers DEF CellOf
<1>5. QED
  BY <1>2, <1>3, <1>4, MotionNumbers

\* It changes no other cell, and saturates alike in chip and host.
LEMMA CountedOne ==
    ASSUME NEW g \in Grids, NEW p \in Pixels
    PROVE  /\ Counted(g, p) \in Grids
           /\ \A c \in Cells : c # CellOf(p) => Counted(g, p)[c] = g[c]
           /\ Counted(g, p) = [g EXCEPT ![CellOf(p)] = IF @ + STEP < CAP THEN @ + STEP ELSE CAP]
<1>1. CellOf(p) \in Cells
  BY PixelCells
<1>2. g[CellOf(p)] \in 0 .. 255
  BY <1>1, MotionNumbers DEF Grids
<1>3. /\ Saturated(g[CellOf(p)] + STEP) \in 0 .. CAP
      /\ Saturated(g[CellOf(p)] + STEP) = IF g[CellOf(p)] + STEP < CAP THEN g[CellOf(p)] + STEP
                                          ELSE CAP
  BY <1>2, MotionNumbers DEF Saturated
<1>4. QED
  BY <1>1, <1>3 DEF Counted, Grids

\* A cell that is halved twice is below the threshold.
LEMMA HalvedGrid ==
    ASSUME NEW g \in Grids
    PROVE  /\ Halved(g) \in Grids
           /\ \A c \in Cells : /\ Halved(g)[c] <= 128
                               /\ g[c] <= 128 => Halved(g)[c] <= 64
           /\ Halved(g) = [c \in Cells |-> g[c] - g[c] \div 2]
<1>1. \A c \in Cells : g[c] \in 0 .. 255
  BY MotionNumbers DEF Grids
<1>2. \A c \in Cells : /\ Halved(g)[c] = g[c] - g[c] \div 2
                       /\ g[c] - g[c] \div 2 \in 0 .. 128
                       /\ g[c] <= 128 => g[c] - g[c] \div 2 <= 64
  BY <1>1 DEF Halved
<1>3. Halved(g) \in Grids
  <2>1. \A c \in Cells : g[c] - g[c] \div 2 \in 0 .. CAP
    <3> SUFFICES ASSUME NEW c \in Cells
                 PROVE  g[c] - g[c] \div 2 \in 0 .. CAP
      OBVIOUS
    <3> DEFINE rest == g[c] - g[c] \div 2
    <3>1. rest \in 0 .. 128
      BY <1>2
    <3> HIDE DEF rest
    <3>2. rest \in 0 .. CAP
      BY <3>1 DEF CAP
    <3>3. QED
      BY <3>2 DEF rest
  <2>2. QED
    BY <2>1 DEF Halved, Grids
<1>4. QED
  BY <1>2, <1>3 DEF Halved

\* No event of S was in cell c.
Cold(c, S) == \A p \in S : CellOf(p) # c

\* Chip and host count a batch alike, each by its own recursive function;
\* a cell without an event is just halved.
LEMMA Countings ==
    ASSUME NEW g \in Grids, NEW events \in [1 .. BATCH -> Pixels], grid = g
    PROVE  /\ Activity(events) \in Grids
           /\ Step(g, events) = Activity(events)
           /\ \A c \in Cells : (\A idx \in 1 .. BATCH : CellOf(events[idx]) # c) =>
                                   Activity(events)[c] = Halved(g)[c]
<1> DEFINE S == [q \in (1 .. BATCH) \X Grids |-> Counted(q[2], events[q[1]])]
<1>1. BATCH \in Nat /\ Halved(g) \in Grids
  BY MotionAssumption, HalvedGrid DEF MotionAssumption
<1>2. S \in [(1 .. BATCH) \X Grids -> Grids]
  BY CountedOne
<1>3. \A idx \in 1 .. BATCH, h \in Grids : S[<<idx, h>>] = Counted(h, events[idx])
  OBVIOUS
<1> HIDE DEF S
<1>4. PICK f \in [0 .. BATCH -> Grids] : Goes(f, Halved(g), S, BATCH)
  BY <1>1, <1>2, GoesOn
<1>5. \A idx \in 1 .. BATCH : f[idx - 1] \in Grids /\ f[idx] = Counted(f[idx - 1], events[idx])
  <2> TAKE idx \in 1 .. BATCH
  <2>1. idx - 1 \in 0 .. BATCH
    BY <1>1
  <2>2. f[idx - 1] \in Grids
    BY <2>1
  <2>3. QED
    BY <1>3, <1>4, <2>2 DEF Goes
<1>6. f[0] = Halved(g)
  BY <1>4 DEF Goes
<1>7. \A idx \in 0 .. BATCH : idx # 0 => idx \in 1 .. BATCH
  BY <1>1
<1>8. f = [idx \in 0 .. BATCH |->
              IF idx = 0 THEN Halved(grid)
              ELSE [f[idx - 1] EXCEPT ![CellOf(events[idx])] = Saturated(@ + STEP)]]
  BY <1>5, <1>6, <1>7 DEF Counted
<1>9. f = [idx \in 0 .. BATCH |->
              IF idx = 0 THEN [c \in Cells |-> g[c] - g[c] \div 2]
              ELSE [f[idx - 1] EXCEPT ![CellOf(events[idx])] =
                       IF @ + STEP < CAP THEN @ + STEP ELSE CAP]]
  <2>1. \A idx \in 1 .. BATCH : f[idx] = [f[idx - 1] EXCEPT ![CellOf(events[idx])] =
                                         IF @ + STEP < CAP THEN @ + STEP ELSE CAP]
    BY <1>5, CountedOne
  <2>2. f[0] = [c \in Cells |-> g[c] - g[c] \div 2]
    BY <1>6, HalvedGrid
  <2>3. QED
    BY <1>7, <2>1, <2>2
<1> DEFINE Act == CHOOSE h : h = [idx \in 0 .. BATCH |->
              IF idx = 0 THEN Halved(grid)
              ELSE [h[idx - 1] EXCEPT ![CellOf(events[idx])] = Saturated(@ + STEP)]]
<1> DEFINE Stp == CHOOSE h : h = [idx \in 0 .. BATCH |->
              IF idx = 0 THEN [c \in Cells |-> g[c] - g[c] \div 2]
              ELSE [h[idx - 1] EXCEPT ![CellOf(events[idx])] =
                       IF @ + STEP < CAP THEN @ + STEP ELSE CAP]]
<1>10. Activity(events) = Act[BATCH]
  BY DEF Activity
<1>11. Step(g, events) = Stp[BATCH]
  BY DEF Step
<1>12. Act = [idx \in 0 .. BATCH |->
              IF idx = 0 THEN Halved(grid)
              ELSE [Act[idx - 1] EXCEPT ![CellOf(events[idx])] = Saturated(@ + STEP)]]
  BY <1>8
<1>13. Stp = [idx \in 0 .. BATCH |->
              IF idx = 0 THEN [c \in Cells |-> g[c] - g[c] \div 2]
              ELSE [Stp[idx - 1] EXCEPT ![CellOf(events[idx])] =
                       IF @ + STEP < CAP THEN @ + STEP ELSE CAP]]
  BY <1>9
<1> HIDE DEF Act, Stp
<1>14. Act[BATCH] = f[BATCH]
  <2> DEFINE T == {idx \in Nat : idx <= BATCH => Act[idx] = f[idx]}
  <2>1. 0 \in T
    BY <1>1, <1>6, <1>12
  <2>2. ASSUME NEW idx \in Nat, idx \in T
        PROVE  idx + 1 \in T
    <3> SUFFICES ASSUME idx + 1 <= BATCH
                 PROVE  Act[idx + 1] = f[idx + 1]
      OBVIOUS
    <3>1. idx + 1 \in 1 .. BATCH /\ idx + 1 \in 0 .. BATCH /\ idx + 1 # 0 /\ (idx + 1) - 1 = idx
          /\ Act[idx] = f[idx]
      BY <1>1, <2>2
    <3>2. f[idx + 1] = Counted(f[idx], events[idx + 1])
      BY <1>5, <3>1
    <3>3. Act[idx + 1] = [Act[(idx + 1) - 1] EXCEPT ![CellOf(events[idx + 1])] = Saturated(@ + STEP)]
      BY <1>12, <3>1
    <3>4. QED
      BY <3>1, <3>2, <3>3 DEF Counted
  <2> HIDE DEF T
  <2>3. BATCH \in T
    BY <1>1, <2>1, <2>2, Induction
  <2>4. QED
    BY <1>1, <2>3 DEF T
<1>15. Stp[BATCH] = f[BATCH]
  <2> DEFINE T == {idx \in Nat : idx <= BATCH => Stp[idx] = f[idx]}
  <2>1. 0 \in T
    BY <1>1, <1>9, <1>13
  <2>2. ASSUME NEW idx \in Nat, idx \in T
        PROVE  idx + 1 \in T
    <3> SUFFICES ASSUME idx + 1 <= BATCH
                 PROVE  Stp[idx + 1] = f[idx + 1]
      OBVIOUS
    <3>1. idx + 1 \in 0 .. BATCH /\ idx + 1 # 0 /\ (idx + 1) - 1 = idx /\ Stp[idx] = f[idx]
      BY <1>1, <2>2
    <3>2. f[idx + 1] = [f[(idx + 1) - 1] EXCEPT ![CellOf(events[idx + 1])] =
                         IF @ + STEP < CAP THEN @ + STEP ELSE CAP]
      BY <1>9, <3>1
    <3>3. Stp[idx + 1] = [Stp[(idx + 1) - 1] EXCEPT ![CellOf(events[idx + 1])] =
                           IF @ + STEP < CAP THEN @ + STEP ELSE CAP]
      BY <1>13, <3>1
    <3>4. QED
      BY <3>1, <3>2, <3>3
  <2> HIDE DEF T
  <2>3. BATCH \in T
    BY <1>1, <2>1, <2>2, Induction
  <2>4. QED
    BY <1>1, <2>3 DEF T
<1>16. BATCH \in 0 .. BATCH
  BY <1>1
<1>17. ASSUME NEW c \in Cells, \A idx \in 1 .. BATCH : CellOf(events[idx]) # c
       PROVE  f[BATCH][c] = Halved(g)[c]
  <2> DEFINE T == {idx \in Nat : idx <= BATCH => f[idx][c] = Halved(g)[c]}
  <2>1. 0 \in T
    BY <1>6
  <2>2. ASSUME NEW idx \in Nat, idx \in T
        PROVE  idx + 1 \in T
    <3> SUFFICES ASSUME idx + 1 <= BATCH
                 PROVE  f[idx + 1][c] = Halved(g)[c]
      OBVIOUS
    <3>1. idx + 1 \in 1 .. BATCH /\ (idx + 1) - 1 = idx /\ f[idx][c] = Halved(g)[c]
      BY <1>1, <2>2
    <3>2. f[idx] \in Grids /\ f[idx + 1] = Counted(f[idx], events[idx + 1])
      BY <1>5, <3>1
    <3>3. events[idx + 1] \in Pixels /\ c # CellOf(events[idx + 1])
      BY <1>17, <3>1
    <3>4. f[idx + 1][c] = f[idx][c]
      BY <3>2, <3>3, CountedOne
    <3>5. QED
      BY <3>1, <3>4
  <2> HIDE DEF T
  <2>3. BATCH \in T
    BY <1>1, <2>1, <2>2, Induction
  <2>4. QED
    BY <1>1, <2>3 DEF T
<1>18. f[BATCH] \in Grids
  BY <1>16
<1>19. QED
  BY <1>10, <1>11, <1>14, <1>15, <1>17, <1>18

\* The order of bytes, for the comparisons below.
LEMMA Orders ==
    \A a, b \in 0 .. 255 : /\ a <= b /\ b <= a => a = b
                           /\ a <= b /\ a # b => a < b
                           /\ 255 - a <= 255 - b => b <= a
  OBVIOUS

\* Both find the same hottest cell, the first of equal ones.
LEMMA OneFirstMax ==
    ASSUME NEW g \in Grids
    PROVE  \E c \in Cells :
              /\ Hottest(g) = c /\ FirstMax(g) = c
              /\ \A d \in Cells : g[d] <= g[c]
<1>1. \A c \in Cells : g[c] \in 0 .. 255
  BY MotionNumbers DEF Grids
<1>2. PICK top \in Cells : \A d \in Cells : g[d] <= g[top]
  <2> DEFINE T == {255 - g[c] : c \in Cells}
  <2>1. T \subseteq Nat /\ T # {}
    <3>1. \A c \in Cells : 255 - g[c] \in Nat
      BY <1>1
    <3>2. 0 \in Cells
      BY MotionNumbers
    <3>3. QED
      BY <3>1, <3>2
  <2>2. PICK num \in T : \A m \in T : num <= m
    BY <2>1, LeastElement
  <2>3. PICK top \in Cells : num = 255 - g[top]
    BY <2>2
  <2>4. \A d \in Cells : 255 - g[top] <= 255 - g[d]
    BY <2>2, <2>3
  <2>5. ASSUME NEW d \in Cells
        PROVE  g[d] <= g[top]
    <3>1. g[d] \in 0 .. 255 /\ g[top] \in 0 .. 255
      BY <1>1
    <3>2. 255 - g[top] <= 255 - g[d]
      BY <2>4
    <3>3. QED
      BY <3>1, <3>2, Orders, Zenon
  <2>6. QED
    BY <2>5
<1>3. PICK c \in Cells : g[c] = g[top] /\ \A d \in Cells : g[d] = g[top] => c <= d
  <2> DEFINE T == {d \in Cells : g[d] = g[top]}
  <2>1. T \subseteq Nat /\ T # {}
    BY MotionNumbers
  <2>2. PICK num \in T : \A m \in T : num <= m
    BY <2>1, LeastElement
  <2>3. QED
    BY <2>2
<1>4. \A d \in Cells : g[d] <= g[c]
  BY <1>2, <1>3
<1>5. \A d \in Cells : d < c => g[d] < g[c]
  <2> TAKE d \in Cells
  <2> HAVE d < c
  <2>1. g[d] # g[c]
    BY <1>3, MotionNumbers
  <2>2. g[d] \in 0 .. 255 /\ g[c] \in 0 .. 255 /\ g[d] <= g[c]
    BY <1>1, <1>4
  <2>3. QED
    BY <2>1, <2>2, Orders, Zenon
<1>6. \A b \in Cells : (\A d \in Cells : g[d] <= g[b] /\ (d < b => g[d] < g[b])) => b = c
  <2> TAKE b \in Cells
  <2> HAVE \A d \in Cells : g[d] <= g[b] /\ (d < b => g[d] < g[b])
  <2>1. g[b] = g[c]
    <3>1. g[b] \in 0 .. 255 /\ g[c] \in 0 .. 255
      BY <1>1
    <3>2. g[c] <= g[b] /\ g[b] <= g[c]
      BY <1>4
    <3>3. QED
      BY <3>1, <3>2, Orders, Zenon
  <2>2. ~(c < b) /\ ~(b < c)
    BY <1>1, <1>5, <2>1
  <2>3. QED
    BY <2>2, MotionNumbers
<1>7. \A d \in 0 .. c - 1 : d \in Cells /\ d < c
  BY MotionNumbers
<1>8. \A b \in Cells : (/\ \A d \in Cells : g[d] <= g[b]
                        /\ \A d \in 0 .. b - 1 : g[d] # g[b]) => b = c
  <2> TAKE b \in Cells
  <2> HAVE /\ \A d \in Cells : g[d] <= g[b]
           /\ \A d \in 0 .. b - 1 : g[d] # g[b]
  <2>1. g[b] = g[c]
    <3>1. g[b] \in 0 .. 255 /\ g[c] \in 0 .. 255
      BY <1>1
    <3>2. g[c] <= g[b] /\ g[b] <= g[c]
      BY <1>4
    <3>3. QED
      BY <3>1, <3>2, Orders, Zenon
  <2>2. ~(c < b)
    BY <2>1, MotionNumbers
  <2>3. ~(b < c)
    BY <1>1, <1>5, <2>1
  <2>4. QED
    BY <2>2, <2>3, MotionNumbers
<1>9. Hottest(g) = c
  BY <1>4, <1>5, <1>6 DEF Hottest
<1>10. FirstMax(g) = c
  <2>1. \A d \in 0 .. c - 1 : g[d] # g[c]
    BY <1>1, <1>5, <1>7
  <2>2. QED
    BY <1>4, <1>8, <2>1 DEF FirstMax
<1>11. QED
  BY <1>4, <1>9, <1>10

\* Words of fifteen bits: a flag above fourteen.
StatusWords == 0 .. 2^15 - 1

\* The word a flag, a byte and two octal digits are packed into.
Fields(m, v, r, k) == m * (256 * 64) + v * 64 + r * 8 + k

\* A flag on top doubles the range.
LEMMA FlagOnTop ==
    ASSUME NEW t \in Nat, NEW m \in 0 .. 1, NEW q \in Nat, q < t
    PROVE  m * t + q \in 0 .. (t + t) - 1
<1>1. q \in 0 .. (t + t) - 1 /\ t + q \in 0 .. (t + t) - 1
  OBVIOUS
<1>2. CASE m = 0
  BY <1>1, <1>2
<1>3. CASE m = 1
  BY <1>1, <1>3
<1>4. QED
  BY <1>2, <1>3

LEMMA FieldsFit ==
    ASSUME NEW m \in 0 .. 1, NEW v \in 0 .. 255, NEW r \in 0 .. 3, NEW k \in 0 .. 3
    PROVE  Fields(m, v, r, k) \in StatusWords
<1> DEFINE t == 256 * 64
           q == v * 64 + r * 8 + k
<1>1. q \in Nat /\ q < t
  OBVIOUS
<1>2. t \in Nat
  OBVIOUS
<1>3. t + t = 2^15
  BY MotionNumbers
<1>4. Fields(m, v, r, k) = m * t + q
  BY DEF Fields
<1> HIDE DEF t, q
<1>5. m * t + q \in 0 .. (t + t) - 1
  BY <1>1, <1>2, FlagOnTop
<1>6. QED
  BY <1>3, <1>4, <1>5, Zenon DEF StatusWords

\* The fields of a packed word are those that were packed.
LEMMA Unpacked ==
    ASSUME NEW g \in Grids, NEW c \in Cells
    PROVE  /\ Packed(g, c) \in StatusWords
           /\ unpack_status(Packed(g, c)) =
                  [col |-> c % 4, row |-> c \div 4, val |-> g[c], motion |-> Flag(g[c])]
<1>1. g[c] \in 0 .. 255 /\ c \in 0 .. 15
  BY MotionNumbers DEF Grids
<1>2. Flag(g[c]) \in 0 .. 1 /\ c \div 4 \in 0 .. 3 /\ c % 4 \in 0 .. 3
  BY <1>1 DEF Flag
<1>3. Packed(g, c) = Fields(Flag(g[c]), g[c], c \div 4, c % 4)
  BY MotionNumbers DEF Packed, Fields
<1>4. Packed(g, c) \in StatusWords
  BY <1>1, <1>2, <1>3, FieldsFit, Zenon
<1> DEFINE w == Packed(g, c)
<1>5. /\ w % 8 = c % 4 /\ (w \div 8) % 8 = c \div 4
      /\ (w \div 64) % 256 = g[c] /\ (w \div (256 * 64)) % 2 = Flag(g[c])
  <2>1. PICK m \in 0 .. 1 : m = Flag(g[c])
    BY <1>2
  <2>2. PICK v \in 0 .. 255 : v = g[c]
    BY <1>1
  <2>3. PICK r \in 0 .. 3 : r = c \div 4
    BY <1>2
  <2>4. PICK k \in 0 .. 3 : k = c % 4
    BY <1>2
  <2>5. w = Fields(m, v, r, k)
    BY <1>3, <2>1, <2>2, <2>3, <2>4
  <2> HIDE DEF w
  <2>6. w % 8 = k
    BY <2>5 DEF Fields
  <2>7. w \div 8 = m * (256 * 8) + v * 8 + r
    BY <2>5 DEF Fields
  <2>8. w \div 64 = m * 256 + v
    BY <2>5 DEF Fields
  <2>9. w \div (256 * 64) = m
    BY <2>5 DEF Fields
  <2>10. (m * (256 * 8) + v * 8 + r) % 8 = r
    OBVIOUS
  <2>11. (m * 256 + v) % 256 = v
    OBVIOUS
  <2>12. m % 2 = m
    OBVIOUS
  <2>13. QED
    BY <2>1, <2>2, <2>3, <2>4, <2>6, <2>7, <2>8, <2>9, <2>10, <2>11, <2>12
<1> HIDE DEF w
<1>6. unpack_status(w) = [col |-> w % 8, row |-> (w \div 8) % 8,
                          val |-> (w \div 64) % 256, motion |-> (w \div (256 * 64)) % 2]
  BY MotionNumbers DEF unpack_status
<1>7. unpack_status(w) = [col |-> c % 4, row |-> c \div 4, val |-> g[c],
                          motion |-> Flag(g[c])]
  BY <1>5, <1>6, Zenon
<1>8. QED
  BY <1>4, <1>7, Zenon DEF w

\* What the host makes of the grid it recomputed is what the chip packs.
LEMMA StatusIs ==
    ASSUME NEW g \in Grids
    PROVE  /\ Packed(g, Hottest(g)) \in StatusWords
           /\ unpack_status(Packed(g, Hottest(g))) = Status(g)
           /\ Packed(g, Hottest(g)) = mirrored_word(g)
<1>1. PICK c \in Cells : Hottest(g) = c /\ FirstMax(g) = c
  BY OneFirstMax
<1>2. mirrored_word(g) = Packed(g, c)
  BY <1>1, Zenon DEF mirrored_word, Packed
<1>3. Status(g) = [col |-> c % 4, row |-> c \div 4, val |-> g[c], motion |-> Flag(g[c])]
  BY <1>1, Zenon DEF Status
<1>4. Packed(g, c) \in StatusWords
  BY Unpacked, Zenon
<1>5. unpack_status(Packed(g, c)) = Status(g)
  BY <1>3, Unpacked
<1>6. Packed(g, Hottest(g)) = Packed(g, c)
  BY <1>1, Zenon
<1> DEFINE p == Packed(g, c)
<1>7. p \in StatusWords /\ unpack_status(p) = Status(g) /\ mirrored_word(g) = p
  BY <1>2, <1>4, <1>5
<1>8. Packed(g, Hottest(g)) = p
  BY <1>6
<1> HIDE DEF p
<1>9. QED
  BY <1>7, <1>8

\* The inductive invariant: the two grids are equal, the word was packed from
\* them, and a cell is hot only by events of the last two batches.
MotionInv ==
    /\ grid \in Grids /\ mirror = grid
    /\ word = Packed(grid, Hottest(grid)) /\ status = Status(grid)
    /\ batch \subseteq Pixels /\ previous \subseteq Pixels
    /\ \A c \in Cells : Cold(c, batch) => grid[c] <= 128
    /\ \A c \in Cells : Cold(c, batch) /\ Cold(c, previous) => grid[c] <= 64

\* At the start nothing was counted.
LEMMA MotionStarts == MotionInit => MotionInv
<1> SUFFICES ASSUME MotionInit
             PROVE  MotionInv
  OBVIOUS
<1> DEFINE zero == [c \in Cells |-> 0]
<1>1. grid = zero /\ mirror = zero /\ word = 0 /\ status = unpack_status(0)
      /\ batch = {} /\ previous = {}
  BY DEF MotionInit
<1>2. zero \in Grids /\ \A c \in Cells : zero[c] = 0
  BY MotionNumbers DEF Grids
<1> HIDE DEF zero
<1>3. Packed(zero, Hottest(zero)) = 0
  <2>1. Hottest(zero) = 0
    <3>1. PICK c \in Cells : Hottest(zero) = c /\ FirstMax(zero) = c
      BY <1>2, OneFirstMax
    <3>2. \A b \in Cells : (\A d \in Cells : zero[d] <= zero[b] /\ (d < b => zero[d] < zero[b]))
                               <=> b = 0
      BY <1>2, MotionNumbers
    <3>3. 0 \in Cells
      BY MotionNumbers
    <3>4. QED
      BY <3>2, <3>3 DEF Hottest
  <2>2. zero[0] = 0 /\ Flag(0) = 0
    BY <1>2, MotionNumbers DEF Flag
  <2>3. QED
    BY <2>1, <2>2, MotionNumbers DEF Packed
<1>4. Status(zero) = unpack_status(0)
  BY <1>2, <1>3, StatusIs
<1>5. QED
  BY <1>1, <1>2, <1>3, <1>4 DEF MotionInv

\* Each batch keeps it.
LEMMA MotionStep == MotionInv /\ [MotionNext]_motion => MotionInv'
<1> SUFFICES ASSUME MotionInv, [MotionNext]_motion
             PROVE  MotionInv'
  OBVIOUS
<1>1. CASE UNCHANGED motion
  BY <1>1 DEF motion, MotionInv
<1>2. ASSUME NEW events \in [1 .. BATCH -> Pixels], Batch(events)
      PROVE  MotionInv'
  <2>1. grid \in Grids /\ mirror = grid
    BY DEF MotionInv
  <2>2. /\ grid' = Activity(events) /\ word' = Packed(grid', Hottest(grid'))
        /\ mirror' = Step(mirror, events) /\ status' = Status(mirror')
        /\ previous' = batch /\ batch' = {events[idx] : idx \in 1 .. BATCH}
    BY <1>2 DEF Batch
  <2>3. PICK g \in Grids : g = grid
    BY <2>1
  <2>4. /\ Activity(events) \in Grids /\ Step(g, events) = Activity(events)
        /\ \A c \in Cells : (\A idx \in 1 .. BATCH : CellOf(events[idx]) # c) =>
                                Activity(events)[c] = Halved(g)[c]
    BY <2>3, Countings
  <2>5. grid' \in Grids /\ mirror' = grid'
    BY <2>1, <2>2, <2>3, <2>4
  <2>6. batch' \subseteq Pixels /\ previous' \subseteq Pixels
    BY <2>2 DEF MotionInv
  <2>7. ASSUME NEW c \in Cells, Cold(c, batch')
        PROVE  grid'[c] <= 128 /\ (g[c] <= 128 => grid'[c] <= 64)
    <3>1. grid'[c] = Halved(g)[c]
      BY <2>2, <2>4, <2>7 DEF Cold
    <3>2. QED
      BY <3>1, HalvedGrid
  <2>8. ASSUME NEW c \in Cells, Cold(c, batch'), Cold(c, previous')
        PROVE  grid'[c] <= 64
    <3>1. g[c] <= 128
      BY <2>2, <2>3, <2>8 DEF MotionInv
    <3>2. QED
      BY <2>7, <2>8, <3>1
  <2>9. QED
    BY <2>2, <2>5, <2>6, <2>7, <2>8 DEF MotionInv
<1>3. QED
  BY <1>1, <1>2 DEF MotionNext

\* An event of the reported cell is drawn inside its box.
LEMMA BoxOfCell ==
    ASSUME NEW p \in Pixels, NEW s, s.col = CellOf(p) % 4, s.row = CellOf(p) \div 4
    PROVE  Inside(Stamp(p), CellBox(s))
<1>1. PICK x \in 0 .. 125 : x = p[1]
  BY PixelCells
<1>2. PICK y \in 0 .. 111 : y = p[2]
  BY PixelCells
<1>3. PICK k \in 0 .. 3 : k = x \div 32
  BY <1>1
<1>4. PICK r \in 0 .. 3 : r = y \div 32
  BY <1>2
<1>5. s.col = k /\ s.row = r
  BY <1>1, <1>2, <1>3, <1>4, PixelCells
<1>6. /\ k * 32 <= x /\ x < CellEnd(k, SX)
      /\ 112 - CellEnd(r, SY) <= 111 - y /\ 111 - y < 112 - r * 32
  <2>1. k * 32 <= x /\ x < k * 32 + 32 /\ r * 32 <= y /\ y < r * 32 + 32
    BY <1>3, <1>4
  <2>2. CellEnd(k, SX) = IF k * 32 + 32 < 126 THEN k * 32 + 32 ELSE 126
    BY MotionNumbers DEF CellEnd
  <2>3. CellEnd(r, SY) = IF r * 32 + 32 < 112 THEN r * 32 + 32 ELSE 112
    BY MotionNumbers DEF CellEnd
  <2>4. QED
    BY <2>1, <2>2, <2>3
<1>7. /\ Stamp(p).col = 111 - y /\ Stamp(p).row = x
  BY <1>1, <1>2, MotionNumbers DEF Stamp
<1>8. /\ CellBox(s).left = 112 - CellEnd(r, SY) /\ CellBox(s).right = 112 - r * 32
      /\ CellBox(s).top = k * 32 /\ CellBox(s).bottom = CellEnd(k, SX)
  BY <1>5, MotionNumbers DEF CellBox
<1>9. QED
  BY <1>6, <1>7, <1>8 DEF Inside

(***************************************************************************)
(* Type correctness of the detector: no counter leaves its byte and no     *)
(* field of the word its bits, whatever events come.                       *)
(***************************************************************************)
THEOREM MotionTyped == MotionSpec => []MotionTypeOK
<1>1. MotionInv => MotionTypeOK
  <2> SUFFICES ASSUME MotionInv
               PROVE  MotionTypeOK
    OBVIOUS
  <2>1. grid \in Grids /\ mirror = grid /\ word = Packed(grid, Hottest(grid))
    BY DEF MotionInv
  <2>2. word \in StatusWords
    BY <2>1, StatusIs, Zenon
  <2>3. QED
    BY <2>1, <2>2, Zenon DEF MotionTypeOK, Grids, StatusWords
<1>2. QED
  BY <1>1, MotionStarts, MotionStep, PTL DEF MotionSpec

(***************************************************************************)
(* The host's recomputation agrees with the chip on every word, ties and   *)
(* saturation included (dvs_motion_blob_live.py:290-293), for every batch  *)
(* size and every sequence of events.                                      *)
(***************************************************************************)
THEOREM MirrorCorrect == MotionSpec => []MirrorAgrees
<1>1. MotionInv => MirrorAgrees
  BY StatusIs DEF MotionInv, MirrorAgrees
<1>2. QED
  BY <1>1, MotionStarts, MotionStep, PTL DEF MotionSpec

(***************************************************************************)
(* When motion is reported, there was an event of the last two batches     *)
(* inside the box that is drawn, though the picture is turned and the cells *)
(* at two of the borders are cut.                                          *)
(***************************************************************************)
THEOREM BoxCorrect == MotionSpec => []BoxHasMotion
<1>1. MotionInv => BoxHasMotion
  <2> SUFFICES ASSUME MotionInv, unpack_status(word).motion = 1
               PROVE  \E p \in batch \cup previous :
                          Inside(Stamp(p), CellBox(unpack_status(word)))
    BY Zenon DEF BoxHasMotion
  <2>1. grid \in Grids /\ word = Packed(grid, Hottest(grid))
        /\ batch \subseteq Pixels /\ previous \subseteq Pixels
    BY DEF MotionInv
  <2>2. PICK c \in Cells : Hottest(grid) = c
    BY <2>1, OneFirstMax
  <2> DEFINE s == unpack_status(word)
  <2>3. s.col = c % 4 /\ s.row = c \div 4 /\ s.motion = Flag(grid[c])
    BY <2>1, <2>2, Unpacked
  <2>4. grid[c] \in 0 .. 255
    BY <2>1, MotionNumbers DEF Grids
  <2>5. ~(grid[c] <= 64)
    BY <2>3, <2>4, MotionNumbers DEF Flag
  <2>6. ~(Cold(c, batch) /\ Cold(c, previous))
    BY <2>5 DEF MotionInv
  <2>7. PICK p \in batch \cup previous : CellOf(p) = c
    BY <2>6 DEF Cold
  <2>8. p \in Pixels
    BY <2>1
  <2> HIDE DEF s
  <2>9. Inside(Stamp(p), CellBox(s))
    BY <2>3, <2>7, <2>8, BoxOfCell
  <2>10. QED
    BY <2>9 DEF s
<1>2. QED
  BY <1>1, MotionStarts, MotionStep, PTL DEF MotionSpec

-----------------------------------------------------------------------------
(***************************************************************************)
(* The generator of file numbers (tools/gen_file_registry.py): it numbers  *)
(* the files of each kind, and the simulator looks them up by number.      *)
(***************************************************************************)

\* The lines of a kind, up to line idx.
OfKind(lines, k, idx) == {j \in 1 .. idx : lines[j].kind = k}

\* Each line of its kind is one more.
LEMMA CountsUp ==
    ASSUME NEW L, NEW lines \in Seq(L), NEW k, NEW idx \in Nat, idx <= Len(lines)
    PROVE  /\ IsFiniteSet(OfKind(lines, k, idx)) /\ Cardinality(OfKind(lines, k, idx)) \in Nat
           /\ idx > 0 => Cardinality(OfKind(lines, k, idx)) =
                          IF lines[idx].kind = k THEN Cardinality(OfKind(lines, k, idx - 1)) + 1
                          ELSE Cardinality(OfKind(lines, k, idx - 1))
           /\ Cardinality(OfKind(lines, k, 0)) = 0
<1>1. \A num \in Nat : /\ IsFiniteSet(OfKind(lines, k, num))
                       /\ Cardinality(OfKind(lines, k, num)) \in Nat
  <2> TAKE num \in Nat
  <2>1. IsFiniteSet(1 .. num)
    BY FS_Interval
  <2>2. OfKind(lines, k, num) \subseteq 1 .. num
    BY DEF OfKind
  <2>3. IsFiniteSet(OfKind(lines, k, num))
    BY <2>1, <2>2, FS_Subset
  <2>4. QED
    BY <2>3, FS_CardinalityType
<1>2. OfKind(lines, k, 0) = {}
  BY DEF OfKind
<1>3. Cardinality(OfKind(lines, k, 0)) = 0
  BY <1>2, FS_EmptySet
<1>4. ASSUME idx > 0
      PROVE  Cardinality(OfKind(lines, k, idx)) =
                 IF lines[idx].kind = k THEN Cardinality(OfKind(lines, k, idx - 1)) + 1
                 ELSE Cardinality(OfKind(lines, k, idx - 1))
  <2>1. idx - 1 \in Nat /\ 1 .. idx = (1 .. idx - 1) \cup {idx} /\ idx \notin 1 .. idx - 1
    BY <1>4
  <2>2. CASE lines[idx].kind = k
    <3>1. /\ OfKind(lines, k, idx) = OfKind(lines, k, idx - 1) \cup {idx}
          /\ idx \notin OfKind(lines, k, idx - 1)
      BY <2>1, <2>2 DEF OfKind
    <3>2. IsFiniteSet(OfKind(lines, k, idx - 1))
      BY <1>1, <2>1
    <3>3. Cardinality(OfKind(lines, k, idx - 1) \cup {idx}) =
              Cardinality(OfKind(lines, k, idx - 1)) + 1
      BY <3>1, <3>2, FS_AddElement
    <3>4. QED
      BY <2>2, <3>1, <3>3, Zenon
  <2>3. CASE lines[idx].kind # k
    <3>1. OfKind(lines, k, idx) = OfKind(lines, k, idx - 1)
      BY <2>1, <2>3 DEF OfKind
    <3>2. QED
      BY <2>3, <3>1
  <2>4. QED
    BY <2>2, <2>3
<1>5. QED
  BY <1>1, <1>3, <1>4

\* A file is found at the number it was given: the list of paths, built by a
\* recursive function, has its path there.
LEMMA PathsFound ==
    ASSUME NEW L, NEW lines \in Seq(L), NEW idx \in 1 .. Len(lines)
    PROVE  /\ Count(lines, idx) \in Nat
           /\ Count(lines, idx) + 1 \in DOMAIN paths_of(lines, lines[idx].kind)
           /\ paths_of(lines, lines[idx].kind)[Count(lines, idx) + 1] = lines[idx].path
<1> DEFINE N == Len(lines)
           k == lines[idx].kind
           P == {lines[j].path : j \in 1 .. Len(lines)}
           S == [q \in (1 .. N) \X Seq(P) |->
                    IF lines[q[1]].kind = k THEN Append(q[2], lines[q[1]].path) ELSE q[2]]
<1>1. N \in Nat /\ << >> \in Seq(P) /\ idx \in 1 .. N
  BY LenProperties, EmptySeq
<1>2. \A j \in 1 .. N : lines[j].path \in P
  OBVIOUS
<1> HIDE DEF P
<1>3. S \in [(1 .. N) \X Seq(P) -> Seq(P)]
  BY <1>2
<1>4. \A j \in 1 .. N, s \in Seq(P) :
          S[<<j, s>>] = IF lines[j].kind = k THEN Append(s, lines[j].path) ELSE s
  OBVIOUS
<1> HIDE DEF S, N, k
<1>5. PICK f \in [0 .. N -> Seq(P)] : Goes(f, << >>, S, N)
  BY <1>1, <1>3, GoesOn
<1>6. /\ f[0] = << >>
      /\ \A j \in 1 .. N : /\ f[j - 1] \in Seq(P)
                           /\ f[j] = IF lines[j].kind = k THEN Append(f[j - 1], lines[j].path)
                                     ELSE f[j - 1]
  <2>1. \A j \in 1 .. N : f[j - 1] \in Seq(P)
    BY <1>1
  <2>2. QED
    BY <1>4, <1>5, <2>1 DEF Goes
<1> DEFINE Up == CHOOSE h : h = [j \in 0 .. N |->
                     IF j = 0 THEN << >>
                     ELSE IF lines[j].kind = k THEN Append(h[j - 1], lines[j].path)
                          ELSE h[j - 1]]
<1>7. f = [j \in 0 .. N |->
                     IF j = 0 THEN << >>
                     ELSE IF lines[j].kind = k THEN Append(f[j - 1], lines[j].path)
                          ELSE f[j - 1]]
  <2>1. \A j \in 0 .. N : j # 0 => j \in 1 .. N
    BY <1>1
  <2>2. QED
    BY <1>6, <2>1
<1>8. paths_of(lines, k) = Up[N]
  BY DEF paths_of, N
<1>9. Up = [j \in 0 .. N |->
                     IF j = 0 THEN << >>
                     ELSE IF lines[j].kind = k THEN Append(Up[j - 1], lines[j].path)
                          ELSE Up[j - 1]]
  BY <1>7
<1> HIDE DEF Up
<1>10. Up[N] = f[N]
  <2> DEFINE T == {num \in Nat : num <= N => Up[num] = f[num]}
  <2>1. 0 \in T
    BY <1>1, <1>6, <1>9
  <2>2. ASSUME NEW num \in Nat, num \in T
        PROVE  num + 1 \in T
    <3> SUFFICES ASSUME num + 1 <= N
                 PROVE  Up[num + 1] = f[num + 1]
      OBVIOUS
    <3>1. /\ num + 1 \in 1 .. N /\ num + 1 \in 0 .. N /\ num + 1 # 0
          /\ (num + 1) - 1 = num /\ Up[num] = f[num]
      BY <1>1, <2>2
    <3>2. Up[num + 1] = IF lines[num + 1].kind = k THEN Append(Up[(num + 1) - 1], lines[num + 1].path)
                      ELSE Up[(num + 1) - 1]
      BY <1>9, <3>1
    <3>3. f[num + 1] = IF lines[num + 1].kind = k THEN Append(f[(num + 1) - 1], lines[num + 1].path)
                     ELSE f[(num + 1) - 1]
      BY <1>6, <3>1
    <3>4. QED
      BY <3>1, <3>2, <3>3
  <2> HIDE DEF T
  <2>3. N \in T
    BY <1>1, <2>1, <2>2, Induction
  <2>4. QED
    BY <1>1, <2>3 DEF T
<1>11. \A num \in 0 .. N : Len(f[num]) = Cardinality(OfKind(lines, k, num))
  <2> DEFINE T == {num \in Nat : num <= N => Len(f[num]) = Cardinality(OfKind(lines, k, num))}
  <2>1. 0 \in T
    BY <1>1, <1>6, CountsUp DEF N
  <2>2. ASSUME NEW num \in Nat, num \in T
        PROVE  num + 1 \in T
    <3> SUFFICES ASSUME num + 1 <= N
                 PROVE  Len(f[num + 1]) = Cardinality(OfKind(lines, k, num + 1))
      OBVIOUS
    <3>1. num + 1 \in 1 .. N /\ num + 1 > 0 /\ num + 1 \in Nat /\ (num + 1) - 1 = num
          /\ Len(f[num]) = Cardinality(OfKind(lines, k, num))
      BY <1>1, <2>2
    <3>2. Cardinality(OfKind(lines, k, num + 1)) =
              IF lines[num + 1].kind = k THEN Cardinality(OfKind(lines, k, num)) + 1
              ELSE Cardinality(OfKind(lines, k, num))
      BY <3>1, CountsUp DEF N
    <3>3. /\ f[num] \in Seq(P)
          /\ f[num + 1] = IF lines[num + 1].kind = k
                          THEN Append(f[num], lines[num + 1].path) ELSE f[num]
      BY <1>6, <3>1
    <3>4. Len(Append(f[num], lines[num + 1].path)) = Len(f[num]) + 1
      BY <1>2, <3>1, <3>3
    <3>5. QED
      BY <3>1, <3>2, <3>3, <3>4
  <2> HIDE DEF T
  <2>3. Nat \subseteq T
    BY <2>1, <2>2, Induction
  <2>4. \A num \in 0 .. N : num \in T
    BY <1>1, <2>3
  <2>5. QED
    BY <1>1, <2>4 DEF T
<1>12. idx - 1 \in Nat /\ idx - 1 \in 0 .. N
  BY <1>1
<1>13. Count(lines, idx) = Len(f[idx - 1]) /\ Count(lines, idx) \in Nat
  <2>1. Count(lines, idx) = Cardinality(OfKind(lines, k, idx - 1))
    BY DEF Count, OfKind, k
  <2>2. f[idx - 1] \in Seq(P)
    BY <1>5, <1>12
  <2>3. QED
    BY <1>11, <1>12, <2>1, <2>2, LenProperties
<1>14. \A num \in idx .. N : /\ Len(f[idx - 1]) + 1 \in 1 .. Len(f[num])
                         /\ f[num][Len(f[idx - 1]) + 1] = lines[idx].path
  <2> DEFINE place == Len(f[idx - 1]) + 1
  <2> DEFINE T == {num \in Nat : idx <= num /\ num <= N =>
                      place \in 1 .. Len(f[num]) /\ f[num][place] = lines[idx].path}
  <2>1. 0 \in T
    BY <1>1
  <2>2. place \in Nat \ {0}
    BY <1>13
  <2>3. ASSUME NEW num \in Nat, num \in T
        PROVE  num + 1 \in T
    <3> SUFFICES ASSUME idx <= num + 1, num + 1 <= N
                 PROVE  place \in 1 .. Len(f[num + 1]) /\ f[num + 1][place] = lines[idx].path
      OBVIOUS
    <3>1. num + 1 \in 1 .. N /\ (num + 1) - 1 = num
      BY <1>1
    <3>2. /\ f[num] \in Seq(P)
          /\ f[num + 1] = IF lines[num + 1].kind = k
                          THEN Append(f[num], lines[num + 1].path) ELSE f[num]
      BY <1>6, <3>1
    <3>3. lines[num + 1].path \in P
      BY <1>2, <3>1
    <3>4. /\ Len(Append(f[num], lines[num + 1].path)) = Len(f[num]) + 1
          /\ Append(f[num], lines[num + 1].path)[Len(f[num]) + 1] = lines[num + 1].path
          /\ \A j \in 1 .. Len(f[num]) : Append(f[num], lines[num + 1].path)[j] = f[num][j]
          /\ Len(f[num]) \in Nat
      BY <3>2, <3>3
    <3>5. CASE idx = num + 1
      <4>1. lines[num + 1].kind = k /\ idx - 1 = num
        BY <3>1, <3>5 DEF k
      <4>2. QED
        BY <2>2, <3>2, <3>4, <3>5, <4>1
    <3>6. CASE idx # num + 1
      <4>1. idx <= num /\ num <= N
        BY <1>1, <3>6
      <4>2. place \in 1 .. Len(f[num]) /\ f[num][place] = lines[idx].path
        BY <2>3, <4>1
      <4> HIDE DEF place
      <4>3. CASE lines[num + 1].kind = k
        BY <3>2, <3>4, <4>2, <4>3
      <4>4. CASE lines[num + 1].kind # k
        BY <3>2, <4>2, <4>4
      <4>5. QED
        BY <4>3, <4>4
    <3>7. QED
      BY <3>5, <3>6
  <2> HIDE DEF T
  <2>4. Nat \subseteq T
    BY <2>1, <2>3, Induction
  <2>5. \A num \in idx .. N : num \in T
    BY <1>1, <2>4
  <2>6. QED
    BY <1>1, <2>5 DEF T
<1>15. N \in idx .. N /\ N \in 0 .. N
  BY <1>1
<1>16. f[N] \in Seq(P)
  BY <1>5, <1>15
<1>17. DOMAIN f[N] = 1 .. Len(f[N])
  BY <1>16, LenProperties
<1>18. QED
  BY <1>8, <1>10, <1>13, <1>14, <1>15, <1>17 DEF k

\* The inductive invariant: what was made so far was made from these entries.
RegistryInv ==
    /\ registry \in Seq(RegistryLines) /\ entries \in Seq(RegistryLines)
    /\ making \in {"idle", "ids", "conf", "test"}
    /\ making # "idle" => Parses(entries) /\ InputsExist(entries)
    /\ making \in {"conf", "test"} => ids = act_lines(entries)
    /\ making = "test" => conf = conf_lines(entries)

\* The generator at work, its input edited between the steps.
RegistrySpec == RegistryInit /\ [][RegistryNext]_fileRegistry

\* It starts with nothing made.
LEMMA RegistryStarts == RegistryInit => RegistryInv
<1>1. << >> \in Seq(RegistryLines)
  BY EmptySeq
<1>2. QED
  BY <1>1 DEF RegistryInit, RegistryInv

\* Each step keeps the invariant.
LEMMA RegistryStep == RegistryInv /\ [RegistryNext]_fileRegistry => RegistryInv'
<1> SUFFICES ASSUME RegistryInv, [RegistryNext]_fileRegistry
             PROVE  RegistryInv'
  OBVIOUS
<1> USE DEF RegistryInv
<1>1. ASSUME NEW line \in RegistryLines, AddLine(line)
      PROVE  RegistryInv'
  <2>1. registry' \in Seq(RegistryLines)
    BY <1>1 DEF AddLine
  <2>2. QED
    BY <1>1, <2>1 DEF AddLine
<1>2. CASE DropLine
  <2>1. registry' \in Seq(RegistryLines)
    BY <1>2, HeadTailProperties DEF DropLine
  <2>2. QED
    BY <1>2, <2>1 DEF DropLine
<1>3. CASE Generate
  BY <1>3 DEF Generate
<1>4. CASE GenerateFails
  BY <1>4 DEF GenerateFails
<1>5. CASE WriteIds
  BY <1>5 DEF WriteIds
<1>6. CASE WriteConf
  BY <1>6 DEF WriteConf
<1>7. CASE Interrupted
  BY <1>7 DEF Interrupted, AfterInterrupt
<1>8. CASE UNCHANGED fileRegistry
  BY <1>8 DEF fileRegistry
<1>9. QED
  BY <1>1, <1>2, <1>3, <1>4, <1>5, <1>6, <1>7, <1>8 DEF RegistryNext

(***************************************************************************)
(* A test finds under each number the file that was registered for it, for *)
(* every list of files and every interleaving with edits of the list.      *)
(***************************************************************************)
THEOREM RegistryCorrect == RegistrySpec => []TestFindsFiles
<1>1. RegistryInv => TestFindsFiles
  <2> SUFFICES ASSUME RegistryInv, making = "test"
               PROVE  IdsFindFiles /\ InputsKnown
    BY DEF TestFindsFiles
  <2>1. /\ entries \in Seq(RegistryLines) /\ Parses(entries) /\ InputsExist(entries)
        /\ ids = act_lines(entries) /\ conf = conf_lines(entries)
    BY DEF RegistryInv
  <2>2. DOMAIN entries = 1 .. Len(entries) /\ Len(entries) \in Nat
    BY <2>1, LenProperties
  <2>3. /\ DOMAIN ids = DOMAIN entries
        /\ \A j \in DOMAIN entries : /\ ids[j].symbol = entries[j].symbol
                                     /\ ids[j].value = Count(entries, j)
    BY <2>1 DEF act_lines
  <2>4. \A idx, j \in DOMAIN entries : entries[idx].symbol = entries[j].symbol => idx = j
    <3> TAKE idx, j \in DOMAIN entries
    <3> HAVE entries[idx].symbol = entries[j].symbol
    <3>1. ~(idx < j) /\ ~(j < idx)
      BY <2>1 DEF Parses, Duplicates
    <3>2. QED
      BY <2>2, <3>1
  <2>5. IdsFindFiles
    <3> SUFFICES ASSUME NEW idx \in DOMAIN entries, NEW j \in DOMAIN ids,
                        ids[j].symbol = entries[idx].symbol
                 PROVE  /\ ids[j].value + 1 \in DOMAIN conf[entries[idx].kind]
                        /\ conf[entries[idx].kind][ids[j].value + 1] = entries[idx].path
      BY DEF IdsFindFiles
    <3>1. j = idx /\ ids[j].value = Count(entries, idx)
      BY <2>3, <2>4
    <3>2. entries[idx].kind \in ValidKinds
      BY <2>1 DEF Parses
    <3>3. conf[entries[idx].kind] = paths_of(entries, entries[idx].kind)
      BY <2>1, <3>2 DEF conf_lines
    <3>4. idx \in 1 .. Len(entries)
      BY <2>2
    <3>5. /\ Count(entries, idx) + 1 \in DOMAIN paths_of(entries, entries[idx].kind)
          /\ paths_of(entries, entries[idx].kind)[Count(entries, idx) + 1] = entries[idx].path
      BY <2>1, <3>4, PathsFound
    <3>6. QED
      BY <3>1, <3>3, <3>5
  <2>6. InputsKnown
    <3>1. ASSUME NEW idx \in DOMAIN entries
          PROVE  \E j \in DOMAIN ids : \A k \in DOMAIN ids :
                     ids[k].symbol = entries[idx].symbol <=> k = j
      BY <2>3, <2>4
    <3>2. QED
      BY <2>1, <3>1 DEF InputsKnown
  <2>7. QED
    BY <2>5, <2>6
<1>2. QED
  BY <1>1, RegistryStarts, RegistryStep, PTL DEF RegistrySpec

-----------------------------------------------------------------------------
(***************************************************************************)
(* The result viewer (actnow_client.py, append_limited).  Joined puts the  *)
(* chunks together, Trim takes words from their front.                     *)
(***************************************************************************)

\* A chunk of words.
Chunk == Seq(Nat)

\* The recursive function Joined exists, and its equation holds.
LEMMA JoinedEquation ==
    /\ Joined \in [Seq(Chunk) -> Chunk]
    /\ \A q \in Seq(Chunk) :
           Joined[q] = IF q = << >> THEN << >> ELSE Head(q) \o Joined[Tail(q)]
<1> DEFINE z == [q \in Seq(Chunk) |-> << >>]
           S == [p \in Seq(Chunk) \X Chunk |->
                   IF p[1] = << >> THEN << >> ELSE Head(p[1]) \o p[2]]
<1>1. << >> \in Chunk /\ << >> \in Seq(Chunk)
  BY EmptySeq DEF Chunk
<1>2. \A q \in Seq(Chunk) : q # << >> => Head(q) \in Chunk /\ Tail(q) \in Seq(Chunk)
  BY EmptyOrNot
<1>3. z \in [Seq(Chunk) -> Chunk] /\ S \in [Seq(Chunk) \X Chunk -> Chunk]
  <2>1. \A q \in Seq(Chunk), c \in Chunk : q # << >> => Head(q) \o c \in Chunk
    BY <1>2, ConcatProperties DEF Chunk
  <2>2. QED
    BY <1>1, <2>1
<1>4. \A q \in Seq(Chunk), c \in Chunk :
          z[q] = << >> /\ (q # << >> => S[<<q, c>>] = Head(q) \o c)
  OBVIOUS
<1> HIDE DEF z, S
<1>5. PICK h \in [Seq(Chunk) -> Chunk] : Unrolls(h, Chunk, z, S)
  BY <1>3, Unrolling
<1>6. \A q \in Seq(Chunk) :
          h[q] = IF q = << >> THEN << >> ELSE Head(q) \o h[Tail(q)]
  BY <1>2, <1>4, <1>5 DEF Unrolls
<1>7. h = [q \in Seq(Chunk) |->
             IF q = << >> THEN << >> ELSE Head(q) \o h[Tail(q)]]
  BY <1>6
<1>8. Joined = [q \in Seq(Chunk) |->
                  IF q = << >> THEN << >> ELSE Head(q) \o Joined[Tail(q)]]
  BY <1>7 DEF Joined, Chunk
<1> DEFINE T == {q \in Seq(Chunk) : Joined[q] \in Chunk}
<1>9. << >> \in T
  BY <1>1, <1>8
<1>10. ASSUME NEW q \in Seq(Chunk), q # << >>, Tail(q) \in T
       PROVE  q \in T
  <2>1. Head(q) \o Joined[Tail(q)] \in Chunk
    BY <1>2, <1>10, ConcatProperties DEF Chunk
  <2>2. QED
    BY <1>8, <1>10, <2>1
<1>11. T = Seq(Chunk)
  <2>1. T \subseteq Seq(Chunk)
    OBVIOUS
  <2> HIDE DEF T
  <2>2. QED
    BY <1>9, <1>10, <2>1, OverSequences
<1>12. \A q \in Seq(Chunk) : Joined[q] \in Chunk
  BY <1>11
<1>13. QED
  BY <1>8, <1>12

\* All but the first k words.
RestOf(s, k) == SubSeq(s, k + 1, Len(s))

\* The order of numbers, for the comparisons below.
LEMMA Comparable ==
    \A a, b \in Nat : (a <= b \/ a > b) /\ (a > b => ~(a <= b))
  OBVIOUS

\* The recursive function Trim exists, and its equation holds.
LEMMA TrimEquation ==
    /\ Trim \in [Seq(Chunk) -> [Nat -> Seq(Chunk)]]
    /\ \A q \in Seq(Chunk), e \in Nat :
           /\ e = 0 \/ q = << >> => Trim[q][e] = q
           /\ e # 0 /\ q # << >> /\ Len(Head(q)) <= e
                  => Trim[q][e] = Trim[Tail(q)][e - Len(Head(q))]
           /\ e # 0 /\ q # << >> /\ Len(Head(q)) > e
                  => Trim[q][e] = <<RestOf(Head(q), e)>> \o Tail(q)
<1> DEFINE B == [Nat -> Seq(Chunk)]
           z == [q \in Seq(Chunk) |-> [e \in Nat |-> q]]
           S == [p \in Seq(Chunk) \X B |->
                  [e \in Nat |->
                     IF e = 0 \/ p[1] = << >> THEN p[1]
                     ELSE IF Len(Head(p[1])) <= e
                          THEN p[2][e - Len(Head(p[1]))]
                          ELSE <<RestOf(Head(p[1]), e)>> \o Tail(p[1])]]
<1>1. \A q \in Seq(Chunk) : q # << >> =>
          /\ Head(q) \in Chunk /\ Tail(q) \in Seq(Chunk)
          /\ Len(Head(q)) \in Nat
  BY EmptyOrNot DEF Chunk
<1>2. ASSUME NEW q \in Seq(Chunk), NEW e \in Nat, q # << >>, Len(Head(q)) > e
      PROVE  <<RestOf(Head(q), e)>> \o Tail(q) \in Seq(Chunk)
  <2> DEFINE w == Head(q)
  <2>1. w \in Chunk /\ Tail(q) \in Seq(Chunk) /\ Len(w) \in Nat
    BY <1>1, <1>2
  <2> HIDE DEF w
  <2>2. RestOf(w, e) \in Chunk
    BY <2>1, SubSeqProperties DEF RestOf, Chunk
  <2>3. <<RestOf(w, e)>> \in Seq(Chunk)
    BY <2>2
  <2>4. QED
    BY <2>1, <2>3, ConcatProperties DEF w
<1>3. z \in [Seq(Chunk) -> B]
  OBVIOUS
<1>4. S \in [Seq(Chunk) \X B -> B]
  <2> SUFFICES ASSUME NEW q \in Seq(Chunk), NEW b \in B, NEW e \in Nat
               PROVE  (IF e = 0 \/ q = << >> THEN q
                       ELSE IF Len(Head(q)) <= e
                            THEN b[e - Len(Head(q))]
                            ELSE <<RestOf(Head(q), e)>> \o Tail(q)) \in Seq(Chunk)
    OBVIOUS
  <2>1. CASE e = 0 \/ q = << >>
    BY <2>1
  <2>2. CASE ~(e = 0 \/ q = << >>) /\ Len(Head(q)) <= e
    <3>1. e - Len(Head(q)) \in Nat
      BY <1>1, <2>2
    <3>2. QED
      BY <2>2, <3>1
  <2>3. CASE ~(e = 0 \/ q = << >>) /\ ~(Len(Head(q)) <= e)
    <3>1. Len(Head(q)) \in Nat
      BY <1>1, <2>3
    <3>2. Len(Head(q)) > e
      BY <2>3, <3>1
    <3>3. QED
      BY <1>2, <2>3, <3>2
  <2>4. QED
    BY <2>1, <2>2, <2>3
<1>5. \A q \in Seq(Chunk), b \in B :
          /\ z[q] = [e \in Nat |-> q]
          /\ q # << >> =>
               S[<<q, b>>] = [e \in Nat |->
                     IF e = 0 \/ q = << >> THEN q
                     ELSE IF Len(Head(q)) <= e
                          THEN b[e - Len(Head(q))]
                          ELSE <<RestOf(Head(q), e)>> \o Tail(q)]
  OBVIOUS
<1> HIDE DEF z, S
<1>6. PICK h \in [Seq(Chunk) -> B] : Unrolls(h, Chunk, z, S)
  <2> HIDE DEF B
  <2>1. QED
    BY <1>3, <1>4, Unrolling
<1>7. \A q \in Seq(Chunk) :
          h[q] = [e \in Nat |->
                     IF e = 0 \/ q = << >> THEN q
                     ELSE IF Len(Head(q)) <= e
                          THEN h[Tail(q)][e - Len(Head(q))]
                          ELSE <<RestOf(Head(q), e)>> \o Tail(q)]
  <2> SUFFICES ASSUME NEW q \in Seq(Chunk)
               PROVE  h[q] = [e \in Nat |->
                     IF e = 0 \/ q = << >> THEN q
                     ELSE IF Len(Head(q)) <= e
                          THEN h[Tail(q)][e - Len(Head(q))]
                          ELSE <<RestOf(Head(q), e)>> \o Tail(q)]
    OBVIOUS
  <2>1. CASE q = << >>
    <3>1. h[q] = [e \in Nat |-> q]
      BY <1>5, <1>6, <2>1 DEF Unrolls
    <3>2. QED
      BY <2>1, <3>1
  <2>2. CASE q # << >>
    <3>1. h[Tail(q)] \in B /\ h[q] = S[<<q, h[Tail(q)]>>]
      BY <1>1, <1>6, <2>2 DEF Unrolls
    <3> HIDE DEF B
    <3>2. QED
      BY <1>5, <2>2, <3>1
  <2>3. QED
    BY <2>1, <2>2
<1>8. h = [q \in Seq(Chunk) |->
            [e \in Nat |->
                     IF e = 0 \/ q = << >> THEN q
                     ELSE IF Len(Head(q)) <= e
                          THEN h[Tail(q)][e - Len(Head(q))]
                          ELSE <<RestOf(Head(q), e)>> \o Tail(q)]]
  BY <1>7
<1>9. Trim = [q \in Seq(Chunk) |->
            [e \in Nat |->
                     IF e = 0 \/ q = << >> THEN q
                     ELSE IF Len(Head(q)) <= e
                          THEN Trim[Tail(q)][e - Len(Head(q))]
                          ELSE <<RestOf(Head(q), e)>> \o Tail(q)]]
  BY <1>8 DEF Trim, Chunk, RestOf
<1>10. ASSUME NEW q \in Seq(Chunk), NEW e \in Nat
       PROVE  Trim[q][e] = IF e = 0 \/ q = << >> THEN q
                     ELSE IF Len(Head(q)) <= e
                          THEN Trim[Tail(q)][e - Len(Head(q))]
                          ELSE <<RestOf(Head(q), e)>> \o Tail(q)
  <2> DEFINE G(k) == IF k = 0 \/ q = << >> THEN q
                     ELSE IF Len(Head(q)) <= k
                          THEN Trim[Tail(q)][k - Len(Head(q))]
                          ELSE <<RestOf(Head(q), k)>> \o Tail(q)
  <2>1. Trim[q] = [k \in Nat |-> G(k)]
    BY <1>9
  <2> HIDE DEF G
  <2>2. Trim[q][e] = G(e)
    BY <2>1
  <2>3. QED
    BY <2>2 DEF G
<1>11. \A q \in Seq(Chunk), e \in Nat :
           /\ e = 0 \/ q = << >> => Trim[q][e] = q
           /\ e # 0 /\ q # << >> /\ Len(Head(q)) <= e
                  => Trim[q][e] = Trim[Tail(q)][e - Len(Head(q))]
           /\ e # 0 /\ q # << >> /\ Len(Head(q)) > e
                  => Trim[q][e] = <<RestOf(Head(q), e)>> \o Tail(q)
  <2> SUFFICES ASSUME NEW q \in Seq(Chunk), NEW e \in Nat
               PROVE  /\ e = 0 \/ q = << >> => Trim[q][e] = q
                      /\ e # 0 /\ q # << >> /\ Len(Head(q)) <= e
                             => Trim[q][e] = Trim[Tail(q)][e - Len(Head(q))]
                      /\ e # 0 /\ q # << >> /\ Len(Head(q)) > e
                             => Trim[q][e] = <<RestOf(Head(q), e)>> \o Tail(q)
    OBVIOUS
  <2>1. CASE q = << >>
    BY <1>10, <2>1
  <2>2. CASE q # << >>
    <3>1. Len(Head(q)) \in Nat
      BY <1>1, <2>2
    <3>2. Len(Head(q)) > e => ~(Len(Head(q)) <= e)
      BY <3>1, Comparable, Zenon
    <3>3. QED
      BY <1>10, <2>2, <3>2
  <2>3. QED
    BY <2>1, <2>2
<1> DEFINE T == {q \in Seq(Chunk) : Trim[q] \in B}
<1>12. \A q \in Seq(Chunk) :
           (\A e \in Nat : Trim[q][e] \in Seq(Chunk)) => Trim[q] \in B
  BY <1>9
<1>13. << >> \in T
  <2>1. << >> \in Seq(Chunk)
    BY EmptyOrNot
  <2>2. QED
    BY <1>11, <1>12, <2>1
<1>14. ASSUME NEW q \in Seq(Chunk), q # << >>, Tail(q) \in T
       PROVE  q \in T
  <2> SUFFICES ASSUME NEW e \in Nat
               PROVE  Trim[q][e] \in Seq(Chunk)
    BY <1>12
  <2>1. CASE e = 0
    BY <1>11, <2>1
  <2>2. CASE e # 0 /\ Len(Head(q)) <= e
    <3>1. e - Len(Head(q)) \in Nat
      BY <1>1, <1>14, <2>2
    <3>2. Trim[Tail(q)][e - Len(Head(q))] \in Seq(Chunk)
      BY <1>14, <3>1
    <3>3. QED
      BY <1>11, <1>14, <2>2, <3>2
  <2>3. CASE e # 0 /\ Len(Head(q)) > e
    BY <1>2, <1>11, <1>14, <2>3
  <2>4. Len(Head(q)) \in Nat
    BY <1>1, <1>14
  <2>5. Len(Head(q)) <= e \/ Len(Head(q)) > e
    BY <2>4, Comparable, Zenon
  <2>6. QED
    BY <2>1, <2>2, <2>3, <2>5
<1>15. T = Seq(Chunk)
  <2>1. T \subseteq Seq(Chunk)
    OBVIOUS
  <2> HIDE DEF T
  <2>2. QED
    BY <1>13, <1>14, <2>1, OverSequences
<1>16. Trim \in [Seq(Chunk) -> B]
  BY <1>9, <1>15
<1>17. QED
  BY <1>11, <1>16

\* What the words behind the first k are.
LEMMA RestFacts ==
    ASSUME NEW s \in Chunk, NEW k \in Nat, k <= Len(s)
    PROVE  /\ RestOf(s, k) \in Chunk
           /\ Len(RestOf(s, k)) = Len(s) - k
           /\ \A idx \in 1 .. Len(s) - k : RestOf(s, k)[idx] = s[k + idx]
           /\ RestOf(s, 0) = s
<1>1. /\ Len(s) \in Nat
      /\ \A idx \in 1 .. Len(s) : s[idx] \in Nat
  BY LenProperties, ElementOfSeq DEF Chunk
<1>2. PICK l \in Nat : l = Len(s)
  BY <1>1
<1>3. \A idx \in k + 1 .. l : s[idx] \in Nat
  BY <1>1, <1>2
<1>4. /\ SubSeq(s, k + 1, l) \in Seq(Nat)
      /\ Len(SubSeq(s, k + 1, l)) = IF k + 1 <= l THEN l - (k + 1) + 1 ELSE 0
      /\ \A idx \in 1 .. l - (k + 1) + 1 : SubSeq(s, k + 1, l)[idx] = s[(k + 1) + idx - 1]
  <2>1. k + 1 \in Int /\ l \in Int
    BY <1>2
  <2>2. QED
    BY <1>3, <2>1, SubSeqProperties
<1>5. SubSeq(s, 1, Len(s)) = s
  BY SubSeqFull DEF Chunk
<1>6. RestOf(s, 0) = s
  BY <1>5 DEF RestOf
<1>7. k <= l
  BY <1>2
<1>8. (IF k + 1 <= l THEN l - (k + 1) + 1 ELSE 0) = l - k
  BY <1>2, <1>7
<1>9. \A idx \in 1 .. l - k : idx \in 1 .. l - (k + 1) + 1 /\ (k + 1) + idx - 1 = k + idx
  BY <1>2
<1>10. QED
  BY <1>2, <1>4, <1>6, <1>8, <1>9 DEF RestOf, Chunk

\* Taking them from two chunks may end in the first.
LEMMA RestInFirst ==
    ASSUME NEW s \in Chunk, NEW t \in Chunk, NEW k \in Nat, k <= Len(s)
    PROVE  RestOf(s \o t, k) = RestOf(s, k) \o t
<1>1. Len(s) \in Nat /\ Len(t) \in Nat
  BY LenProperties DEF Chunk
<1>2. PICK a \in Nat, b \in Nat : a = Len(s) /\ b = Len(t)
  BY <1>1
<1>3. /\ s \o t \in Chunk /\ Len(s \o t) = a + b
      /\ \A idx \in 1 .. a + b : (s \o t)[idx] = IF idx <= a THEN s[idx] ELSE t[idx - a]
  BY <1>2, ConcatProperties DEF Chunk
<1>4. PICK u \in Chunk : u = s \o t
  BY <1>3
<1>5. /\ RestOf(u, k) \in Chunk /\ Len(RestOf(u, k)) = (a + b) - k
      /\ \A idx \in 1 .. (a + b) - k : RestOf(u, k)[idx] = u[k + idx]
  <2>1. Len(u) = a + b
    BY <1>3, <1>4
  <2>2. k <= Len(u)
    BY <1>2, <1>3, <1>4, <2>1
  <2>3. /\ RestOf(u, k) \in Chunk /\ Len(RestOf(u, k)) = Len(u) - k
        /\ \A idx \in 1 .. Len(u) - k : RestOf(u, k)[idx] = u[k + idx]
    BY <2>2, RestFacts
  <2>4. QED
    BY <2>1, <2>3
<1>6. /\ RestOf(s, k) \in Chunk /\ Len(RestOf(s, k)) = a - k
      /\ \A idx \in 1 .. a - k : RestOf(s, k)[idx] = s[k + idx]
  BY <1>2, RestFacts
<1>7. PICK r \in Chunk : r = RestOf(s, k)
  BY <1>6
<1>8. /\ r \o t \in Chunk /\ Len(r \o t) = (a - k) + b
      /\ \A idx \in 1 .. (a - k) + b :
             (r \o t)[idx] = IF idx <= a - k THEN r[idx] ELSE t[idx - (a - k)]
  <2>1. /\ r \o t \in Chunk /\ Len(r \o t) = Len(r) + Len(t)
        /\ \A idx \in 1 .. Len(r) + Len(t) :
               (r \o t)[idx] = IF idx <= Len(r) THEN r[idx] ELSE t[idx - Len(r)]
    BY ConcatProperties DEF Chunk
  <2>2. Len(r) = a - k /\ Len(t) = b
    BY <1>2, <1>6, <1>7
  <2>3. QED
    BY <2>1, <2>2
<1>9. \A idx \in 1 .. (a + b) - k : RestOf(u, k)[idx] = (r \o t)[idx]
  <2> SUFFICES ASSUME NEW idx \in 1 .. (a + b) - k
               PROVE  RestOf(u, k)[idx] = (r \o t)[idx]
    OBVIOUS
  <2>1. k <= a
    BY <1>2
  <2>2. /\ idx \in 1 .. (a - k) + b /\ k + idx \in 1 .. a + b
        /\ RestOf(u, k)[idx] = u[k + idx]
    BY <1>5, <2>1
  <2>3. CASE idx <= a - k
    <3>1. k + idx <= a /\ idx \in 1 .. a - k
      BY <2>1, <2>3
    <3>2. u[k + idx] = s[k + idx]
      BY <1>3, <1>4, <2>2, <3>1
    <3>3. (r \o t)[idx] = r[idx] /\ r[idx] = s[k + idx]
      BY <1>6, <1>7, <1>8, <2>2, <2>3, <3>1
    <3>4. QED
      BY <2>2, <3>2, <3>3
  <2>4. CASE ~(idx <= a - k)
    <3>1. ~(k + idx <= a) /\ (k + idx) - a = idx - (a - k)
      BY <2>1, <2>4
    <3>2. u[k + idx] = t[(k + idx) - a]
      BY <1>3, <1>4, <2>2, <3>1
    <3>3. (r \o t)[idx] = t[idx - (a - k)]
      BY <1>8, <2>2, <2>4
    <3>4. QED
      BY <2>2, <3>1, <3>2, <3>3
  <2>5. QED
    BY <2>3, <2>4
<1>10. (a - k) + b = (a + b) - k
  OBVIOUS
<1>11. RestOf(u, k) = r \o t
  <2> DEFINE v == RestOf(u, k)
             w == r \o t
  <2>1. v \in Chunk /\ w \in Chunk /\ Len(v) = Len(w)
    BY <1>5, <1>8, <1>10
  <2>2. \A idx \in 1 .. Len(v) : v[idx] = w[idx]
    BY <1>5, <1>9
  <2> HIDE DEF v, w
  <2>3. v = w
    BY <2>1, <2>2, SeqEqual DEF Chunk
  <2>4. QED
    BY <2>3 DEF v, w
<1>12. QED
  BY <1>4, <1>7, <1>11

\* Or in the second.
LEMMA RestInSecond ==
    ASSUME NEW s \in Chunk, NEW t \in Chunk, NEW k \in Nat,
           Len(s) <= k, k <= Len(s) + Len(t)
    PROVE  RestOf(s \o t, k) = RestOf(t, k - Len(s))
<1>1. Len(s) \in Nat /\ Len(t) \in Nat
  BY LenProperties DEF Chunk
<1>2. PICK a \in Nat, b \in Nat : a = Len(s) /\ b = Len(t)
  BY <1>1
<1>3. /\ s \o t \in Chunk /\ Len(s \o t) = a + b
      /\ \A idx \in 1 .. a + b : (s \o t)[idx] = IF idx <= a THEN s[idx] ELSE t[idx - a]
  BY <1>2, ConcatProperties DEF Chunk
<1>4. PICK u \in Chunk : u = s \o t
  BY <1>3
<1>5. PICK m \in Nat : m = k - a
  BY <1>2
<1>6. a <= k /\ k <= a + b /\ m <= b
  BY <1>2, <1>5
<1>7. /\ RestOf(u, k) \in Chunk /\ Len(RestOf(u, k)) = (a + b) - k
      /\ \A idx \in 1 .. (a + b) - k : RestOf(u, k)[idx] = u[k + idx]
  <2>1. Len(u) = a + b
    BY <1>3, <1>4
  <2>2. k <= Len(u)
    BY <1>3, <1>4, <1>6, <2>1
  <2>3. /\ RestOf(u, k) \in Chunk /\ Len(RestOf(u, k)) = Len(u) - k
        /\ \A idx \in 1 .. Len(u) - k : RestOf(u, k)[idx] = u[k + idx]
    BY <2>2, RestFacts
  <2>4. QED
    BY <2>1, <2>3
<1>8. /\ RestOf(t, m) \in Chunk /\ Len(RestOf(t, m)) = b - m
      /\ \A idx \in 1 .. b - m : RestOf(t, m)[idx] = t[m + idx]
  BY <1>2, <1>6, RestFacts
<1>9. (a + b) - k = b - m
  BY <1>5
<1>10. \A idx \in 1 .. b - m : RestOf(u, k)[idx] = RestOf(t, m)[idx]
  <2> SUFFICES ASSUME NEW idx \in 1 .. b - m
               PROVE  RestOf(u, k)[idx] = RestOf(t, m)[idx]
    OBVIOUS
  <2>1. /\ idx \in 1 .. (a + b) - k /\ k + idx \in 1 .. a + b
        /\ ~(k + idx <= a) /\ (k + idx) - a = m + idx
    BY <1>5, <1>6, <1>9
  <2>2. RestOf(u, k)[idx] = u[k + idx] /\ u[k + idx] = t[(k + idx) - a]
    BY <1>3, <1>4, <1>7, <2>1
  <2>3. RestOf(t, m)[idx] = t[m + idx]
    BY <1>8
  <2>4. QED
    BY <2>1, <2>2, <2>3
<1>11. RestOf(u, k) = RestOf(t, m)
  <2> DEFINE v == RestOf(u, k)
             w == RestOf(t, m)
  <2>1. v \in Chunk /\ w \in Chunk /\ Len(v) = Len(w)
    BY <1>7, <1>8, <1>9
  <2>2. \A idx \in 1 .. Len(v) : v[idx] = w[idx]
    BY <1>7, <1>9, <1>10
  <2> HIDE DEF v, w
  <2>3. v = w
    BY <2>1, <2>2, SeqEqual DEF Chunk
  <2>4. QED
    BY <2>3 DEF v, w
<1>12. QED
  BY <1>2, <1>4, <1>5, <1>11

\* A chunk that is appended adds its words at the end.
LEMMA JoinedAppend ==
    \A q \in Seq(Chunk), w \in Chunk : Joined[Append(q, w)] = Joined[q] \o w
<1> SUFFICES ASSUME NEW w \in Chunk
             PROVE  \A q \in Seq(Chunk) : Joined[Append(q, w)] = Joined[q] \o w
  OBVIOUS
<1> DEFINE T == {q \in Seq(Chunk) : Joined[Append(q, w)] = Joined[q] \o w}
<1>1. \A q \in Seq(Chunk) : Append(q, w) \in Seq(Chunk) /\ Append(q, w) # << >>
  BY AppendProperties
<1>2. << >> \in T
  <2>1. << >> \in Seq(Chunk) /\ << >> \in Chunk
    BY EmptySeq DEF Chunk
  <2>2. Joined[<< >>] = << >>
    BY <2>1, JoinedEquation
  <2>3. Head(Append(<< >>, w)) = w /\ Tail(Append(<< >>, w)) = << >>
    BY <2>1, HeadTailAppend
  <2>4. Joined[Append(<< >>, w)] = w \o << >>
    BY <1>1, <2>1, <2>2, <2>3, JoinedEquation
  <2>5. w \o << >> = w /\ << >> \o w = w
    BY ConcatEmptySeq DEF Chunk
  <2>6. QED
    BY <2>1, <2>2, <2>4, <2>5
<1>3. ASSUME NEW q \in Seq(Chunk), q # << >>, Tail(q) \in T
      PROVE  q \in T
  <2>1. Head(q) \in Chunk /\ Tail(q) \in Seq(Chunk)
    BY <1>3, EmptyOrNot
  <2>2. PICK h \in Chunk, r \in Seq(Chunk) : h = Head(q) /\ r = Tail(q)
    BY <2>1
  <2>3. Head(Append(q, w)) = h /\ Tail(Append(q, w)) = Append(r, w)
    BY <1>3, <2>2, HeadTailAppend
  <2>4. Joined[Append(q, w)] = h \o Joined[Append(r, w)]
    BY <1>1, <2>3, JoinedEquation
  <2>5. Joined[Append(r, w)] = Joined[r] \o w
    BY <1>3, <2>2
  <2>6. Joined[r] \in Chunk
    BY JoinedEquation
  <2>7. h \o (Joined[r] \o w) = (h \o Joined[r]) \o w
    <3>1. PICK j \in Chunk : j = Joined[r]
      BY <2>6
    <3> DEFINE N == Nat
    <3>2. h \in Seq(N) /\ j \in Seq(N) /\ w \in Seq(N)
      BY DEF Chunk
    <3> HIDE DEF N
    <3>3. (h \o j) \o w = h \o (j \o w)
      BY <3>2, ConcatAssociative
    <3>4. QED
      BY <3>1, <3>3
  <2>8. Joined[q] = h \o Joined[r]
    BY <1>3, <2>2, JoinedEquation
  <2>9. QED
    BY <2>4, <2>5, <2>7, <2>8
<1>4. T = Seq(Chunk)
  <2>1. T \subseteq Seq(Chunk)
    OBVIOUS
  <2> HIDE DEF T
  <2>2. QED
    BY <1>2, <1>3, <2>1, OverSequences
<1>5. QED
  BY <1>4

\* One chunk has its own words.
LEMMA JoinedOne ==
    ASSUME NEW w \in Chunk
    PROVE  <<w>> \in Seq(Chunk) /\ Joined[<<w>>] = w
<1>1. << >> \in Seq(Chunk) /\ Joined[<< >>] = << >>
  BY EmptySeq, JoinedEquation
<1>2. Joined[Append(<< >>, w)] = << >> \o w
  BY <1>1, JoinedAppend
<1>3. << >> \o w = w
  BY ConcatEmptySeq DEF Chunk
<1>4. Append(<< >>, w) = <<w>>
  OBVIOUS
<1>5. QED
  BY <1>2, <1>3, <1>4

\* The words of the chunks are those of the first, then the others.
LEMMA JoinedLength ==
    ASSUME NEW q \in Seq(Chunk), q # << >>
    PROVE  /\ Head(q) \in Chunk /\ Tail(q) \in Seq(Chunk)
           /\ Joined[Tail(q)] \in Chunk
           /\ Joined[q] = Head(q) \o Joined[Tail(q)]
           /\ Len(Head(q)) \in Nat /\ Len(Joined[Tail(q)]) \in Nat
           /\ Len(Joined[q]) = Len(Head(q)) + Len(Joined[Tail(q)])
<1>1. Head(q) \in Chunk /\ Tail(q) \in Seq(Chunk)
  BY EmptyOrNot
<1>2. Joined[Tail(q)] \in Chunk /\ Joined[q] = Head(q) \o Joined[Tail(q)]
  BY <1>1, JoinedEquation
<1>3. PICK h \in Chunk, t \in Chunk : h = Head(q) /\ t = Joined[Tail(q)]
  BY <1>1, <1>2
<1>4. Len(h) \in Nat /\ Len(t) \in Nat /\ Len(h \o t) = Len(h) + Len(t)
  BY LenProperties, ConcatProperties DEF Chunk
<1>5. QED
  BY <1>1, <1>2, <1>3, <1>4

\* No chunk is empty.
AllFull(q) == \A idx \in 1 .. Len(q) : q[idx] # << >>

\* Trimming takes so many words from the front, chunk by chunk.
LEMMA TrimJoined ==
    \A q \in Seq(Chunk), e \in Nat :
        e <= Len(Joined[q]) =>
            /\ Trim[q][e] \in Seq(Chunk)
            /\ Joined[Trim[q][e]] = RestOf(Joined[q], e)
<1> DEFINE T == {q \in Seq(Chunk) :
                   \A e \in Nat : e <= Len(Joined[q]) =>
                       Joined[Trim[q][e]] = RestOf(Joined[q], e)}
<1>1. ASSUME NEW q \in Seq(Chunk), NEW e \in Nat, e = 0 \/ q = << >>,
             e <= Len(Joined[q])
      PROVE  Joined[Trim[q][e]] = RestOf(Joined[q], e)
  <2>1. Trim[q][e] = q
    BY <1>1, TrimEquation
  <2>2. PICK j \in Chunk : j = Joined[q]
    BY JoinedEquation
  <2>3. e = 0
    <3>1. CASE q = << >>
      <4>1. Joined[q] = << >> /\ Len(<< >>) = 0
        BY <3>1, JoinedEquation, EmptySeq
      <4>2. QED
        BY <1>1, <4>1
    <3>2. QED
      BY <1>1, <3>1
  <2>4. 0 <= Len(j)
    BY LenProperties DEF Chunk
  <2>5. RestOf(j, 0) = j
    BY <2>4, RestFacts
  <2>6. QED
    BY <2>1, <2>2, <2>3, <2>5
<1>2. << >> \in T
  <2>1. << >> \in Seq(Chunk)
    BY EmptySeq
  <2>2. QED
    BY <1>1, <2>1
<1>3. ASSUME NEW q \in Seq(Chunk), q # << >>, Tail(q) \in T
      PROVE  q \in T
  <2> SUFFICES ASSUME NEW e \in Nat, e <= Len(Joined[q])
               PROVE  Joined[Trim[q][e]] = RestOf(Joined[q], e)
    OBVIOUS
  <2>1. PICK h \in Chunk, r \in Seq(Chunk), j \in Chunk :
            h = Head(q) /\ r = Tail(q) /\ j = Joined[r]
    BY <1>3, JoinedLength
  <2>2. PICK a \in Nat, b \in Nat : a = Len(h) /\ b = Len(j)
    BY LenProperties DEF Chunk
  <2>3. Joined[q] = h \o j /\ Len(Joined[q]) = a + b /\ e <= a + b
    BY <1>3, <2>1, <2>2, JoinedLength
  <2>4. CASE e = 0
    BY <1>1, <2>4
  <2>5. CASE e # 0 /\ a <= e
    <3>1. PICK k \in Nat : k = e - a
      BY <2>5
    <3>2. Trim[q][e] = Trim[r][k]
      BY <1>3, <2>1, <2>2, <2>5, <3>1, TrimEquation
    <3>3. k <= Len(j)
      BY <2>2, <2>3, <3>1
    <3>4. Joined[Trim[r][k]] = RestOf(j, k)
      BY <1>3, <2>1, <3>3
    <3>5. RestOf(h \o j, e) = RestOf(j, e - Len(h))
      BY <2>2, <2>3, <2>5, RestInSecond
    <3>6. QED
      BY <2>2, <2>3, <3>1, <3>2, <3>4, <3>5
  <2>6. CASE e # 0 /\ a > e
    <3>1. PICK c \in Chunk : c = RestOf(h, e)
      BY <2>2, <2>6, RestFacts
    <3>2. Trim[q][e] = <<c>> \o r
      BY <1>3, <2>1, <2>2, <2>6, <3>1, TrimEquation
    <3>3. PICK p \in Seq(Chunk) : p = <<c>> \o r
      <4>1. <<c>> \in Seq(Chunk)
        OBVIOUS
      <4>2. QED
        BY <4>1, ConcatProperties
    <3>4. p # << >> /\ Head(p) = c /\ Tail(p) = r
      BY <3>3
    <3>5. Joined[p] = c \o j
      BY <2>1, <3>4, JoinedEquation
    <3>6. RestOf(h \o j, e) = RestOf(h, e) \o j
      <4>1. e <= Len(h)
        BY <2>2, <2>6
      <4>2. QED
        BY <4>1, RestInFirst
    <3>7. QED
      BY <2>3, <3>1, <3>2, <3>3, <3>5, <3>6
  <2>7. QED
    BY <2>4, <2>5, <2>6
<1>4. T = Seq(Chunk)
  <2>1. T \subseteq Seq(Chunk)
    OBVIOUS
  <2> HIDE DEF T
  <2>2. QED
    BY <1>2, <1>3, <2>1, OverSequences
<1>5. \A q \in Seq(Chunk), e \in Nat : Trim[q][e] \in Seq(Chunk)
  BY TrimEquation
<1>6. QED
  BY <1>4, <1>5

\* And leaves no chunk empty.
LEMMA TrimFull ==
    \A q \in Seq(Chunk), e \in Nat : AllFull(q) => AllFull(Trim[q][e])
<1> DEFINE T == {q \in Seq(Chunk) :
                   AllFull(q) => \A e \in Nat : AllFull(Trim[q][e])}
<1>1. << >> \in T
  <2>1. << >> \in Seq(Chunk)
    BY EmptySeq
  <2>2. \A e \in Nat : Trim[<< >>][e] = << >>
    BY <2>1, TrimEquation
  <2>3. QED
    BY <2>1, <2>2
<1>2. ASSUME NEW q \in Seq(Chunk), q # << >>, Tail(q) \in T
      PROVE  q \in T
  <2> SUFFICES ASSUME AllFull(q), NEW e \in Nat
               PROVE  AllFull(Trim[q][e])
    OBVIOUS
  <2>1. PICK h \in Chunk, r \in Seq(Chunk) : h = Head(q) /\ r = Tail(q)
    BY <1>2, EmptyOrNot
  <2>2. PICK a \in Nat : a = Len(h)
    BY LenProperties DEF Chunk
  <2>3. AllFull(r)
    <3> SUFFICES ASSUME NEW idx \in 1 .. Len(r)
                 PROVE  r[idx] # << >>
      BY DEF AllFull
    <3>1. /\ Len(r) \in Nat /\ Len(q) \in Nat /\ Len(r) = Len(q) - 1
          /\ r[idx] = q[idx + 1]
      BY <1>2, <2>1, EmptyOrNot, HeadTailProperties
    <3>2. idx + 1 \in 1 .. Len(q)
      BY <3>1
    <3>3. QED
      BY <3>1, <3>2 DEF AllFull
  <2>4. CASE e = 0
    <3>1. Trim[q][e] = q
      BY <2>4, TrimEquation
    <3>2. QED
      BY <3>1
  <2>5. CASE e # 0 /\ a <= e
    <3>1. e - a \in Nat
      BY <2>5
    <3>2. Trim[q][e] = Trim[r][e - a]
      BY <1>2, <2>1, <2>2, <2>5, TrimEquation
    <3>3. QED
      BY <1>2, <2>1, <2>3, <3>1, <3>2
  <2>6. CASE e # 0 /\ a > e
    <3>1. PICK c \in Chunk : c = RestOf(h, e) /\ Len(c) = a - e
      <4>1. e <= Len(h)
        BY <2>2, <2>6
      <4>2. RestOf(h, e) \in Chunk /\ Len(RestOf(h, e)) = Len(h) - e
        BY <4>1, RestFacts
      <4>3. QED
        BY <2>2, <4>2
    <3>2. Trim[q][e] = <<c>> \o r
      BY <1>2, <2>1, <2>2, <2>6, <3>1, TrimEquation
    <3>3. c # << >>
      <4>1. Len(c) # 0
        BY <2>6, <3>1
      <4>2. QED
        BY <4>1
    <3>4. AllFull(<<c>> \o r)
      <4> SUFFICES ASSUME NEW idx \in 1 .. Len(<<c>> \o r)
                   PROVE  (<<c>> \o r)[idx] # << >>
        BY DEF AllFull
      <4>1. Len(r) \in Nat
        BY EmptyOrNot
      <4>2. /\ Len(<<c>> \o r) = 1 + Len(r)
            /\ (<<c>> \o r)[idx] = IF idx = 1 THEN c ELSE r[idx - 1]
        BY <4>1
      <4>3. idx = 1 \/ idx - 1 \in 1 .. Len(r)
        BY <4>1, <4>2
      <4>4. QED
        BY <2>3, <3>3, <4>2, <4>3 DEF AllFull
    <3>5. QED
      BY <3>2, <3>4
  <2>7. QED
    BY <2>4, <2>5, <2>6
<1>3. T = Seq(Chunk)
  <2>1. T \subseteq Seq(Chunk)
    OBVIOUS
  <2> HIDE DEF T
  <2>2. QED
    BY <1>1, <1>2, <2>1, OverSequences
<1>4. QED
  BY <1>3

\* The last words of a chunk are those behind the others.
LEMMA LastIsRest ==
    ASSUME NEW s \in Chunk, NEW num \in Nat
    PROVE  /\ Len(s) <= num => LastWords(s, num) = s
           /\ Len(s) > num => /\ Len(s) - num \in Nat /\ Len(s) - num <= Len(s)
                            /\ LastWords(s, num) = RestOf(s, Len(s) - num)
           /\ LastWords(s, num) \in Chunk
           /\ Len(LastWords(s, num)) <= num
           /\ Len(s) >= num => Len(LastWords(s, num)) = num
<1>1. PICK l \in Nat : l = Len(s)
  BY LenProperties DEF Chunk
<1>2. CASE l <= num
  <2>1. LastWords(s, num) = s
    BY <1>1, <1>2 DEF LastWords
  <2>2. QED
    BY <1>1, <1>2, <2>1
<1>3. CASE l > num
  <2>1. PICK k \in Nat : k = l - num
    BY <1>3
  <2>2. k <= l /\ l - k = num /\ ~(l <= num) /\ (l - num) + 1 = k + 1
    BY <1>3, <2>1
  <2>3. LastWords(s, num) = SubSeq(s, (l - num) + 1, l)
    BY <1>1, <2>2 DEF LastWords
  <2>4. LastWords(s, num) = RestOf(s, k)
    BY <1>1, <2>2, <2>3 DEF RestOf
  <2>5. RestOf(s, k) \in Chunk /\ Len(RestOf(s, k)) = l - k
    BY <1>1, <2>2, RestFacts
  <2>6. QED
    BY <1>1, <1>3, <2>1, <2>2, <2>4, <2>5
<1>4. QED
  BY <1>2, <1>3

\* Datagrams as the loop takes them.
Received == [magic : BOOLEAN, words : Chunk]

\* The inductive invariant: the types, and that what is pending is the newest.
ViewerInv ==
    /\ loop \in {"drain", "frame", "ended"} /\ windowed \in BOOLEAN
    /\ socket \in Seq(Received) /\ Len(socket) <= SocketRoom
    /\ next \in Nat
    /\ drained \in 0 .. max_drain_packets
    /\ pending_chunks \in Seq(Chunk) /\ AllFull(pending_chunks)
    /\ newest \in Chunk /\ Len(newest) <= max_frame_words
    /\ PendingIsNewest

\* What the assumption says of each constant.
LEMMA ViewerConstants ==
    /\ SocketRoom \in Nat /\ SocketRoom > 0
    /\ max_drain_packets \in Nat /\ max_drain_packets > 0
    /\ max_frame_words \in Nat /\ max_frame_words > 0
    /\ IdMod \in Nat /\ IdMod > 0
    /\ \A d \in Datagrams : d[1] \in Nat /\ d[2] \in Nat
<1>1. \A x \in {SocketRoom, max_drain_packets, max_frame_words, IdMod} :
          x \in Nat /\ x > 0
  BY ViewerAssumption DEF ViewerAssumption
<1>2. \A d \in Datagrams : d[1] \in Nat /\ d[2] \in Nat
  BY ViewerAssumption DEF ViewerAssumption
<1>3. QED
  BY <1>1, <1>2

\* No chunks, no words.
LEMMA NoneJoined ==
    << >> \in Chunk /\ << >> \in Seq(Chunk) /\ Joined[<< >>] = << >>
    /\ AllFull(<< >>) /\ Len(<< >>) = 0
<1>1. << >> \in Chunk /\ << >> \in Seq(Chunk) /\ Len(<< >>) = 0
  BY EmptySeq DEF Chunk
<1>2. Joined[<< >>] = << >>
  BY <1>1, JoinedEquation
<1>3. AllFull(<< >>)
  BY DEF AllFull
<1>4. QED
  BY <1>1, <1>2, <1>3

\* The viewer starts with nothing.
LEMMA ViewerStarts == ViewerInit => ViewerInv
<1> SUFFICES ASSUME ViewerInit PROVE ViewerInv
  OBVIOUS
<1>1. << >> \in Seq(Received)
  BY EmptySeq
<1>2. QED
  BY <1>1, NoneJoined, ViewerConstants DEF ViewerInit, ViewerInv, PendingIsNewest

\* append_limited keeps exactly the newest words, and their number.
LEMMA AppendKeeps ==
    ASSUME NEW w \in Chunk, ViewerInv, AppendLimited(w),
           newest' = LastWords(newest \o w, max_frame_words)
    PROVE  /\ pending_chunks' \in Seq(Chunk) /\ AllFull(pending_chunks')
           /\ newest' \in Chunk /\ Len(newest') <= max_frame_words
           /\ Joined[pending_chunks'] = newest'
           /\ pending_words' = Len(newest')
<1>1. PICK M \in Nat, num \in Chunk, q \in Seq(Chunk) :
          M = max_frame_words /\ M > 0 /\ num = newest /\ q = pending_chunks
  BY ViewerConstants DEF ViewerInv
<1>2. PICK a \in Nat, b \in Nat : a = Len(num) /\ b = Len(w)
  BY LenProperties DEF Chunk
<1>3. PICK t \in Nat : t = a + b
  OBVIOUS
<1>4. PICK u \in Chunk : u = num \o w /\ Len(u) = t
  <2>1. num \o w \in Chunk /\ Len(num \o w) = Len(num) + Len(w)
    BY ConcatProperties DEF Chunk
  <2>2. QED
    BY <1>2, <1>3, <2>1
<1>5. /\ newest' = LastWords(u, M)
      /\ newest' \in Chunk /\ Len(newest') <= max_frame_words
  <2>1. newest' = LastWords(u, M)
    BY <1>1, <1>4
  <2>2. LastWords(u, M) \in Chunk /\ Len(LastWords(u, M)) <= M
    BY LastIsRest
  <2>3. QED
    BY <1>1, <2>1, <2>2
<1>6. Joined[q] = num /\ pending_words = a /\ a <= M /\ AllFull(q)
  BY <1>1, <1>2 DEF ViewerInv, PendingIsNewest
<1>7. CASE /\ w = << >>
           /\ UNCHANGED <<pending_chunks, pending_words>>
  <2>1. num \o w = num
    BY <1>7, ConcatEmptySeq DEF Chunk
  <2>2. LastWords(num, M) = num
    BY <1>2, <1>6, LastIsRest
  <2>3. newest' = num
    BY <1>4, <1>5, <2>1, <2>2
  <2>4. QED
    BY <1>1, <1>2, <1>5, <1>6, <1>7, <2>3
<1>8. CASE /\ Len(w) >= max_frame_words
           /\ pending_chunks' = <<LastWords(w, max_frame_words)>>
           /\ pending_words' = max_frame_words
  <2>1. PICK l \in Chunk : l = LastWords(w, M)
    BY LastIsRest
  <2>2. Len(l) = M /\ b >= M
    <3>1. Len(w) >= M
      BY <1>1, <1>8
    <3>2. QED
      BY <1>2, <2>1, <3>1, LastIsRest
  <2>3. l # << >>
    BY <1>1, <2>2, NoneJoined
  <2>4. LastWords(u, M) = l
    <3>1. CASE t <= M
      <4>1. a = 0 /\ b = M
        BY <1>3, <2>2, <3>1
      <4>2. num = << >>
        BY <1>2, <4>1, EmptySeq DEF Chunk
      <4>3. u = w
        BY <1>4, <4>2, ConcatEmptySeq DEF Chunk
      <4>4. QED
        BY <2>1, <4>3
    <3>2. CASE t > M
      <4>1. PICK k \in Nat : k = t - M
        BY <3>2
      <4>2. LastWords(u, M) = RestOf(u, k)
        BY <1>4, <3>2, <4>1, LastIsRest
      <4>3. a <= k /\ k <= a + b /\ k - a = b - M
        BY <1>3, <2>2, <4>1
      <4>4. RestOf(u, k) = RestOf(w, b - M)
        <5>1. Len(num) <= k /\ k <= Len(num) + Len(w)
          BY <1>2, <4>3
        <5>2. RestOf(num \o w, k) = RestOf(w, k - Len(num))
          BY <5>1, RestInSecond
        <5>3. QED
          BY <1>2, <1>4, <4>3, <5>2
      <4>5. LastWords(w, M) = RestOf(w, b - M)
        <5>1. CASE b > M
          BY <1>2, <5>1, LastIsRest
        <5>2. CASE b <= M
          <6>1. b - M = 0 /\ 0 <= Len(w)
            BY <1>2, <2>2, <5>2
          <6>2. RestOf(w, 0) = w
            BY <6>1, RestFacts
          <6>3. LastWords(w, M) = w
            BY <1>2, <5>2, LastIsRest
          <6>4. QED
            BY <6>1, <6>2, <6>3
        <5>3. QED
          BY <5>1, <5>2
      <4>6. QED
        BY <2>1, <4>2, <4>4, <4>5
    <3>3. QED
      BY <3>1, <3>2
  <2>5. pending_chunks' = <<l>> /\ pending_words' = M
    BY <1>1, <1>8, <2>1
  <2>6. <<l>> \in Seq(Chunk) /\ Joined[<<l>>] = l
    BY JoinedOne
  <2>7. AllFull(<<l>>)
    BY <2>3 DEF AllFull
  <2>8. QED
    BY <1>1, <1>5, <2>2, <2>4, <2>5, <2>6, <2>7
<1>9. CASE /\ w # << >> /\ Len(w) < max_frame_words
           /\ pending_chunks' = Trimmed(Append(pending_chunks, w), Excess(w))
           /\ pending_words' = Total(w) - Excess(w)
  <2>1. PICK e \in Nat : e = IF t > M THEN t - M ELSE 0
    <3>1. t > M => t - M \in Nat
      OBVIOUS
    <3>2. QED
      BY <3>1
  <2>2. Total(w) = t /\ Excess(w) = e
    BY <1>1, <1>2, <1>3, <1>6, <2>1 DEF Total, Excess
  <2>3. PICK p \in Seq(Chunk) : p = Append(q, w)
    BY AppendProperties
  <2>4. pending_chunks' = Trim[p][e] /\ pending_words' = t - e
    BY <1>1, <1>9, <2>2, <2>3 DEF Trimmed
  <2>5. Joined[p] = u
    BY <1>4, <1>6, <2>3, JoinedAppend
  <2>6. e <= t
    BY <1>1, <2>1
  <2>7. Trim[p][e] \in Seq(Chunk) /\ Joined[Trim[p][e]] = RestOf(u, e)
    BY <1>4, <2>5, <2>6, TrimJoined
  <2>8. LastWords(u, M) = RestOf(u, e)
    <3>1. CASE t > M
      BY <1>4, <2>1, <3>1, LastIsRest
    <3>2. CASE t <= M
      <4>1. e = 0 /\ 0 <= Len(u)
        BY <1>4, <2>1, <3>2
      <4>2. RestOf(u, 0) = u
        BY <4>1, RestFacts
      <4>3. LastWords(u, M) = u
        BY <1>4, <3>2, LastIsRest
      <4>4. QED
        BY <4>1, <4>2, <4>3
    <3>3. QED
      BY <3>1, <3>2
  <2>9. Len(RestOf(u, e)) = t - e
    BY <1>4, <2>6, RestFacts
  <2>10. AllFull(p)
    <3> SUFFICES ASSUME NEW idx \in 1 .. Len(p)
                 PROVE  p[idx] # << >>
      BY DEF AllFull
    <3>1. /\ Len(q) \in Nat /\ Len(p) = Len(q) + 1
          /\ \A j \in 1 .. Len(q) : p[j] = q[j]
          /\ p[Len(q) + 1] = w
      BY <2>3, AppendProperties, LenProperties
    <3>2. CASE idx = Len(q) + 1
      BY <1>9, <3>1, <3>2
    <3>3. CASE idx # Len(q) + 1
      <4>1. idx \in 1 .. Len(q)
        BY <3>1, <3>3
      <4>2. QED
        BY <1>6, <3>1, <4>1 DEF AllFull
    <3>4. QED
      BY <3>2, <3>3
  <2>11. AllFull(Trim[p][e])
    BY <2>10, TrimFull
  <2>12. QED
    BY <1>5, <2>4, <2>7, <2>8, <2>9, <2>11
<1>10. QED
  BY <1>7, <1>8, <1>9 DEF AppendLimited

\* An arrival changes the receive buffer only.
LEMMA ArriveKeeps ==
    ViewerInv /\ Arrivals => ViewerInv'
<1> SUFFICES ASSUME ViewerInv, Arrivals
             PROVE  ViewerInv'
  OBVIOUS
<1>1. UNCHANGED <<loop, windowed, drained, pending_chunks, pending_words, newest>>
  BY DEF Arrivals, ArriveJunk, Arrive
<1>2. \E r \in Received : socket' = Append(socket, r) /\ next' \in Nat
  <2>1. CASE ArriveJunk
    <3>1. [magic |-> FALSE, words |-> << >>] \in Received
      BY NoneJoined DEF Received
    <3>2. socket' = Append(socket, [magic |-> FALSE, words |-> << >>]) /\ next' \in Nat
      BY <2>1 DEF ArriveJunk, ViewerInv
    <3>3. QED
      BY <3>1, <3>2
  <2>2. ASSUME NEW d \in Datagrams, Arrive(d)
        PROVE  \E r \in Received : socket' = Append(socket, r) /\ next' \in Nat
    <3>1. PICK m \in Nat : m = Least(d[1], d[2])
      BY ViewerConstants DEF Least
    <3>2. PICK k \in Nat : k = IdMod /\ k > 0
      BY ViewerConstants
    <3>3. PICK x \in Nat : x = next
      BY DEF ViewerInv
    <3>4. \A idx \in Nat : (x + idx) % k \in Nat
      BY <3>2
    <3>5. Numbers(m) \in [1 .. m -> Nat]
      BY <3>2, <3>3, <3>4 DEF Numbers
    <3>6. Numbers(m) \in Chunk
      BY <3>5, SeqDef DEF Chunk
    <3>7. [magic |-> TRUE, words |-> Numbers(m)] \in Received
      BY <3>6 DEF Received
    <3>8. /\ socket' = Append(socket, [magic |-> TRUE, words |-> Numbers(m)])
          /\ next' = (x + m) % k
      BY <2>2, <3>1, <3>2, <3>3 DEF Arrive
    <3>9. next' \in Nat
      BY <3>4, <3>8
    <3>10. QED
      BY <3>7, <3>8, <3>9
  <2>3. QED
    BY <2>1, <2>2 DEF Arrivals
<1>3. Len(socket) < SocketRoom
  BY DEF Arrivals, ArriveJunk, Arrive
<1>4. PICK r \in Received : socket' = Append(socket, r) /\ next' \in Nat
  BY <1>2
<1>5. /\ socket' \in Seq(Received) /\ Len(socket') = Len(socket) + 1
      /\ Len(socket) \in Nat
  BY <1>4, AppendProperties, LenProperties DEF ViewerInv
<1>6. Len(socket') <= SocketRoom
  BY <1>3, <1>5, ViewerConstants
<1>7. QED
  BY <1>1, <1>4, <1>5, <1>6 DEF ViewerInv, PendingIsNewest

\* A datagram that is taken is appended, or is junk.
LEMMA ReceiveKeeps ==
    ViewerInv /\ Receive => ViewerInv'
<1> SUFFICES ASSUME ViewerInv, Receive
             PROVE  ViewerInv'
  OBVIOUS
<1>1. UNCHANGED <<loop, windowed, next>> /\ socket # << >> /\ socket' = Tail(socket)
  BY DEF Receive
<1>2. /\ Head(socket) \in Received
      /\ socket' \in Seq(Received) /\ Len(socket') = Len(socket) - 1
      /\ Len(socket) \in Nat
  BY <1>1, HeadTailProperties, LenProperties DEF ViewerInv
<1>3. Len(socket') <= SocketRoom
  BY <1>2, ViewerConstants DEF ViewerInv
<1>4. drained' \in 0 .. max_drain_packets
  BY ViewerConstants DEF Receive, ViewerInv, Least, MoreToDrain
<1>5. /\ pending_chunks' \in Seq(Chunk) /\ AllFull(pending_chunks')
      /\ newest' \in Chunk /\ Len(newest') <= max_frame_words
      /\ Joined[pending_chunks'] = newest'
      /\ pending_words' = Len(newest')
  <2>1. CASE Head(socket).magic /\ windowed
    <3>1. PICK w \in Chunk : w = Head(socket).words
      BY <1>2 DEF Received
    <3>2. /\ AppendLimited(w)
          /\ newest' = LastWords(newest \o w, max_frame_words)
      BY <2>1, <3>1 DEF Receive
    <3>3. QED
      BY <3>2, AppendKeeps
  <2>2. CASE ~(Head(socket).magic /\ windowed)
    <3>1. UNCHANGED <<pending_chunks, pending_words, newest>>
      BY <2>2 DEF Receive
    <3>2. QED
      BY <3>1 DEF ViewerInv, PendingIsNewest
  <2>3. QED
    BY <2>1, <2>2
<1>6. QED
  BY <1>1, <1>2, <1>3, <1>4, <1>5 DEF ViewerInv, PendingIsNewest

\* Each step keeps the invariant.
LEMMA ViewerStep == ViewerInv /\ [ViewerNext]_viewer => ViewerInv'
<1> SUFFICES ASSUME ViewerInv, [ViewerNext]_viewer
             PROVE  ViewerInv'
  OBVIOUS
<1>1. CASE Arrivals
  BY <1>1, ArriveKeeps
<1>2. CASE Receive
  BY <1>2, ReceiveKeeps
<1>3. CASE EndDrain
  BY <1>3 DEF EndDrain, ViewerInv, PendingIsNewest
<1>4. CASE Frame
  <2>1. 0 \in 0 .. max_drain_packets /\ 0 <= max_frame_words
    BY ViewerConstants
  <2>2. QED
    BY <1>4, <2>1, NoneJoined DEF Frame, NextRound, ViewerInv, PendingIsNewest
<1>5. CASE NotDue
  <2>1. 0 \in 0 .. max_drain_packets
    BY ViewerConstants
  <2>2. QED
    BY <1>5, <2>1 DEF NotDue, NextRound, ViewerInv, PendingIsNewest
<1>6. CASE QuitViewer
  BY <1>6 DEF QuitViewer, ViewerInv, PendingIsNewest
<1>7. CASE UNCHANGED viewer
  BY <1>7 DEF viewer, ViewerInv, PendingIsNewest
<1>8. QED
  BY <1>1, <1>2, <1>3, <1>4, <1>5, <1>6, <1>7 DEF ViewerNext, ViewerLoop

\* It says what the type invariant says.
LEMMA ViewerTypes == ViewerInv => ViewerTypeOK
<1> SUFFICES ASSUME ViewerInv PROVE ViewerTypeOK
  OBVIOUS
<1>1. pending_words = Len(newest) /\ Len(newest) \in Nat
  BY LenProperties DEF ViewerInv, PendingIsNewest, Chunk
<1>2. pending_words \in 0 .. max_frame_words
  BY <1>1, ViewerConstants DEF ViewerInv
<1>3. \A idx \in DOMAIN pending_chunks : pending_chunks[idx] # << >>
  BY LenProperties DEF ViewerInv, AllFull
<1>4. QED
  BY <1>2, <1>3 DEF ViewerInv, ViewerTypeOK

(***************************************************************************)
(* Type correctness of the viewer: the limits hold and no chunk is empty.  *)
(***************************************************************************)
THEOREM ViewerTyped == ViewerSpec => []ViewerTypeOK
<1>1. ViewerInit => ViewerInv
  BY ViewerStarts
<1>2. ViewerInv /\ [ViewerNext]_viewer => ViewerInv'
  BY ViewerStep
<1>3. ViewerInv => ViewerTypeOK
  BY ViewerTypes
<1>4. QED
  BY <1>1, <1>2, <1>3, PTL DEF ViewerSpec

(***************************************************************************)
(* What a frame will draw is exactly the newest words since the frame      *)
(* before, and the number the limit is checked with is theirs              *)
(* (actnow_client.py, append_limited), for every limit and every sequence of *)
(* datagrams: the safety half of NewestDrawn.                              *)
(***************************************************************************)
THEOREM NewestCorrect == ViewerSpec => []PendingIsNewest
<1>1. ViewerInit => ViewerInv
  BY ViewerStarts
<1>2. ViewerInv /\ [ViewerNext]_viewer => ViewerInv'
  BY ViewerStep
<1>3. ViewerInv => PendingIsNewest
  BY DEF ViewerInv
<1>4. QED
  BY <1>1, <1>2, <1>3, PTL DEF ViewerSpec

-----------------------------------------------------------------------------
(***************************************************************************)
(* All the parts.  A step of one part leaves the others alone, so each part *)
(* in the composition behaves as its own specification says, but for       *)
(* fairness, and what is proved of a part holds there.                     *)
(***************************************************************************)

\* The invariants of the live viewers together.
TailFine == TailInv /\ UsedCounted /\ ShowsRight

\* Each step keeps them.
LEMMA TailFineStep ==
    TailFine /\ [TailNext]_liveTail => TailFine'
  BY TailStep, CountKept, ShowsRightStep DEF TailFine

\* Those of the server.
ServerFine == ServerTypeOK /\ PausedOnlyAfterTimeout /\ NoExtraReset

\* Each part starts as it starts alone.
LEMMA PartsStart ==
    PartsInit =>
        /\ Init /\ IntCtrlInit /\ FifoOutInit /\ ServerInit /\ ViewerInit
        /\ TailInit /\ MotionInit /\ PlaybackInit /\ RotationInit /\ RegistryInit
  BY DEF PartsInit

\* And goes as it goes alone.
LEMMA PartsGo ==
    [PartsNext]_parts =>
        /\ [Next]_vars /\ [IntCtrlNext]_intCtrl /\ [FifoOutNext]_fifoOut
        /\ [ServerNext]_server /\ [ViewerNext]_viewer /\ [TailNext]_liveTail
        /\ [MotionNext]_motion /\ [PlaybackNext]_playback
        /\ [Rotate]_turning /\ [RegistryNext]_fileRegistry
<1> USE DEF chip, tools, host
<1>1. CASE Bus_(Next)
  BY <1>1 DEF Bus_
<1>2. CASE Interrupt_(IntCtrlNext)
  BY <1>2 DEF Interrupt_
<1>3. CASE FifoOut_(FifoOutNext)
  BY <1>3 DEF FifoOut_
<1>4. CASE Server_(ServerNext)
  BY <1>4 DEF Server_
<1>5. CASE Viewer_(ViewerNext)
  BY <1>5 DEF Viewer_
<1>6. CASE Tail_(TailNext)
  BY <1>6 DEF Tail_
<1>7. CASE Motion_(MotionNext)
  BY <1>7 DEF Motion_
<1>8. CASE Player_(PlaybackNext)
  BY <1>8 DEF Player_
<1>9. CASE Rotation_(Rotate)
  BY <1>9 DEF Rotation_
<1>10. CASE Registry_(RegistryNext)
  BY <1>10 DEF Registry_
<1>11. CASE UNCHANGED parts
  BY <1>11 DEF parts
<1>12. QED
  BY <1>1, <1>2, <1>3, <1>4, <1>5, <1>6, <1>7, <1>8, <1>9, <1>10, <1>11
  DEF PartsNext

(***************************************************************************)
(* The types and the invariants of all the parts, for every value of their *)
(* constants.                                                              *)
(***************************************************************************)
THEOREM PartsCorrect == PartsSpec => []PartsInv
<1>1. PartsSpec => []Inv
  BY PartsStart, PartsGo, InitInv, StepInv, PTL DEF PartsSpec
<1>2. PartsSpec => [](IntCtrlTypeOK /\ HeldIsEnabled)
  BY PartsStart, PartsGo, IntCtrlTyped, HeldCorrect, PTL DEF PartsSpec, IntCtrlSpec
<1>3. PartsSpec => [](FifoOutTypeOK /\ RingConsistent)
  BY PartsStart, PartsGo, FifoOutTyped, RingCorrect, PTL DEF PartsSpec, FifoOutSpec
<1>4. PartsSpec => []ServerFine
  <2>1. ServerInit => ServerFine
    BY TypeInit DEF ServerInit, ServerFine, PausedOnlyAfterTimeout, NoExtraReset, Edge
  <2>2. ServerFine /\ [ServerNext]_server => ServerFine'
    BY TypeStep, PauseStep, ResetsStep DEF ServerFine
  <2>3. QED
    BY PartsStart, PartsGo, <2>1, <2>2, PTL DEF PartsSpec
<1>5. PartsSpec => []ViewerTypeOK
  BY PartsStart, PartsGo, ViewerStarts, ViewerStep, ViewerTypes, PTL DEF PartsSpec
<1>6. PartsSpec => []TailTypeOK
  <2>1. TailInit => TailFine
    BY TailStarts, CountStarts, ShowsRightStarts DEF TailFine
  <2>2. TailFine /\ [TailNext]_liveTail => TailFine'
    BY TailFineStep
  <2>3. TailFine => TailTypeOK
    BY TailTypes DEF TailFine
  <2>4. QED
    BY PartsStart, PartsGo, <2>1, <2>2, <2>3, PTL DEF PartsSpec
<1>7. PartsSpec => []MotionTypeOK
  BY PartsStart, PartsGo, MotionTyped, PTL DEF PartsSpec, MotionSpec
<1>8. PartsSpec => []PlaybackTypeOK
  BY PartsStart, PartsGo, PlaybackTyped, PTL DEF PartsSpec, PlaybackSpec
<1>9. Inv /\ IntCtrlTypeOK /\ HeldIsEnabled /\ FifoOutTypeOK /\ RingConsistent
      /\ ServerFine /\ ViewerTypeOK /\ TailTypeOK /\ MotionTypeOK /\ PlaybackTypeOK
      => PartsInv
  BY DEF Inv, ServerFine, PartsInv
<1>10. QED
  BY <1>1, <1>2, <1>3, <1>4, <1>5, <1>6, <1>7, <1>8, <1>9, PTL

=============================================================================
