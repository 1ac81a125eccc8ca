------------------------------ MODULE MCParts ------------------------------
(***************************************************************************)
(* The parts of the system that are checked one by one, each with the      *)
(* environment its module gives it: the load/store path, the interrupt     *)
(* controller and the output FIFO of the chip, the control thread of the   *)
(* server, the result viewer, the live viewers, the players of recordings, *)
(* the motion detector, the rotation, the generator of file numbers.  They *)
(* do not interact here (Soc composes the first three), so a behaviour     *)
(* picks one and leaves the others as they are at the start.               *)
(***************************************************************************)
EXTENDS Bus, Interrupt, FifoOut, FpgaServer, ResultViewer, LiveTail,
        Motion, Playback, Rotation, FileRegistry

VARIABLE part

chip  == <<vars, intCtrl, fifoOut>>
tools == <<playback, turning, fileRegistry>>
host  == <<viewer, liveTail, motion, tools>>
parts == <<part, chip, server, host>>

PartNames == {"bus", "interrupt", "fifo_out", "server", "viewer", "tail",
              "motion", "player", "rotation", "registry"}

\* A part that is not picked has one initial state.
PartsInit ==
    /\ part \in PartNames
    /\ IntCtrlInit /\ FifoOutInit /\ MotionInit /\ RegistryInit
    /\ RotationInit
    /\ part # "rotation" => event = Pack(1, 0, 0)
    /\ Init
    /\ part # "bus" => mmu_rdata = 0 /\ dmx_rdata = 0
    /\ ServerInit
    /\ part # "server" => ~slow /\ image = CHOOSE f \in Images : TRUE
    /\ ViewerInit
    /\ part # "viewer" => windowed
    /\ TailInit
    /\ part # "tail" => /\ kind = CHOOSE k \in Kinds : TRUE
                        /\ n = CHOOSE m \in Recordings : TRUE
    /\ PlaybackInit
    /\ part # "player" => /\ player = "replay" /\ ~repeat
                          /\ size = CHOOSE m \in Captures : TRUE

Bus_(A) ==
    /\ part = "bus" /\ A
    /\ UNCHANGED <<part, intCtrl, fifoOut, server, host>>
Interrupt_(A) ==
    /\ part = "interrupt" /\ A
    /\ UNCHANGED <<part, vars, fifoOut, server, host>>
FifoOut_(A) ==
    /\ part = "fifo_out" /\ A
    /\ UNCHANGED <<part, vars, intCtrl, server, host>>
Server_(A) ==
    /\ part = "server" /\ A
    /\ UNCHANGED <<part, chip, host>>
Viewer_(A) ==
    /\ part = "viewer" /\ A
    /\ UNCHANGED <<part, chip, server, liveTail, motion, tools>>
Tail_(A) ==
    /\ part = "tail" /\ A
    /\ UNCHANGED <<part, chip, server, viewer, motion, tools>>
Motion_(A) ==
    /\ part = "motion" /\ A
    /\ UNCHANGED <<part, chip, server, viewer, liveTail, tools>>
Player_(A) ==
    /\ part = "player" /\ A
    /\ UNCHANGED <<part, chip, server, viewer, liveTail, motion, turning,
                   fileRegistry>>
Rotation_(A) ==
    /\ part = "rotation" /\ A
    /\ UNCHANGED <<part, chip, server, viewer, liveTail, motion, playback,
                   fileRegistry>>
Registry_(A) ==
    /\ part = "registry" /\ A
    /\ UNCHANGED <<part, chip, server, viewer, liveTail, motion, playback,
                   turning>>

PartsNext == \/ Bus_(Next) \/ Interrupt_(IntCtrlNext) \/ FifoOut_(FifoOutNext)
             \/ Server_(ServerNext) \/ Viewer_(ViewerNext)
             \/ Tail_(TailNext) \/ Motion_(MotionNext)
             \/ Player_(PlaybackNext) \/ Rotation_(Rotate)
             \/ Registry_(RegistryNext)

\* The fairness of every part, as in its own specification.
PartsSpec ==
    /\ PartsInit /\ [][PartsNext]_parts
    /\ WF_parts(Bus_(BusStep))
    /\ WF_parts(Server_(ThreadStep)) /\ SF_parts(Server_(TimesOut))
    /\ WF_parts(Server_(Handshake)) /\ WF_parts(Server_(Clock))
    /\ WF_parts(Server_(CopyWord))
    /\ WF_parts(Viewer_(ViewerLoop)) /\ SF_parts(Viewer_(Frame))
    /\ WF_parts(Tail_(TailLoop))

(***************************************************************************)
(* Types, and the invariants the proofs about the parts start from: the    *)
(* two routers agree on the requests in flight, an event in delivery       *)
(* belongs to an enabled line, the indices of the FIFO agree with its      *)
(* count, the camera is cut off between commands only after a drain that   *)
(* failed, and the core is never reset more often than asked for.          *)
(***************************************************************************)
PartsInv ==
    /\ TypeOK /\ IntCtrlTypeOK /\ FifoOutTypeOK /\ ServerTypeOK /\ ViewerTypeOK
    /\ TailTypeOK /\ MotionTypeOK /\ PlaybackTypeOK
    /\ RoutersAgree /\ HeldIsEnabled /\ RingConsistent
    /\ PausedOnlyAfterTimeout /\ NoExtraReset

-----------------------------------------------------------------------------
(***************************************************************************)
(* Once a simulator that was left behind has touched the results file, no  *)
(* property of the live viewers promises anything until the next one       *)
(* starts.  In the last session none does: it is not followed further.     *)
(***************************************************************************)
Unmixed == spoilt => session < MaxSessions

\* No word, one, the two that fit, more than fit; a header that promises more
\* words than there are.
MCDatagrams == {<<0, 0>>, <<1, 1>>, <<2, 2>>, <<4, 4>>, <<3, 1>>}

\* An input and outputs, one of them under the name of the input; an input
\* that is missing, and a kind there is not.
MCRegistryLines == {[kind |-> "input",  symbol |-> "A", path |-> "f"],
                    [kind |-> "output", symbol |-> "A", path |-> "h"],
                    [kind |-> "output", symbol |-> "B", path |-> "h"],
                    [kind |-> "input",  symbol |-> "C", path |-> "lost"],
                    [kind |-> "image",  symbol |-> "C", path |-> "f"]}

\* The corner of four cells, and the far corner of the sensor.
MCPixels == {<<31, 32>>, <<125, 111>>}
=============================================================================
