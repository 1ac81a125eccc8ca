# actnow in TLA+

actnow is an asynchronous (self-timed) RISC-V system on chip for event cameras,
written in ACT/CHP, with firmware in C, programmable logic in Verilog around it,
and Python on both ends of the network. This directory models it: what the
hardware processes and the firmware do together, what can interleave, and what a
reset at a bad moment does.

## 1. The system

| Component | State | Operations | What makes it correct |
|---|---|---|---|
| `fifo_in.act` | ring buffer, trigger level, `armed`, `reads_since_fire` | push, CPU load, trigger write, `event_out` | FIFO order; one edge per batch; no batch without an edge |
| `fifo_out.act` | ring buffer | CPU store, pop | FIFO order; backpressure instead of loss |
| `interrupt.act` | vector table, enable mask, the event it holds | relayed reset, register access, accept, deliver | only enabled events reach the CPU, with the vector then installed |
| `mmu.act`, `demux.act` | one request, read-data register | take, route, answer | a sequential memory for the CPU although stores are posted |
| `cpu.act` | pc, registers, control state | boot, reset, fetch, store, load, WFI, wake | boots, runs one handler at a time, always returns to idle |
| `soc.act`, `periphery.act` | wiring | - | the composition |
| `software/application` and the `dvs_*` batch programs | program position, batch in hand | `main()`, handler | the chip is a queue of results |
| `software/multi_event` | same | one handler per line | every event gets its own line's handler |
| `mem.act`, `regfile.act`, `utils.act` | RAM, registers | load, store, ALU | byte addressing, RV32I arithmetic |
| `gpio`, `rom`, `rom_selector`, `spi_boot`, `spi_prog` | registers, bank, shift register | MMIO, flip, SPI | - |
| `harness/static/reset_ext_send.v` | armed reset, counter | edge to send | an edge becomes at most one reset |
| `harness/static`, the rest | FIFOs, counters, handshakes | AER receive, pack, stream | the camera is never stalled; drops are counted; packets end |
| `harness/pynq` server, control thread | firmware path, pause bit, the command in hand | start-up, reset, reload, shutdown | reset and reload only at a quiet point; an answer tells the truth |
| `harness/pynq` server, DMA threads; dashboard streams | sequence number; queue, batch, sockets, statistics | transfer, datagram, send, subscribe | order and accounting of the stream |
| `harness/dashboard` control plane | build lock, source and image, ssh, connection state | build, apply, track, reset, reconnect, status, close | what is reported as applied runs; one server; a lost board is noticed |
| `harness/host/actnow_client.py` | chunks waiting to be drawn | drain, append, draw | the newest words are drawn, also in a flood |
| live viewers (`dvs_*_live.py`) | results file, words pending, simulator process | start, tail, draw, fail, quit | the viewer uses its own run's words, and says when it is over; one simulator writes the file |
| players (`dvs_replay`, `dvs_motion_view`, `dvs_rotate_view`) | index, accumulators, box | play, pause, restart, loop, save | what is on the screen belongs together |
| `software/dvs_motion`, `software/dvs_rotate` and their host mirrors | activity grid; one event | batch to status word; rotate | host and chip compute the same |
| `tools/gen_file_registry.py` and make | registry, two generated files | parse, check, write, interrupt | numbers and file tables agree when a test runs |
| frontend, other tooling | display | - | - |

CHP processes share no memory: they meet in rendezvous on channels. The hard
behaviour of the chip comes from four places. (1) A level condition (the FIFO is full enough)
becomes a single edge (`event_out`) that must neither be missed nor doubled.
(2) Stores are posted: the CPU goes on while one store is in the MMU and another in
the demux. (3) The interrupt controller takes an event and then blocks until the
CPU idles, answering nothing else meanwhile. (4) Reset is received by the CPU
alone, relayed to the interrupt controller, and reaches no peripheral.

On the host side it comes from time and from restarts. The server takes a counter
that stands still for a drained core, and a counter that changes for an acknowledged
reset; a command that timed out is retracted neither on the board nor in the
dashboard. The dashboard is one event loop whose handlers interleave at every
`await`, over an unreliable network, with an ssh that may outlive it. The viewers
read a file while a simulator writes it.

## 2. Modules and how they correspond to the code

    BoundedQueue <= FifoIn, FifoOut         WordMemory <= Bus  (Router, Router)
    Soc = Cpu + Router (MMU) + Router (demux) + Interrupt + FifoIn + FifoOut
    Application = Soc + main.c   => EventPath   MultiEvent = Soc + main.c => TaggedPath

    FpgaServer (control)   Stream (data)   Dashboard (control plane)
    ResultViewer   LiveTail   Playback   Motion   Rotation   FileRegistry

    MCQueues = FifoIn | Stream
    MCParts  = Bus | Interrupt | FifoOut | FpgaServer | ResultViewer | LiveTail
             | Motion | Playback | Rotation | FileRegistry
    MCHandlers = MultiEvent | Dashboard

(`A <= B`: B is shown to implement A. `A | B`: a behaviour is one of either; they do
not interact, and share a run only.)

- **FifoIn** (`fifo_in.act`): one action per alternative of the selection (`Read`,
  `SetTrigger`, `Push`) and `Fire` for the rendezvous on `event_out`. `st` is
  "fire" while the process blocks in `event_out!true` and "failed" after the
  assertion on an empty read.
- **FifoOut** (`fifo_out.act`): `Access` (a store, or the rejected load) and `Pop`.
- **Interrupt** (`interrupt.act`): `holding` is the event the process is blocked
  with in `event_pc!`; every other action needs it to be back in its selection.
  The table has `NVectors` entries (16 in the code).
- **Router** (`mmu.act` data port and `demux.act`): `Take`, `Send`/`Answer` for a
  port that may take time, `Exchange` for one that answers at once, `Skip` for an
  unmapped base, `Reply`. `rdata` is never cleared, as in the code.
- **Bus**: MMU, demux and a word of storage behind each mapped base. The
  specification includes weak fairness of the routers.
- **WordMemory**: what software assumes of all that, a memory without routers.
- **Cpu** (`cpu.act`): the control only. A program is a function `Code` from
  addresses to the instructions that leave the core; everything between two of
  those is part of the next one. `v` is what the program holds between loads and
  stores.
- **Soc** (`cpu.act` wiring, `chips/*/soc.act`, `periphery.act`): each action is one
  rendezvous between two components. Lines, depths and code are constants.
- **Application** (`software/application/main.c`, `bootloader/main.c`, `crt0.S`): the
  program, the producer and reader, three disciplines of reset (any time; only
  while the program idles; only when drained, as `actnow_fpga_server.py` does it).
  `Image` stands for `transform_event`: any function from words to results that may
  also drop a word. **EventPath** is the queue it implements.
- **MultiEvent** (`software/multi_event/main.c`,
  `e2e_multi_event_test.act`): one handler per line. The test waits for each result
  before it fires the next line; the model fires any line while an unclaimed word is
  left. **TaggedPath** is what it implements.
- **FpgaServer** (`actnow_fpga_server.py`, control thread; `reset_ext_send.v`; the
  core as far as reset and boot go): an action per write of a control bit, per word of
  the ROM and per poll that decides something. `Restart` is the dashboard killing
  the server and starting another, which loads the overlay and so resets the logic.
  `Quiet` is what the drain can see: a boot takes longer than the drain's window only
  if `slow`, a constant of the behaviour.
- **Stream** (`dma_to_udp`, the UDP network, and the datagram protocols, the bounded
  queue, `stream_sender` and `broadcast_binary` of `dashboard.py`): an action is what
  runs between two awaits. Words are named by packet and index. `Faults` says what
  may go wrong on the way: a failed DMA transfer, loss, reordering, duplication, a
  restarted server.
- **Dashboard** (`dashboard.py`, the rest but the log and the compiler's messages):
  `stage[t]` is where the handler of page `t`, or the deployment at start-up, is
  suspended. Every ssh, and the server it starts, has a number; `link` and `server`
  are its states, and end independently: a tunnel may be cut at any time, and its
  server goes on. A source is a number as well, and so is what is made from it: the
  properties only ask whose it is. `overlapped` and `pkillFailed` record what the code
  does not guard against, two requests or deployments at once and a `pkill` that fails
  while a server runs.
- **ResultViewer** (`render()` in `actnow_client.py`): a drain (`Receive`) is bounded, a `Frame`
  draws what is pending; the trimming of chunks is modelled word by word.
- **LiveTail** (the six `dvs_*_live.py`): the simulator writes lines and flushes them
  at any character of a set of cuts; the viewer reads what is there, draws, and polls
  the process, in the order of its kind. Sessions follow each other over one file.
  `Prepare` ends with the start of the simulator; the writes to its stdin and the making
  of the windows are the phase "launched", which ends in the loop (`Enter`) or with an
  exception or an interrupt that no `finally` sees (`LeavesEarly`). A simulator left
  behind like that is a stray: it opens, empties and writes the file, or ends, at any
  time (`Strays`), and `spoilt` records that one has touched the file of this session.
- **Playback** (`dvs_replay.py`, `dvs_motion_view.py`, `dvs_rotate_view.py`): one loop,
  three players; events are their numbers, accumulators are sets of them.
- **Motion** (`dvs_motion/main.c`, the mirrors in `dvs_motion_blob_live.py` and
  `dvs_motion_view.py`, the box of `dvs_motion_live.py`): the grid with its saturation,
  decay and tie-breaking, and the packed word.
- **Rotation** (`dvs_rotate/main.c` and `dvs_rotate_view.py`): both computations, with
  the arithmetic shift of negative numbers.
- **FileRegistry** (`gen_file_registry.py`, and make around it): the registry may be
  edited, and make interrupted, between any two steps.
- `*Constants` hold what two modules share; `MC*` modules give small values to
  constants that a cfg cannot express, and put parts side by side.
- `*_proofs` hold the theorems: `Chip_proofs` those of Bus, Interrupt and FifoOut,
  `Queues_proofs` those of FifoIn, Stream and MCQueues, `Parts_proofs` those of
  FpgaServer, LiveTail, ResultViewer, Playback, Motion, Rotation, FileRegistry and of
  MCParts, and the others those of the module they are named for; `Soc_proofs` what
  holds of the two FIFOs whichever program the chip runs. `SequenceFacts` holds the
  lemmas they share, about recursive functions, sequences and circular buffers.

Definitions introduced by "Faulty" are slips a programmer could make. They
are used by no specification; each is put in the place of the definition it precedes
to see that a property notices.

### Reductions

- A fetch is atomic and happens when the MMU (for code in ROM also the demux) is
  idle: the fetch is the only user of the instruction port, and memory answers it
  without waiting for anybody else.
- The CPU's register and ALU work, and its accesses to SRAM, are local: nothing else
  reads or writes them. SRAM and ROM themselves are not modelled in Soc.
- Words only. `mask_data` leaves a word unchanged, and the firmware modelled here
  uses words towards the peripherals. No instruction issues `R_AND_W`.
- `reset_int_ctrl!` runs in parallel with two assignments at cold boot; here it
  follows the reception, which no other process can observe.
- Registers survive a reset but the rebooted program reads none of them before
  writing it, so `v` is emptied.
- The transfer of `addr`, `mode` and `wdata` of a request is one step: the receiver
  takes all three before it does anything else.
- GPIO is left out of Soc: neither firmware touches it.
- `chips/fpga` replaces `fifo_out` by a raw port that backpressures; an output FIFO
  of any depth stands for both.

## 3. What the runs check

Depths in the code: 4 (bench) and a parameter (fpga); BATCH 4 and up; 16 lines.

| Run | Specification and bounds | Shows |
|---|---|---|
| `queues` | FIFO: DEPTH 4, levels 1..5 (5 is out of reach), the level written repeatedly. Stream: packets of two words, batches of three, a queue of three packets, sequence modulo 3, two browsers, every fault, 4 transfers | the FIFO is a bounded queue with one edge per batch (`RefinesQueue`, `WatermarkKept`); no word lost but by eviction, none doubled (`Accounted`), a packet overtakes only one that was cut, no gaps for a subscriber, the drop counter is right while the network keeps order, the sender goes on |
| `parts`, chip | bus: 2 internal bases, a gap, 2 external ones, an unmapped one, 2 words; interrupt: 2 lines, 3 vectors, masks 0..3; FIFO of 4 | `ImplementsWordMemory`, `LoadAnswered`; `RegistersIndependent`; `RefinesQueue` |
| `parts`, server | two images of two words, 3 resets: one late and two after it | an ok means booted from the ROM that was written; no boot mixes images and no reset is delivered with the camera on, unless one came late; every command ends |
| `parts`, host | datagrams of 0 to 4 words, frames of 3; captures of 3, 5, 8 with results of 0 to 6 words; batches of 4 at two pixels; all 2^14 addresses; registries of up to two lines out of five | `NewestDrawn`, `ScreenIsTrue`, `MirrorAgrees`, `BoxHasMotion`, `RotationsAgree`, `TestFindsFiles` |
| `parts`, live viewers | all six; a recording of 5 events, dumps of 4, batches of 3, two sessions, flushes that end anywhere in a line | until a stray touches the file: the own simulator's words, each once, in order, with their events, a number that a flush has cut as its front and next its rest (`WordsPaired`); DONE never while the simulator lives, nor before all words were used if every number was read whole, and shown in the end (`DoneWhenOver`) |
| `app_warm` | BATCH 2, DEPTH 3 in, 1 out; reset at any time; 3 event words, one of them filtered | no FIFO assertion fails; at most the batch in hand is lost, and only in a reset; nothing is reordered, duplicated or invented; the CPU is never woken at a wrong address |
| `app_drained` | DEPTH 2 out; reset when drained; 2 event words, neither filtered | the chip is a queue and loses nothing; no unconfigured vector, one edge at a time, no stranded batch, the mask is clear during reboot, each reset completes, batches are served and handlers end; also deadlock freedom |
| `handlers`, chip | multi-event firmware: 3 lines, DEPTH 2 in, 1 out | `ImplementsTaggedPath`; the FIFO never blocks on `event_out`; deadlock freedom |
| `handlers`, dashboard | a page that applies, tracks and reconnects, one that builds and resets, the deployment at start-up, 3 pieces of work, 2 of them deployments at most | `NoticesLoss`, `HandlersEnd`, always. `NoOrphans`, while requests and deployments do not overlap; `OneServer` and `AppliedIsMine`, while besides no `pkill` fails while a server runs. Tunnels are cut, and server and dashboard crash, at any time (`ServersOwned` is `OneServer`, `NoOrphans` and what keeps them) |

`QueuesInv` and `PartsInv` collect types and the inductive invariants that the proofs
start from, checked here on the same instances. The seven other runs each show one
difference between code and documents, below.

DEPTH 3 with BATCH 2 lets the producer fill the FIFO past the level, wrap the
indices out of step with the batches, and saturate it while the handler runs; a
result FIFO of one or two words fills in the middle of a handler. Two routers hold at most
one request each, so two words of data tell a stale answer from a fresh one. Three
lines give one running, one held and one waiting. No counter of the chip is cut off:
`reads_since_fire` is bounded by the level. Packets of two words and batches of three
make the sender cut one; three packets fill the queue while two browsers hold it up;
a sequence number that wraps at three wraps within four transfers. Two words tell a
ROM half written from one written, and three resets are one that times out, one that
is acknowledged by it, and one in between. Two overlapping handlers and a deployment
are all the pairs the build lock and `self.ssh` can confuse. Eight events of one
pixel saturate a cell.
`app_warm` turns deadlock checking off, because the system really stops there (see
below), and so do the runs that search a violation under the same resets, `parts`,
`track_done` and `two_writers` (a viewer that was quit stops). In `handlers` a
dashboard that was closed and has no work left may rest (`AtRest`); nothing else stops.
Two sessions are what it takes for a file, or a simulator, of an earlier viewer to be
there when a later one reads. `parts` does not follow the last session beyond the
state in which a stray has touched its file (`Unmixed`): what is checked of the live
viewers claims nothing from there until a viewer starts, and none does. In `parts` both files of the registry share one path, so
that a number is found wrong only between kinds; over several files of one kind it is
proved (`RegistryCorrect`).

### What the code does not guard against

Some properties state conditions. They are not oversights of the models: beyond them
the code does not do what the property says, and no document says that it does.

- Two requests at once (`dashboard.py:221`): `apply` holds the lock only while it
  builds, so that two of them may upload one image and both be told that theirs runs.
- Two deployments at once (`dashboard.py:138`): `self.ssh` forgets the first tunnel, and
  a `pkill` may come before the server it should end.
- A `pkill` that fails (`dashboard.py:135`): nobody looks at its exit code. A tunnel that
  is cut is another matter: it leaves its server too, but the next deployment's `pkill`
  finds it, and `OneServer` says so.
- A datagram that comes late or twice (`dashboard.py:306`) counts as almost 2^32 drops:
  it looks like the loss of that many. `DropsCounted` speaks of a network that keeps the
  order and loses.
- A number whose flush ends inside it is read as two (`dvs_motion_live.py:182`).
  `WordsPaired` says that nothing else happens to the words. From then on the words are
  not those of their events, DONE may come before all of them were used, and an index
  may leave the recording: these parts of `DoneWhenOver` and of the type invariant speak
  of sessions in which every number was read whole (`NumbersWhole`).
- A viewer that fails between the start of its simulator and its loop leaves the
  simulator behind (`two_writers`, below). `WordsPaired` and `DoneWhenOver` speak of a
  session as long as none has touched its file.

### Where the code and its documents differ

- `app_reset_stuck`, `ResetCompletes`. The program idles, a batch fills, the
  interrupt controller accepts the event and blocks in `event_pc!`; at the same
  moment the idle CPU picks `reset_ext` and blocks in `reset_int_ctrl!`
  (`cpu.act:404`). Neither ever goes on. README.md:79-84 gives this race as the way
  an idle core is recovered. `app_drained` shows that the server's drain avoids it.
- `app_reset_strands`, `SaturatedFires`. A reset in the middle of a batch leaves
  `fifo_in` disarmed with reads owed. The rebooted program waits for an edge, the
  FIFO fills and stays silent, against `fifo_in.act:14-17`.
- `app_reset_mask`, `ResetClearsMask`. The posted write of ENABLE overtakes nothing
  but is overtaken: the reset relayed meanwhile clears the mask first, the write
  lands afterwards. `interrupt.act:22-23` promises a clear mask.
- `stream_slip`, `SlipsOnlyAfterDrop`. The rest of a packet cut at the batch limit goes
  to the end of the queue (`dashboard.py:102`): words arrive out of order although
  nothing was lost, which `main.ts:566-569` names as the only cause of a slip.
- `late_reset`, `NeverMixed`. A reset that timed out stays armed in the programmable
  logic; delivered during a later reload it boots the core from a ROM that is half old
  and half new. The reload still ends with a whole boot (`AckMeansBooted`).
- `two_writers`, `OneWriter`. The `try` whose `finally` ends the simulator begins some
  thirty lines after the simulator was started (`dvs_motion_live.py:143-175`, and alike
  in the other five viewers). If a window cannot be made, or Ctrl-C comes, in between,
  the simulator stays, and may open the results file after that of the next viewer has;
  `dvs_motion_live.py:22-25` says that each viewer starts its own "to avoid two actsim
  processes writing the same output file at once".
- `track_done`, `ShowsDone`. `dvs_track_live.py:212` waits for more events than whole
  dumps can give, so DONE never appears for most recordings, the default one included.

`globals.act:25-27` says of the unmapped bases 2 and 3 both that reads are "never
answered" and that this "doesn't hang". The routers answer them with whatever their
read-data register held; WordMemory allows any word there, and `LoadAnswered`
shows that no load hangs.

### Fairness

The processes are self-timed circuits: once both ends of a communication are
ready, it happens. Hence weak fairness of each kind of step of the chip. Of the
environment, liveness assumes only that someone powers the chip on and keeps
reading results; nobody has to push. Two choices that the code leaves to an arbiter
(`[| |]`) are never assumed fair: no strong fairness is used for the chip. With resets,
the probe and idle alternatives are weakly fair together, so a reset that stays
asserted is received.

The server's thread runs, its polls are finite, and the clocked logic and a core that
is not blocked get on; nothing says that the DMA ever takes another word, so a reset
may stay pending for ever. Giving up is strongly fair: a poll that fails again and
again while the core stays blocked does end the wait. The event loop of the dashboard
runs a task that can go on and a timer that is due; the board, the network and the
browsers owe nothing. A viewer's loop runs; its simulator need not get anywhere. The
frame of the result viewer is strongly fair, as it is due whenever its time has come
and the drain, which is bounded, is over.

## 4. What is proved

For every value of the constants (under the ASSUMEs of the modules: capacities are
positive, levels are naturals, bases of the MMU lie below those of the demux; for the
program: BATCH fits the input FIFO, line 0 is the one that is wired, the reset
address is outside SRAM, and `Code` is `AppCode`):

- **Chip_proofs.** `AgreementCorrect`: `RoutersAgree` is inductive; it relates the
  control states of two routers and the CPU, and says that an answer on its way is
  the word in storage. `WordMemoryRefined`: under it each step is a step of
  WordMemory or a stutter. The memory the CPU sees is storage overwritten by the
  store in the demux and then by the one in the MMU, so a store counts when it is
  posted. `HeldCorrect` (inductive as it stands once typed), `TargetCorrect` and
  `RegistersCorrect` (the word offsets of the documented map are distinct modulo the
  table size) are about the interrupt controller; `RingCorrect` and `QueueRefined` say
  of the output FIFO what Queues_proofs says of the input.

- **Parts_proofs, FpgaServer.** For every number of words of a firmware and every
  number of resets. `AckCorrect`: an answer ok means booted, although the server takes any
  change of the counter. `CommandInv` says why: between reading the counter and seeing
  it changed the core has begun to boot (`Told`) and the ROM has not been written
  (`Writing`, `Named`), so that whichever reset was delivered booted the ROM as it is.
  `PendingCorrect` ties the sender to the thread: unless a reset has timed out, one is
  armed exactly between press and answer, and then the counter still is the one that
  was read. From it follow `DeliveryPaused` and, with a ROM that is whole outside of a
  write and a drain that ends after the boot, `BootCorrect`. Both need "no reset has
  timed out": `late_reset` shows what happens otherwise. `PauseCorrect` and
  `ResetsCounted` are inductive as they stand, once typed.

- **Application_proofs.** The composed chip with the batch program, for every
  capacity, every batch that fits, every filter.
  - `IInv` is inductive whatever the resets (`StepInv`, `InvCorrect`). Its parts:
    the program counter fixes how many words the handler holds (`Control`); the
    routers carry one of the program's stores, or the one load the CPU waits for, at
    one of its stations (`Traffic`); the handler's vector is set or on its way
    from `main()`'s second store on (`VectorSet`); the FIFO's watermark holds for
    the one level the program writes (`Watermark`); and `BatchOwed` ties
    the program to the FIFO: while words of the batch are missing, the FIFO is
    disarmed, no event is held, and `reads_since_fire` is the number of words taken,
    counting one that is still on its way through the routers. None of the checked
    properties is inductive without it: a load meets an occupied FIFO because the
    FIFO's count of reads and the program counter agree.
    It yields `ChipTyped`, `AssertionsHold`, `OneEdgePerBatch`, `WakesCorrect`.
  - `ColdInv` holds when the chip boots once. Nothing is under way until the
    relay is over; the trigger level is written only after the vector has arrived,
    since the MMU carries both; a disarmed FIFO means that an event is held or a
    batch is in hand; the line of a held event is enabled. `VectorsConfigured` and
    `NoBatchStranded` follow. The first three parts fail under warm resets:
    `app_reset_mask` starts from a store still under way at the relay,
    `app_reset_strands` from a disarmed FIFO whose batch is no longer in hand.
  - `DrainedInv` holds when resets come as the server brings them. A drained reset is a
    warm one (`DrainedIsWarm`), so that `IInv` holds too. From the time a reset is
    asserted until it is relayed the chip is at peace (`PeaceKept`): nothing is in a
    router, no event is held, and the FIFO is not delivering one. What `app_reset_mask`
    and `app_reset_strands` start from is thus excluded. The input FIFO may hold events
    all the same, and is armed if it is to fire, so the line is shown to be enabled only
    when the vector is the handler (`MaskInstalled`): the store that enables it
    is the last in the MMU, behind the one of the vector (`EnableLast`).
    `MaskCorrect`, `DrainedVectors` and `DrainedBatches` follow.
  - The chip implements **EventPath**: `LossyPathImplemented` (any reset),
    `PathImplemented` (drained resets) and `ColdPathImplemented` (one boot). The path is
    `Outside`, the results in the output FIFO and those posted in the routers, followed
    by the images of `Inside`, the words in hand, on their way back and in the input
    FIFO. `PathMoves` says that a step does one of five things to the two: it moves a
    word or a result from one place to the next and so changes neither; it adds a word
    at the end of `Inside`; it takes a result off the front of `Outside`; it moves the
    image of the oldest word from one to the other, if there is one; or, in a reset,
    it cuts `v` off `Inside`. There is a lemma for each kind of step, and each needs
    `IInv`: the load finds the word the FIFO has at its front, nothing is on its way
    back when a word is handled or the CPU is reset, and no other store goes to the output
    FIFO. `OutputRing` is the one addition, that the output FIFO's indices agree.
    A cut loses at most BATCH results, in a row, as `v` is no longer than that and has
    no more images than words (`ImagesLength`, `CutLoses`). With one boot or drained
    resets the CPU is reset only where it holds no word, so the cut is empty
    (`EmptyCut`). `Images` is a recursive function, with its equation and what it makes
    of two sequences in a row proved first (`ImagesEquation`, `ImagesOfBoth`).

- **Dashboard_proofs.** For every set of pages and requests and every number of
  deployments. The argument follows a request. `HandlersPlaced`: a handler is only
  where its request brings it, there are no more deployments than the bound, and an
  entry of the server's inbox is about the request it will answer, known by its
  number (`AnswersOwn`: a page that stopped waiting has a new one). `InvSeparate`:
  while no two requests overlap, source, image and memory stay those of the request at
  work from the build to the answer (`SourceCarried`), and `self.ssh` is the only ssh,
  with none between terminate and spawn (`LinksOwned`). `InvServers`: while besides no
  `pkill` has failed with a server running, a server that comes up finds none
  (`ServersReplaced`): `terminate` has ended the tunnel, and `pkill` the server, whether
  the tunnel still stood or was cut before. `ServersCorrect` and `AppliedCorrect`
  follow, under these two conditions; that no ssh is left behind needs only the first.

- **Queues_proofs.** For every capacity and trigger level of the FIFO; for every size
  of queue, batch and packet, every number of browsers and every modulus of the stream.
  - The input FIFO. `TypeCorrect`. `RingCorrect`: TypeOK /\ RingConsistent is
    inductive; the two lemmas about `Offset` say that a load shifts the occupied
    slots and a push extends them. `QueueRefined`: a push appends to and a load
    removes the head of `Contents`. `WatermarkCorrect` and `BatchCorrect` need more
    than themselves: `FixedInv` adds that before the first trigger write nothing was
    pushed (`Unset`), as the level then still is DEPTH and may change, and
    keeps both properties together, since a load that re-arms restores the watermark
    only because the words of the batch were there.
  - `InvNow` is inductive (`StreamCorrect`): the types; `Apart` (the packets of the
    queue are from different datagrams, one of which may be the rest of a cut one);
    `InOrder` of *all* the words that were sent or wait, since an order of those sent
    alone says nothing of the next batch; `BatchIsLast` and `Received`, which tie what
    a client has to the history `out`, so that one that fails, leaves or comes back in
    the middle of a batch still has a part of it without a gap; and the counters.
    Every step does one of four things to the words (`QueueMoves`): nothing, a batch
    of whole packets, a batch that cuts one, or a packet that joins while the oldest
    leaves. `StreamAccounted`, `StreamOrdered` and `StreamComplete` follow.
  - `Concat`, the words of a queue, is a recursive function. That it exists and
    satisfies its equation is proved by induction over the length, written with sets:
    a set of numbers that holds 0 and each successor is Nat, because `<` is well
    founded (`LeastElement`, `Induction`, `ConcatEquation`).
  - `StreamNumbered`: while the network keeps the order, the numbers on the way are
    increasing and the sequence numbers are theirs modulo SeqMod. Then `StreamDrops`:
    the drop counter is exact across the wrap, in every behaviour in which fewer than
    SeqMod (2^32) datagrams are lost in a row. That condition is needed, as 32 bits
    cannot tell a loss of 2^32 from none; `FewDrops` has no condition, but a bound on
    the transfers, which the run meets.
  - `QueuesCorrect`: what the run of the two queues together checks.

- **Parts_proofs, LiveTail.** For every recording, size of batch, dump and frame, every
  set of places where a flush may end, and every number of sessions over one file. Both
  theorems speak of a session as long as no simulator that an earlier viewer left behind
  has opened or written its file (`spoilt`); `two_writers` shows that it may.
  - `WordsCorrect`. `TailInv` is inductive: the types, `OwnFile` (what is in the file is
    this session's, since an old one is removed before the simulator is started),
    `Finished` (the end is believed only after the last read), and `LinesFollow`: the
    words taken are those of the lines that were begun before `pos`, in order, and where
    a flush ended inside a number its front and its rest, next to each other. Without
    that last part nothing relates a position in the text to the words. `WordsWhole`: if
    no flush ends inside a number (`1 \notin LineCuts`), the i-th word is line i, whole.
  - `DoneCorrect`: `UsedCounted` ties what each kind of viewer counts (words, whole
    dumps, or events of dumps cut off at the end of the recording) to the words it took
    from the file, and `ShowsRight` the status to that. That DONE is never shown while
    the simulator lives holds wherever flushes end. That all words were used by then, and
    that no index leaves the recording, holds as long as every number was read whole: then
    word i is line i (`LinesCounted`), and no more were taken than lines were begun
    (`WordsCounted`).

- **Parts_proofs, the other parts.** For every value of their constants. Four of them
  use recursive functions (the words in chunks and their trimming, the events of a
  frame, the counting of a batch, the table of paths). That each exists and satisfies
  its equation is proved like that of `Concat`, with sets of numbers in the place of
  predicates (`Unrolling` does it for functions over sequences).
  - `MirrorCorrect`, `BoxCorrect`. `MotionInv`: the two grids are *equal*, though each
    side counts and saturates by its own recursion; both words are packed from them;
    and a cell without an event in the last batch is at most 128, in the last two at
    most 64. A hot cell therefore holds an event of the last two
    batches, which `BoxOfCell` finds inside the box as it is drawn, turned and cut.
  - `ScreenCorrect`. `Screens` are those that are determined by the index: each panel
    shows exactly the events before it. Every event makes such a screen of one
    (`OneEventKeeps`), so does a frame of them (`FramesKeep`), a restart begins one. Only
    the rotate view with a results file longer than its recording leaves the recording
    (`OverrunsOnly`).
  - `NewestCorrect`: what waits to be drawn is exactly the newest words since the last
    frame. `TrimJoined` says that dropping chunks from the front and cutting the next
    one drops as many words from the front of what the chunks hold (`JoinedAppend`,
    `RestInFirst`, `RestInSecond` are its cases), and `TrimFull` that no chunk is left
    empty. `NewestDrawn`, which says that it is
    also drawn in the end, is left to TLC.
  - `RegistryCorrect`: `CountsUp` and `PathsFound` are inductions over the lines; a file
    stands in its table where its number says. `RotationCorrect` rests on two facts
    of arithmetic: the shift of a negative number rounds down (`HalfIsFloor`), and a
    packed word gives back its fields whatever is above them (`PackedFields`).
  - `PartsCorrect`: each step of the composition is a step of one part and a stutter of
    the others (`PartsGo`), so that each part's invariant holds in it.

- **MultiEvent_proofs.** The composed chip with the multi-event program, for every number
  of lines, every capacity and every set of words closed under the handlers' sums
  (`SumsAssumption`), with a trigger level that is out of reach (`LevelAssumption`) and
  `Code` the program (`MultiCode`).
  - `IInv` is inductive (`StepInv`, `InvCorrect`). `Control`, `Traffic`: a handler holds a
    word exactly between its load and its store, and the routers carry the program's
    stores or the one load the CPU waits for. `VectorsSet`: the vector of *each*
    line is its own handler once `main()` is past its store, or is on its way;
    `EnabledLate`: the store that enables the lines is sent only when all of these are
    past. So a line that fires is woken at its own handler. `NeverFull`: the FIFO's level is out of reach from the first store on and
    nothing has been pushed before, so it never waits for its unwired `event_out`. `Covered`
    ties the lines to the words: the held line and the load that is due (`Claims`)
    are never more than the words in the FIFO. Without it a handler could load from an
    empty FIFO.
  - `TaggedPathImplemented`: the chip implements **TaggedPath**, and neither FIFO leaves its
    selection. A word that was pushed is first unclaimed, then claimed by the held line, then
    by the handler that runs, and then in its hands. `Unclaimed` are the words of the
    input FIFO behind the claimed ones (`Beyond` of SequenceFacts: what an append, a load
    and a claim do to it). `Owed` are three pieces: `Outside` (the results in the output FIFO
    and those posted in the routers), the result the running handler will give
    (`Made`, shown by `HandIs` to be one word, wherever it is), and that of the held line
    (`Held`). `ClaimMoves`: a step keeps the claims, claims a word (an event), hands a
    claim on to the handler (a wake-up), or loads the word; `WordsKept`, `WordPushed`,
    `WordClaimed`, `ClaimHanded` and `WordLoaded` say what each does to `Unclaimed` and
    `Held`. The `...Stays` lemmas say that no step of the CPU or of the routers changes
    `Outside` and the hand taken together: a load finds the word at the front of the FIFO
    although more events may have come since, and a store leaves the CPU when its
    result enters the MMU. `EventClaims`, `WakeOwesTheSame`, `PopPops` and `PushPushes`
    turn these into the steps of TaggedPath (`PathStep`).

Both programs' proofs take the two FIFOs as sequences from Soc_proofs: what a push, a load,
a store of a result and a pop do to `Contents` is proved there once, for whichever program
the chip runs.

Only model-checked: the liveness properties (`NewestDrawn`, `LoadAnswered` and the
others: the prover does not treat fairness), and the seven differences above.

## 5. Not modelled

PROJECT.json lists the hazards with their lines; a few have no property.

- **Packing FIFO, event stream, adapters, AER receiver** (`harness/static`): clocked
  logic whose state changes every cycle. `tlast` may be withdrawn while a beat waits
  (`axis_pack_fifo.v:95`); a full FIFO drops the event and counts it. The packed word
  has x and y where the firmware of the simulation path does not look for them
  (`evt_pack.v:43`).
- **RAM, register file, ALU, `mask_data`**: 32-bit data paths with directed tests. The
  firmware modelled here uses aligned words; an access across a word boundary
  (`mem.act:53`) is outside of what the models say.
- **GPIO, ROM, ROM selector, SPI boot and programming, the dvs chip**: not on the path
  from an event to a result. A bank flip between two fetches of one boot
  (`rom_selector.act:39`) would need the instruction port as a process of its own.
- **Trigger level lowered over a filled FIFO** (`fifo_in.act:88`): does not fire. No
  firmware does it, and `FixedSpec` says so.
- **Dashboard**: the log, the compiler's messages and the JSON broadcasts are text. A
  set of sockets that changes during a broadcast (`dashboard.py:56`) and a build
  directory removed under another handler's compiler (`dashboard.py:245`) are not seen,
  as a build is one step with one result.
- **Server**: a ROM write that is lost (only word 0 is read back).
- **Viewers**: colours, decay and image filters, and the floating-point stabilizer; two
  viewers that run at the same time (a simulator that outlives its viewer is modelled).
- **Frontend, small demos, testbenches, build scripts, netlists and data.**

What would come next: the programmable logic (a packing FIFO against a queue of packets).
