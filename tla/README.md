# A verification project for the emulator's hardware model

TLA+ modules for the parts of this SNES emulator whose correctness is a matter
of order and timing, TLC configurations that check them on small instances, and
TLAPS proofs of the properties that hold for every instance. Everything is
translated from `core/` and `frontend/`; paths below are relative to the
repository. `PROJECT.json` gives, for every definition that models code, the
lines it models, and for every property the way of breaking the code that the
property would notice.

Contents: 1 the system, 2 the modules, 3 the runs, 4 fairness, 5 the proofs,
6 what is only model-checked, 7 what is not modelled, 8 the plan.

## 1. The system

### 1.1 One thread, many clocks

`Emulator::StepFrame` calls `SnesCpu::Step` until a frame is over. There are no
threads in `core/`: the concurrency is that of a re-entrant simulation. Each bus
cycle of the CPU goes through `Emulator::BeginCpuCycle` (which may hand the bus
to DMA), the access itself, and `Emulator::AdvanceClocks`, which ticks `Timing`;
`Timing` calls back into DMA, the interrupt controller, the pads and the PPU, and
after it `AdvanceClocks` brings the cartridge hardware and the sound processor up
to date. A DMA calls `AdvanceClocks` for each byte, so the whole machine moves
while `RunDma` is on the stack, and a request for HDMA made by one of these
callbacks is served at the next boundary of that same DMA. So the questions here
are those of interrupt-driven hardware: what may happen between two steps of a
component, what was sampled when, which request is lost, served early or twice.

### 1.2 Inventory

| Component | State it keeps | Operations | Talks to | What is hard | What makes it correct |
|---|---|---|---|---|---|
| DMA and HDMA (`dma/Dma.cpp`, `Emulator::BeginCpuCycle`) | 8 channels of registers, enable, completed and do-transfer flags; two pending HDMA requests and the arming flag | `$420B`, `$420C`, `$43xx`; RunDma, HdmaSetup, HdmaRun | CPU (stalls it), Timing (requests), bus | HDMA nested in a DMA at any byte and able to cancel it; the arming flag shared by all requests; counters that wrap | every byte moved once or the transfer cut for good; table entries last as long as they say; every request served, none before its time |
| NMI/IRQ controller (`io/IrqController.cpp`) | enables, flags, holds, latched requests, lock | Poll each 4 clocks; `$4200`, `$4207`-`$420A`, `$4210`, `$4211`; the two tests | Timing (polled), CPU (tested) | positions delayed by 10 clocks across line ends; a read racing the flag; a request consumed by a sample | no request without a cause, none lost, the timer on its target |
| CPU interrupts (`cpu/SnesCpu.cpp`) | pending NMI and IRQ, lines, WAI | Step, lastCycle, interrupt entry | everything, through bus cycles | interrupts are sampled before the last cycle, and the lock is released before each | a sample after a `$4200` store is suppressed; NMI taken; WAI wakes |
| CPU instructions (`cpu/Processor65816.cpp`) | registers, E, M and X flags, stack pointer | 256 instructions and interrupt entry, as bus cycles | bus cycles; `lastCycle` | every handler places the sample itself, in each width and mode; three ways to change the widths; two kinds of push in emulation mode | one sample, before the last cycle; widths and stack page agree; a return takes what its call pushed |
| Beam (`timing/Timing.cpp`, `AdvanceClocks`) | h and v counters, field, half clock, fired flags, extra clocks | Tick, tickScanline, SetVDisp, SetInterlace | callbacks to DMA, IRQ, pads, PPU | odd batches, refresh clocks ticked from inside the tick, overscan changed on the line | events once per line at their position, however time is cut |
| Automatic joypad poll (`io/AutoJoypad.cpp`, `ControllerPorts.cpp`) | state counter, divider, two latch drivers, shift registers, `$4212` copy | Tick128, FrameBegin, `$4016`, `$4200` | pads, `CpuIoRegisters` | the program and the poll share the latch and the shift registers | an undisturbed poll delivers the pad; complete when not busy |
| Multiplier and divider (`io/CpuIoRegisters.cpp`) | operands, results, shifter, two counters | AluStep per cycle; `$4202`-`$4206` | CPU cycles, DRAM refresh | one step before a write, a start while busy | exact results, never two operations |
| SMP bus and timers (`audio/Smp.cpp`) | access in progress, three timers, TEST, ports both ways | RunUntil, ClockBusCycle, `$F0`-`$FF`, PortRead/PortWrite | console bus, S-DSP | accesses stretched over several clocks and cut by RunUntil's deadline; gates and enables changed mid-pulse | no tick or edge lost; a port read is of one moment; RunUntil returns |
| SPC700 (`audio/Spc700.cpp`) | registers, coroutine | 256 instructions, one access at a time | SMP bus | dummy reads that may hit a timer or a port; flags chained through two bytes | writes where it read; a return takes its call's frame; exact arithmetic |
| S-DSP (`audio/Dsp.cpp`) | voices, latches between phases, echo ring, registers | Tick (32 clocks a sample), register access | APU RAM, sound program | three voices in work at once; echo registers latched at different clocks | latches hold the right voice's data; ENDX exact; KON once; the echo's delay |
| PPU memories and ports (`ppu/Ppu.cpp`) | VRAM, OAM, CGRAM, address and data latches, copies of VRAM | `$2100`-`$213F` | CPU, DMA, Timing | refused and redirected writes while drawing; copies shared between lines | a line is drawn from its own VRAM |
| PPU drawing (`ppu/Ppu.cpp`, `PpuRender.cpp`) | registers cached per line, raster events, object lists, two screens | ScanlineBegin, RecordRasterEvent, RenderFrame | CPU, Timing | the picture is drawn at VBlank and the middle of each line reconstructed | each dot has the registers the beam passed it with; overflow flags match the drawing; right layer, right blend |
| Memory bus (`memory/MemoryBus.cpp`) | open bus | Read, Write, Speed | all | decoding | a table |
| Emulator audio (`Emulator.cpp`) | audio buffer, overflow, MSU-1 mix | AdvanceClocks, StepFrame | DSP, MSU-1, frontend | a DMA longer than a frame fills the buffer | each sample mixed and delivered once |
| SA-1 (`cartridge/Sa1*.cpp`) | messages and interrupt flags both ways, two transfer engines, timer, overshoot of its clocks | Advance, StepProcessor, StepDma, AdvanceTimer, registers | CPU bus, ROM, RAMs | runs in bursts; transfers sliced between instructions and started by either side; one batch over several lines | NMI per request, waits end; every byte in its time; timer once per entry |
| Super FX (`cartridge/SuperFx.cpp`) | coroutine, ROM and RAM buffers, pixel caches, ownership | Run, registers | CPU bus | the CPU takes the memory away inside an instruction | memory as if one access after the other |
| MSU-1 (`cartridge/Msu1.cpp`) | track, place, resume point, read cache, resampler | Write, Read, NextSample | mixer, files | loop points past the end, failing files, resume | the listener's place to the tick |
| BS-X, broadcast slot (`Bsx.cpp`, `BroadcastCartridge.cpp`) | two flash machines, mapper, receivers | pack and register access, LoadStream | CPU bus, host | broken off commands; streams replaced while read | both chips answer alike; packets of the current asset |
| Other cartridge hardware | per chip: S-DD1, SPC7110, DSP-n, CX4, ST-01x, S-RTC | bus handlers | CPU bus, DMA | commands interrupted by others | per chip protocol |
| Save files (`frontend/SaveRamFile.cpp`, `main.cpp`) | file, temporary file, last saved content | Load, Flush | file system | crash between write and rename, one of three flushes failing | never less than the last complete save |
| Frontend loop (`main.cpp`, `SdlAudioOutput.cpp`, `FramePacer.hpp`) | audio queue, device paused or not, picture clock | Submit, Service, the main loop | SDL | device paused when its queue drains; a stalled host | pictures go on, and not in bursts |

`PROJECT.json` lists every component with its status, and 40 hazards of this
code, each at the line where it bites, with the properties that watch it.

## 2. The modules

`X.tla` is the component, `MCX.tla` the instance TLC checks, `X.cfg` its run,
`XProofs.tla` the proofs. Names are those of the source where TLA+ allows.

| Module | Models | State and steps |
|---|---|---|
| `DmaChannel` | a channel's registers and every pure operation on them: byte step, HDMA table load, setup, transfer, advance | operators over a record; `RepeatBit` (128 in the code) gives the width of a byte, twice that, and of a word |
| `Dma` | `DmaController` with `BeginCpuCycle`, `ServicePendingHdma` and Timing's two HDMA callbacks | `pc` is the point the call stack has reached, `hop`/`hc` the HDMA pass on top of it. A step is the code between two `Clock` calls, since that is where the rest of the machine runs |
| `IrqController` | class `IrqController` and the polls of `Timing::tickOnce` | `h`, `v` in ticks of two clocks; records `nmi` and `irq`; one action per register and the test |
| `Interrupts` | `SnesCpu::Step`, `lastCycle`, interrupt entry and WAI, composed with `IrqController` | a bus cycle is an action; `left` counts its ticks still to come; `pc` is the place in Step |
| `Instructions65816` | the handlers of `Processor65816` and their dispatch, run by `SnesCpu::Step` | an instruction is a sequence of cycles and one call of `lastCycle`, computed from its addressing mode, its widths and the flags when it is fetched; each cycle is an action that may move S, and `End` is the last one with the registers the handler leaves |
| `Beam` | abstract: where the beam is and which event belongs to which position, with no batches, flags or thresholds | one move of two clocks |
| `Timing` | `Timing` and `AdvanceClocks` | one round of the loop of `Tick` per action; refines `Beam` |
| `AutoJoypad` | `AutoJoypad`, one standard pad, the `$4212`/`$4218` copies | `Tick128`, `FrameBegin`, the three registers |
| `MulDiv` | `AluStep` and the registers around it | a CPU cycle edge or a register write per action |
| `Smp` | `Smp`: accesses clock by clock, timers, ports, CONTROL and TEST, the halted SPC700, `RunUntil` | `Begin`, `Stretch` and one `Finish...` action per kind of access; the console acts only between two calls of `RunUntil` |
| `Spc700` | the handlers of `Spc700` as bus accesses, `StepCycle`, `ExecuteInstructions` | `todo` is the list of accesses the instruction still makes, computed at its fetch; each is a step |
| `Spc700Alu` | the `Alg` functions, word instructions, MUL, DIV, DAA, DAS | an instruction a step; a byte is two digits of any size |
| `DspVoices` | the voices of `Dsp::Tick`: latches, keying, end of sample | a clock of the 32, or a register write; a latch holds the number of the voice it was taken from |
| `DspEcho` | `clockEcho` | clocks 22 to 30, or a write of ESA, EDL, FLG |
| `PpuMemory` | the ports of VRAM, OAM and CGRAM, the counter latch, `SnapshotVram` | a port access, or the beam's next phase or line |
| `PpuRaster` | `RecordRasterEvent`, `ApplyRasterEvent`, the line's cached registers, the mosaic counter, `RenderLine` | a write at a dot, or the beam's next dot; the picture is drawn whole at VBlank |
| `PpuObjects` | `UpdateObjectOverflow`, `ParseOam`, `RenderObjects` | the objects are chosen for the behaviour; one line at a time, and each frame starts from the next first object |
| `PpuPixel` | plotting of layers, windows, `CompositePixel`, `Blend` for one dot | a layer a step, then the blend |
| `AudioMix` | the audio of `AdvanceClocks` and `StepFrame` | a sample, a bus phase, the end of a frame |
| `Sa1Dma` | `Advance`, `StartDma`, `StepDma`, character conversion's transfers | register writes of either side, a slice, an instruction |
| `Sa1Processor` | `Advance`, `StepProcessor`, `InterruptProcessor`, `$2200`, `$220A`, `$220B`, and of transfers their start (`$2236`, `$2237`) and length (`$2238`, `$2239`) | an instruction or interrupt entry of the SA-1, a transfer's byte or slice; the CPU's writes between them |
| `Sa1Timer` | `AdvanceTimer` and its registers | one call with any batch of clocks |
| `SuperFx` | the GSU's coroutine, buffers and pixel rows, the CPU's access to SCMR, SFR and memory | `awaits` is the list of awaits still to come; a clock or an await a step |
| `Msu1` | `Msu1`: tracks, control, `ReadFrame`, `NextSample` | a register write or an output sample |
| `BsFlash` | both flash machines | one write or read of the game reaches both |
| `BsRadio` | `ReadRadio`, `WriteRadio`, `SelectAsset`, `LoadStream`, `ClearStreams` | an access of the game, or the host |
| `SaveFiles` | `SaveRamFile::Load`, `Flush`, the flushes of `main.cpp` | one file system call a step, which may fail; `Kill` at any point |
| `Playback` | the main loop, `SdlAudioOutput`, `FramePacer` | one pass of the loop's alternatives; the device and time beside it |

`MCDevices`, `MCServing` and `MCPictureAndSound` check several components that do
not interact: a behaviour is one of any of them, named by `part`, chosen
in `Init` and never changed. The components are extended by these modules and rest while
another part runs, so that a run checks the very property a theorem states: `AutoJoypad`,
`MulDiv`, `Sa1Dma`, `Sa1Timer`, `BsFlash` and `BsRadio` by the first, `SaveFiles`,
`Sa1Processor` and `Msu1` by the second, `PpuMemory`, `PpuRaster`, `PpuObjects`, `PpuPixel`,
`AudioMix`, `DspEcho`, `DspVoices`, `Spc700`, `Spc700Alu` and `SuperFx` by the third. `Playback`,
whose property is liveness, is instantiated by the second in variables set aside for it,
and `PicturesFlow` says it of its part.

How they interact in the code, and where the models cut:

* `Timing` drives `IrqController` (poll), `AutoJoypad` (tick) and `Dma` (HDMA
  points). `Interrupts` composes the controller with a CPU and ticks them itself,
  with frames short enough to check. `Dma` has the beam as an environment that
  may raise a request at any clock of a CPU cycle or a DMA but not before the
  last one was served; the arithmetic behind that guard is in the module
  (an HDMA takes at most 556 of a line's 1364 clocks).
* A CPU program is any sequence of register accesses (`Access`, `Program`); what
  an instruction computes does not matter to these components. In `Interrupts` an
  instruction is a fetch, any number of cycles, a sample, one more cycle.
  `Instructions65816` shows that the handlers all have this shape (`SampledOnce`),
  WAI, which idles once more, and STP, which never samples, excepted.

Modelling decisions a reader of the code should know:

* `Interrupts`: `vdisp` is a constant of a run (overscan switching is in
  `Timing`). `InstrWAI` sets the wait flag before its two idle cycles, the model after
  them; only `Step` reads the flag in between. `nmiEdge_` is set and used within one
  call, so it is no variable. STP is left out: only a reset ends it.
* `Dma`: the IRQ lock can be set by a DMA write to `$4200`, but the CPU's own
  access comes next and `BeginCpuCycle` has released it by then, so `Dma` does
  not carry it. The bytes themselves are not modelled, only how many and
  from which addresses.
* `Timing`: `onHBlank` and `onNmiPoint` are never set by `Emulator` and are left
  out.
* `AutoJoypad`: `CpuIoRegisters.cpp:139` answers bit 0 of `$4212` from its copy of
  the counter, refreshed by the poll callback, while `AutoJoypad.hpp:95-97` has a
  test of its own; the model has the copy.
* `Smp`: an access to RAM or ROM is "internal" or "external", which is all TEST
  tells apart; a TEST write with the P flag set does nothing and is a plain
  access. A clock is at most two timer ticks and no divider has a smaller
  period, so the loop of `Timer::Step` runs at most once. `ApuScheduler` is not
  used by `Emulator`, which converts clocks in `AdvanceClocks`.
* `Instructions65816`: an instruction is its class (`does`), addressing mode and
  which width governs it, so LDA and ADC of one mode are one. Whether D has a
  low byte, an index crosses a page or a branch is taken are choices at the fetch.
  Of X and Y there is only whether they have a high byte. WAI and STP set `halt` at
  their fetch, the code in their handler; only `Step` reads it. `frames` keeps at most
  three calls and interrupts, and forgets them at any other instruction:
  `ReturnTakesFrame` is about a return that finds S where the call left it, whatever
  ran in between must have put it back.
* `PpuMemory`, `PpuRaster`: the beam passes three stages of a line or its dots; a
  program is a set of ports, so that the ports that meet in one latch are
  together. What a register field does to the picture is not told apart, only which
  write it holds. `RecordRasterEvent` leaves writes outside the visible dots
  unrecorded by design, and they count from the line's copy on. The two loops of
  `RenderLine` are functions of the event's number (`Start`, `Redone`), and a dot shows
  what the one of the last event at or before it left (`Span`).
* `PpuObjects`: the loops over objects, and over the tiles of an object, are sets: what a
  loop's counter says of a member is how many members come before it, so the limits are
  cardinalities (`UpToLimit`, `Fetched`), and of the tiles that write a dot the last is
  the one with none behind it (`Pixel`).
* `PpuPixel`: a colour is five bits three times, and the code blends all three at once with
  masks on 16-bit words; here the carries and borrows between channels are computed from
  the channels (`CarriesOf`, `Kept`). That they are the code's bits is an assumption TLC
  evaluates (`ChannelsAreBits` of `MCPictureAndSound`).
* `SuperFx`, `DspVoices`, `DspEcho`, `AudioMix`: data are names of where they come from
  (a voice's number, a sample's number, "the newest"), and properties say that the
  right one arrives.
* `BsFlash`: a byte is one bit, erased or programmed, and a block one byte.
* `SaveFiles`: a crash loses the process, not what the file system was told; the
  rename is one step, as `std::filesystem::rename` is.
* Histories (`xfers`, `walk`, `req`, `credit`, `aged`, `stored`, `start`, `want`,
  `ticks`, `run`, ...) record what has happened; no guard reads one.
* Operators marked "Mutant" are plausible mistakes at the definition that follows
  them. No specification uses one; `PROJECT.json` names which property each one
  breaks.

## 3. The runs

| Run | Instance | Question and answer |
|---|---|---|
| `Dma` | 2 channels, 3-bit bytes, 4 visible lines, at most 2 register writes | Every started general DMA moves what was asked or is cut for good by HDMA (`ByteAccounting`, `CutIsFinal`); a table entry lasts as many lines as it says, moving data on the right ones (`TableWalk`); every request is served, and one made while idle after exactly one CPU cycle (`AllServed`) |
| `DmaRequestWaits` | same | Violated: see finding 1 |
| `Interrupts` | 3 lines of 8 ticks, 4 modes, 1 target | No NMI without a cause of its own, and the one-shot IRQ request acts as a level (`RequestsFaithful`); flags and requests agree (`FlagsAgree`); the timer is exact away from the frame's edge (`InnerTargetExact`); NMI is taken, WAI ends, I set or not (`RequestsServed`) |
| `InterruptsLock` | same | Violated: see finding 3 |
| `IrqEdges` | 4 lines, one short, targets near the edges | Violated: see finding 2 |
| `Timing` | lines of 44 and 40 clocks, fields of 4 or 5 lines, batches of 5, 6 and 8 | `Timing` implements `Beam` (`BatchesDoNotMatter`); each line has its events once, VBlank among them (`LineEvents`); refresh clocks are drained (`AdvanceReturns`) |
| `MulDivImmediate` | 2-bit operands | Violated: see finding 4 |
| `Instructions` | a stack of two pages of 4 bytes, every instruction class in every mode and width | Every handler samples exactly once, directly before its last cycle (`SampledOnce`); flags, index registers and stack page agree (`ModesAgree`); a return pulls the bytes its call or interrupt pushed and restores S (`ReturnTakesFrame`) |
| `Smp` | one timer (4 ticks a pulse, divider of 3, output of 2 values), one port, accesses of 1 and 5 clocks, calls of 1 and 2 clocks | Every access gives its ticks (`AccessTakesItsTicks`); a running timer counts every edge (`CountsEdges`); a port read is of its first half (`PortReadHolds`); `RunUntil` returns (`RunReturns`) |
| `Devices` | six parts, see below | An undisturbed poll delivers the packet and is complete when `$4212` says so (`PollDelivers`), and starts once a frame (`PollsOnce`); products and quotients are exact under any writes (`ExactResult`); SA-1 transfers move each byte in its time (`DmaExact`), its timer strikes on entry (`TimerOnEntry`); two flash chips agree (`FlashesAgree`); receivers deliver the current asset (`StreamsCurrent`) |
| `Serving` | four parts, two of them with fairness | The SA-1 takes an NMI only for a new cause (`NmiOncePerCause`), its IRQs are taken and its waits end (`RequestsEndWaits`); pictures go on and keep their distance (`PicturesFlow`); save files survive crashes and failures (`SavesExact`); MSU-1 neither loses nor repeats a tick (`PlaybackExact`) |
| `PictureAndSound` | ten parts, see below | SPC700 instructions write where they read and returns take their frames (`AccessesPair`), its arithmetic is exact (`ArithmeticExact`); voices find their own data, ENDX and KON are exact (`VoicesExact`); the echo has its delay and its taps (`EchoExact`); audio is complete and mixed once (`AudioComplete`); each dot is drawn with its registers (`PictureExact`) from its line's VRAM (`LineMemoryExact`); the overflow flags match the drawing and the first object is in front (`ObjectsExact`); layers and blending are right (`PixelExact`); the Super FX's memory is in program order (`MemoryInOrder`) |

Deadlock is checked in every run but the three combined ones, in which some
parts do end: a program that has stopped well (`SaveFiles`), a pixel that is drawn
(`PpuPixel`).

### Why the bounds are enough

* `Dma`: two channels are what cutting, sharing and the last-channel rule of the
  indirect terminator need (one earlier, one later). Three-bit bytes make sizes
  wrap (0 asks for 64 bytes) and leave room for entries with and without the repeat
  bit, the repeat bit alone, and the terminator. Four lines hold two entries and
  the reload between them. `MaxWrites = 2` allows two register writes at any
  points of the run, so that one starts a transfer and the other disturbs it or starts an HDMA
  (the channels start disabled). The theorems hold for any bound on the writes.
* `Interrupts`: eight ticks a line are four polls, more than the five ticks of
  delay; three lines give a first, an inner and a VBlank line. `CycleTicks = {3}` is
  the fastest cycle, and since a tick may always come before the CPU goes on (DMA,
  refresh), every longer cycle is among the behaviours.
* `Timing`: 44 and 40 have the remainders modulo 8 of 1364 and 1360, so refresh
  and setup positions take all the values they take; the events keep their order on
  the line; a batch of 5 leaves half ticks and 6 and 8 are the CPU's cycles.
* `AutoJoypad`: a poll is 2n + 1 ticks for n buttons; three buttons with distinct
  packets tell order and saturation apart. The four phases are the corners of the
  start window.
* `MulDiv`: the step is uniform in the width, and at two bits every pair of
  operands, every partial result and every interruption is covered.
* `Devices`: SA-1 transfers of two bytes wrap in every memory, and a budget of 3
  against byte costs of 2 and 4 cuts them inside a byte; two small rasters make a
  batch cross lines and frames. Flash: two blocks are "this one and another".
* `Serving`: the SA-1 sets lengths of none, one and two bytes, so that a transfer is over at
  once, ends with its first byte, or may be started again by the CPU before its last; save
  files are three, as in `main.cpp`, of two contents, so that a
  change back is possible; three frames wanted of at most five queued, one or two produced at a time,
  so that the queue may be over and under the mark; lateness up to two periods
  passes the limit at which the pacer gives up its schedule. MSU-1: tracks of one to three
  frames, a loop point inside, at the start and beyond the end, a missing file, and 5 to
  3 as the ratio of rates.
* `PictureAndSound`: SPC700 pages of four and bytes of three make every index wrap, and
  digits of four values with a decimal digit of three have values that are not
  decimal; the watched voice has neighbours on both sides (the schedule is the
  same for all); echo lengths of none, one and two with a change at any clock; a
  buffer of three with frames of up to eight samples overflows twice. Raster: a
  cached dot with one before and one after, two writes of one or two ports that
  share a latch, two lines, so that a mosaic block may begin above. Objects: three
  of which two fit in a line, in sizes with and without the odd one, off both edges.
  Pixels: every mode and every window and math setting once, and every corner of
  a channel for the blend, which is the same for each. The Super FX has two words, so
  that one is the other's neighbour, two rows of two pixels, so that both pixel caches
  are in use, and programs that use one memory or the other (they share nothing).
* `Smp`: a divider of three and an output of two values make every counter wrap,
  targets 0 and 1 are "the whole range" and the smallest, and one and five clocks
  are the even and the uneven division of ticks. Timers do not share state, so one
  stands for three; the theorems are for any set of them.
* `Instructions`: page 1 needs one page beside it on which a push or a pull without
  emulation wrap lands, and with two that one is on both sides, so S also wraps at
  its width. A page of four bytes holds the longest frame, so each frame also
  meets every border. `ReturnTakesFrame` excepts one case, JSL or JSR (abs,X) in
  emulation mode with fewer bytes left in the page than it pushes: `pushN` leaves
  page 1 there (Processor65816.hpp:138-139 declares it without wrapping), S is put
  back afterwards but not the bytes, and the return reads others.

### Findings

1. `BeginCpuCycle` (Emulator.cpp:661-674): the comment promises a complete CPU
   cycle between a request and its service; a request that arrives while an earlier
   one has the controller armed is served at once. The first conjunct of
   `AllServed`, `ColdRequestWaits`, is the part that holds.
2. `IrqController::Poll` (IrqController.cpp:115-119): in the first ten clocks of
   line 0 the delayed position is on line 0, not on the last line of the
   frame, so a target at the end of line 0 asserts a frame's end too early and one
   at the end of the last line never. `InnerTargetExact` is the part that holds.
3. `IrqController.hpp:31`: the lock is said to prevent dispatch for one
   instruction; it lasts until the next bus cycle. `StoreSuppressesSample` is
   the part that holds, and the part docs/cpu-regressions.md relies on.
4. docs/dma-video-and-sdd1.md:49 calls multiplication and division immediate; they
   take one step per CPU cycle.

## 4. Fairness

The machine runs because `StepFrame` loops; each fairness conjunct is that loop.

* `Dma`: `WF(Cpu \/ GeneralDma \/ Hdma)`: the thread keeps executing. The beam and
  the program are not fair: requests need not come.
* `Interrupts`: `WF(Clock)`, every cycle ticks the beam; `WF(CpuNext)`, one Step
  after the other; `SF(Sample \/ WaitSample)`, an instruction has finitely many
  cycles; and `SF` of an unlocked sample, an assumption on the program: not
  every instruction from some point on is a word store to `$4200`. Such a program
  does suppress every sample, and NMI is then not taken.
* `Timing`: `WF` of the loop in `Tick` and `AdvanceClocks`, and of a next cycle.
* `Smp`: `WF(StepCycle)`, the loop of `RunUntil`. The console is not fair.
* `Sa1Processor`: `WF(Step)`, `AdvanceClocks` runs the chip on every bus cycle of the CPU;
  `WF(TransferByte)`, a bus cycle has six clocks or more and a byte costs two or four, so
  that a byte ends even if the CPU starts the transfer again in every cycle; and `SF` of a
  plain instruction, an assumption on the SA-1's program: it does not only write its
  interrupt registers. Nothing is assumed of how often the CPU starts transfers. That
  they do not hold the processor up for ever follows from the code: the length registers run
  to 0 with the bytes, and only the SA-1 can set them. A mutant that keeps the length
  (`LengthKept`) lets the CPU stop it.
* `Playback`: `WF` of each alternative of the main loop, of time and of the audio device,
  which drains its queue while it plays. The host's stalls are not fair.
* Every other module: safety only.

## 5. The proofs

All theorems are for every value of the constants under the named assumptions of
the component's module (`RepeatBitAssumption`, `DmaAssumption`, `IrqAssumption`,
`CycleAssumption`, `TimingAssumption`, `JoypadAssumption`, `MulDivAssumption`,
`SmpAssumption`, `StackAssumption`, `SaveFilesAssumption`, `BsRadioAssumption`,
`Sa1DmaAssumption`, `Sa1ProcessorAssumption`, `Sa1TimerAssumption`, `PpuMemoryAssumption`,
`PpuMemoryPrograms`, `AudioMixAssumption`, `DspEchoAssumption`, `SuperFxAssumption`, `SuperFxInputs`,
`Msu1Assumption`, `Spc700Assumption`, `PpuPixelAssumption`, `PpuObjectsAssumption`,
`PpuRasterAssumption`, `Spc700AluAssumption`, `DspVoicesAssumption`; TLC evaluates each of them
on the instance of a run): widths
and periods are naturals above a small bound, and what a program writes fits
its register. The shape is always the same: a lemma for the initial states, one for each
action or kind of step, one that collects them, and a theorem that adds the
temporal step.

* `DmaProofs` (`TypeCorrect`, `BytesAccounted`, `CutsAreFinal`, `TablesWalked`). The invariant is
  `TypeOK /\ ByteAccounting /\ CutIsCancelled /\ CutBeforeReload /\ HdmaPlace`.
  `ByteAccounting` alone is not inductive: an HDMA reload of an indirect channel
  writes the size register of a channel that general DMA may be moving, so one
  needs that the pass which may do so comes after the one that cut the channel's
  transfer (`CutBeforeReload`), that between two bytes the running channel is
  enabled exactly if it was not cut (`CutIsCancelled`), and that an HDMA runs only
  on top of a boundary (`HdmaPlace`). The register lemmas
  (`WordOfBytes`, `BytesOfWord`, `ReloadType`, ...) say that every operation stays
  inside its width. `TableWalk` speaks of the moments between two HDMAs. `WalkInv`
  says for the middle of one which channels the transfer pass has reached
  (`HasMoved`), and that a channel's line counter is its entry less the lines it has
  lasted, repeat bit included, so that counter and history expire together.
* `InterruptsProofs` (`ControllerTypeCorrect`, `FlagsAlwaysAgree`, `TimerIsExact`,
  `TypeCorrect`, `StoresSuppressSamples`, `RequestsAreFaithful`). The controller's invariant is its type and
  `FlagsAgree`, proved for polls at any position and any order of accesses, with one
  lemma per register. `TimerIsExact` rests on `CoincidesExactly`: on inner lines the
  delayed position that a poll compares is where the beam was ten clocks ago.
  The CPU adds `StoredLocks`: if the last cycle was a store
  to `$4200`, the lock is held; hence the sample that follows changes nothing.
  `RequestsFaithful` alone is not inductive: between a store and the poll that makes a
  request of its effect there must be no sample, so the invariant says how long
  the bus cycle still lasts (`CausesApart`, `LatchedAgain`, against `UntilPoll`).
* `TimingProofs` (`LinesAreComplete`, `TimingImplementsBeam`). The code asks "past the
  position and not fired" with thresholds, in batches of any size. `BeamPlace` says
  that the beam stands on an even clock whatever the batches were, and `FiredInTime`
  that a flag is set exactly from the position of its event on; so no threshold is
  jumped over, `Counted` relates the history to the flags, and each round of the loop
  is one move of `Beam` or a stutter (`TimingImplementsBeam` is the refinement
  `Spec => PlainBeam!BeamSpec`).
* `CpuIoProofs`, the joypad (`LatchIsShared`, `PollsAreSingle`, `PacketsDelivered`). `autoLatch`
  falls only at counter 1, so a poll that started again before that, or was disabled
  between the two ticks, could leave the line up. `Released128` excludes it: a poll starts
  only when the divider by 256 is aligned, which two neighbouring ticks never are. Of
  the two ticks of a VBlank at which a poll may start one is aligned, whatever the phase
  (`PollsCounted`). `Delivering` follows the packet: at counter `2n + 1` its first `n` bits
  are in the register, at `2n + 2` the next one is on the wire.
* `CpuIoProofs`, the multiplier (`NeverTwoOperations`, `ResultsAreExact`): the counters only
  go down, and a start is refused while one runs. `Multiplying` and `Dividing` are what
  a partial product and a partial quotient are: the sum so far and the shifted
  multiplicand times what is left of the multiplier make the product; the quotient's
  bits so far times the shifted divisor and the remainder make the dividend. One step
  of the unit keeps each (`MulArithmetic` and its neighbours), for every width, and
  a division by zero ends with all bits set.
* `SmpProofs` (`TypesHold`, `LinesAreGated`, `EdgesAreCounted`, `PortReadsHold`,
  `AccessesTakeTheirTicks`). `CountsEdges` compares a
  history of edges with divider and output. The invariant relates
  them for a timer whose target was left alone (`edges = stage2 + period * stage3`),
  and for one whose target was rewritten bounds how far the divider is from the
  next match (`Distance`); lemmas take a timer through a step of the divider, a
  TEST write, a read of its output, a target write and a CONTROL write.
  `PortInv` says of a port read under way that what was sampled, or the port itself
  while nothing is, belongs to what the port held in the first half. `PhaseInv` follows
  the ticks into an access: stages 0 and 1 are a counter modulo two pulses, equal to
  the ticks of the accesses ended and of the clocks of this one (`Given`).
* `SmpProofs`, the SPC700 (`AccessesArePaired`). AccessesPair speaks of the location of the last
  read and of the cells of the last frame; the invariant adds, for every list of accesses
  an instruction may still make, that a write is behind a read of its location
  (`Paired`), and that calls and returns move S by as many cells as they list, modulo the
  page. Both are lemmas about each way a handler forms its addresses, for pages and bytes
  of any size.
* `SmpProofs`, its arithmetic (`ArithmeticIsExact`), for digits of any even size and a decimal
  digit of any smaller one. `WordArithmetic` and `Division` hold of any registers of their
  types. A word is two digits that are bytes, a byte two digits, and one set of lemmas
  serves both (`Lexical`, `TwoDigits`, `LowestTwo`): comparisons, carries and remainders of
  two-digit numbers are those of their digits. So the chained bytes have the word's
  carry, value and overflow (`SumIs`), and the two cases of DIV their quotients (`QuotientIs`,
  `TooLarge`). `DecimalAdjusted` speaks of the instruction after the addition, and its
  invariant (`DecimalInv`) says what ADC and SBC leave: the digits' binary sums modulo
  `Digit`, with H and C telling which have carried. `AdjustUp` and `AdjustDown` follow DAA and
  DAS from there, through the carry of their own addition.
* `SmpProofs`, the voices (`VoicesAreExact`), whichever of the eight are watched. The invariant
  (`VoicesInv`) is a table, `PlaceAt`: whose each shared latch is before each of the 32 clocks,
  which voice is between two of its operations, and which are still to see a new `kon_`.
  Beside the table stands what a key-on has reached (`Begun`, `Ready`: a block's end is never
  reached on the way, so `looped` is only a playing voice's), that the published and the captured ENDX are the
  history's but for the one voice between the two (`EndsInPlace`), and that a bit of `newKon_` or
  `kon_` that may still start a voice is one the program asked for (`KeysInPlace`). One lemma per
  operation takes any table row to the next, given that the latches it uses are its
  voice's (`Needs`, `Shifted`; `OperationMoves`); that the 32 clocks of `Clock` find what they need and
  lead from row to row is shown once for each of the three kinds of clock in the middle, for any voice
  (`FirstLeads`, `SecondLeads`, `ThirdLeads`), and one by one at both ends.
* `Instructions65816Proofs` (`TypeCorrect`, `ModesAlwaysAgree`, `InterruptsSampledOnce`,
  `ReturnsTakeFrames`). That S is in page 1 between instructions says nothing of the middle of one, where `pushN` and
  `pullN` take it out. The invariant adds: S is in page 1 in emulation mode unless
  the instruction repairs it at its end (`Repairs`); the cycles left contain no
  `pushN` or `pullN` for the others; and what is left ends in a cycle that is not a
  sample, so that the repair in `End` is always reached. One lemma per group of
  handlers shows that its sequences are of such cycles for every mode, width and
  choice (`DataCycles`, `OtherCycles`, `DataEnds`, `OtherEnds`), and one per kind
  of effect that it keeps the flags and the page (`CycleTyped`, `EffectTyped`).
  `SampleOK` adds that what is left holds at most the one sample that has not been made,
  next to its last cycle. For `ReturnTakesFrame` the invariant (`StackInv`) follows a call, a
  return or an interrupt through its frame: the cells behind it are those between its
  start and S, one beside the other in the page or in the stack (`Cell`), and the pushes
  or pulls left make up the size of its frame (`Depth`, by kind and mode); a frame left
  on the history has the cells of one that has ended (`FrameOK`). A return then goes up
  the cells the call came down, the same ones whether they wrap in the page or in the
  stack, because a frame that straddles page 1 is excepted (`CellInside`).
* `CartridgeProofs`, save files (`SavesAlwaysExact`). That a normal exit has saved every file is
  about a whole flush, so the invariant says what its middle owes: a file that is
  no longer in `todo` is on the disk (`RestDone`), and the temporary file about to be
  renamed is the memory's content (`FileInHand`); both because the memory rests
  while files are flushed.
* `CartridgeProofs`, flash and radio (`FlashesAlwaysAgree`, `StreamsStayCurrent`). Two reads
  that answer alike say nothing of the next command, so the invariant is that the two
  chips are the same in every field, the interrupt excepted (`SameChips`); one lemma takes any
  command through both machines (`SameCommand`). `StreamsCurrent` is
  inductive with its types (`RadioInv`); it is proved receiver by receiver (`Current`),
  with a lemma for the host replacing an asset under a reader (`AssetReplaced`).
* `CartridgeProofs`, the SA-1 (`NmisHaveCauses`, `TransfersExact`, `TimerMatchesDots`).
  `NmiOncePerCause` is an action property, and `CauseInv` its invariant: an NMI that would be
  taken now (flag, enable, not serviced) has a cause that was not yet used.
  `DmaExact` gives the addresses as remainders in the memory's size; that the next byte's
  address is the remainder of the next number is `NextAddress`, from lemmas that know
  a remainder by its multiple (`RemainderIs`, `RemainderStep`). `AdvanceTimer` computes the
  distance to each target instead of clocking dots. `EntryAt` says where on the raster the
  comparison holds and did not hold a dot before, `FirstHit` that the first such dot is
  at the computed distance (`ToGo`) and that a batch shorter than it holds none; together they
  make the closed form the comparison at every dot (`RaisedOnEntry`), for the period of each mode.
* `PictureAndSoundProofs`, video memory (`LinesDrawnFromTheirMemory`). A copy may be shared as long as it is
  current (`CopyFresh`: unless the dirty flag is up or a pointer was given away, the
  last copy is VRAM), a line keeps a copy that no later line overwrites
  (`CopyHeld`: its place is among those in use, and new ones come behind), and copies
  are forgotten only when no line waits (`NoneWaits`).
* `PictureAndSoundProofs`, audio (`SamplesAlwaysComplete`). `AudioComplete` speaks of what was
  submitted; `MixInv` says of the middle of a frame that overflow and buffer, one behind the other,
  are the samples made so far, each mixed once, and that the buffer has room for the one
  sample a bus phase may make (`AudioMixAssumption`: a phase takes at most 52 of the 671
  clocks of a sample).
* `PictureAndSoundProofs`, the echo (`EchoesAreExact`). That the frame read now was written one
  sweep ago is about the whole sweep: `SweptInv` says that of the last samples as many as
  the registers have been left alone (`steady`), the frame k samples back (`Ago`) has the
  age k, before clock 29 and after it. A new page or length is noticed at clock 29 alone, so
  `AddressInv` follows the address latched at clock 22 across it. `HistInv` gives the age of each
  slot of the doubled history for either channel, the right one a clock later; every
  tap so far then has its sample (`UsedInv`). The one assumption besides positive
  sizes is that a register has a largest value.
* `PictureAndSoundProofs`, the Super FX (`MemoryStaysInOrder`). That the last read was the newest copy is
  not inductive; the invariant (`GsuInv`) says where the newest copy of everything is. A byte
  that is not in RAM is in the store buffer, and whoever waits for the RAM waits at least
  as long as the buffer is busy (`BufferInv`), however the CPU stops the clock of both by taking
  the port; the same of the ROM buffer and R14, unless the instruction has changed
  R14 and not yet ended (`RomInv`); and a pixel of the newer row is newer than the older row's, and
  that newer than the bitmap (`PixelInv`). The coroutine may be suspended anywhere, so
  `AwaitsInv` says of the awaits still to come which only ever follow which (`Follows`: the
  older row is written back before the newer one takes its place, a ROM byte is read before R14
  changes), and what is therefore done when an await's turn comes (`Prepared`). Every body of an
  instruction is in that order (`BodyOrdered`), and plotting puts lists of it in front of others
  (`JoinOrdered`).

* `CartridgeProofs`, the MSU-1 (`PlaybackStaysExact`). The place in a track is given by a
  function of the number of ticks (`Passes`), with its loop point. One more tick of the
  player is one more step of the function; the read cache is right because it is
  filled from where the player reads next and emptied by everything that moves that place.
* `PictureAndSoundProofs`, one dot (`PixelStaysExact`). The invariant says what the two screens
  show of the layers plotted so far, the foremost unclipped dot. The blends are a lemma about
  numbers, `BlendIsExact`: the carry out of a channel is subtracted, or kept, exactly where the
  channel's own sum or difference leaves 0 to 31, for every pair of colours.
* `PictureAndSoundProofs`, the objects (`ObjectsStayExact`). The flags are raised from counts, the drawing is
  cut by counts of other sets. `UpToLimit` keeps all of a set exactly if it is within the
  limit (the member with the limit's number exists otherwise), and the tiles that
  `UpdateObjectOverflow` counts are the ones `RenderObjects` wants, so the flags agree
  line by line. That the first object is in front follows from the order in which tiles are
  fetched, and from a dot's column being in one tile of an object, wrapped or not (`CoverIsShow`,
  which needs a width that is a number of tiles and not wider than the space).
* `PictureAndSoundProofs`, the raster (`PictureStaysExact`). Of a line's events the invariant says that they are a
  chain from the registers of its first dot: each starts where the one before ended and
  changes only what it copies (`Chained`); the line's copy is one of the chain's registers
  (`CopiedAmong`), and every dot passed was passed with those after the events before it
  (`PassedWith`). Undone from anywhere in the chain it ends at its start (`StartIs`), because a field is
  either restored by the first event that copies it or by none and then the same in all of
  them; done again it passes through each (`RedoneIs`). `WriteStores` is about the registers:
  what a port stores is what its event copies. The lines cached are those the beam has done
  (`BeamCaches`), and the mosaic's counter stays in its block (`MosaicRows`).

The provers see no recursive operator: iteration is in the actions, in sets, or in functions of
a number. What such a function computes is proved without the induction theorems of the
library: the numbers at which a statement fails have a least one (`Smallest`, from
`NatLessThanWellFounded`), which is not 0 and whose predecessor is no counterexample.

## 6. What is only model-checked

Liveness (`AllServed`, `RequestsServed`, `AdvanceReturns`, `RunReturns`,
`RequestsEndWaits`, `PicturesFlow`), which is beyond the installed provers. Every other property
of a passing run is stated by a theorem.

## 7. What is not modelled

What 65816 instructions compute and the samples and pixels themselves: deterministic
arithmetic that the repository's tests compare with reference values. In the PPU:
tile, Mode 7 and pixel fetches, the two dots of high resolution, the open bus
bits, and SETINI, whose overscan bit changes the number of lines at once
while the beam's copy of it follows at the next line. In the DSP: BRR decoding,
interpolation, envelope rates, noise and pitch modulation. SA-1: its arithmetic
unit, bit stream and memory maps. Super FX: arithmetic and the interrupt line.
MSU-1: the data port, which reads its own stream the same way. `Cpu65816` and
`ApuScheduler`: not used by `Emulator`. Decoding of cartridges and compression
(S-DD1, SPC7110), DSP-n, CX4 and ST-01x commands: functions of their input. Host
I/O. Inside the components modelled first: STP and RESET, the mouse, multitap and
light guns, the contents of APU RAM and the coroutine objects of the SPC700.
`PROJECT.json` gives a reason for every component that is left out.

## 8. The plan

A component is done when its operations, properties, mutants and hazards are in
`PROJECT.json`. Next, in order of importance:

1. S-DD1's hand-over: the buffer prepared at a channel's start, with HDMA cutting the
   channel, as an extension of `Dma`.
2. `Ppu`: SETINI inside a frame; the two dots of high resolution.
3. SPC7110's data port and clock, and the command protocols of the DSP-n.
4. The SA-1's bit stream and its interrupts towards the CPU.
5. The mouse, multitap and light guns in `AutoJoypad`.
