------------------------------ MODULE SuperFx ------------------------------
(***************************************************************************)
(* The Super FX (class SuperFx::Impl, core/src/cartridge/SuperFx.cpp): the *)
(* GSU's coroutine as the list of awaits its instruction still has to do,  *)
(* its ROM and RAM buffers, its two rows of plotted pixels, and the CPU,   *)
(* which grants and withdraws the two ports, stops the chip and uses its      *)
(* memory between any two clocks.  Instructions are the classes that await *)
(* alike; the registers they compute with are left out, R14 excepted, as   *)
(* are the planes of a pixel, which share an address, and the interrupt.   *)
(* A copy of a byte or of a pixel is TRUE when it is the newest one, by    *)
(* the program's own order, and FALSE when a later one is on its way.      *)
(***************************************************************************)
EXTENDS Integers, Sequences

CONSTANTS
  GsuPrograms,  \* the sets of instruction classes a program is made of
  RomAddresses, \* the values of the ROM bank and R14
  PixelRows, Lanes,  \* the bitmap's rows of pixels (256 x 256 / 8) and the 8 pixels of each
  CoreCost, MemoryCost, LineCost  \* 1 or 2, 5 or 6, and 16 MemoryCost, by $3039

\* What the constants are to satisfy.
ASSUME SuperFxAssumption ==
  /\ RomAddresses # {}
  /\ {CoreCost, MemoryCost, LineCost} \subseteq Nat \ {0}

VARIABLES
  gsuProgram,  \* the classes of this behaviour's program
  go,       \* bit 5 of status: Running()
  granted,  \* screenMode bits 4 and 3: the ports the GSU holds
  awaits,   \* what Run() still has to do of its instruction, the awaits among it
  wait,     \* waitRemaining and waitPort; on: the head of awaits has suspended
  r14,
  written,  \* r14Written
  romRead,  \* romRemaining (and RomBusy), romAddress, romBuffer
  store,    \* ramRemaining, ramAddress
  ram,
  pixels,   \* pixels[0], the newer row, and pixels[1]
  bitmap,   \* the part of RAM that holds the picture
  got       \* history: the last data read returned the newest copy

gsuChip == <<awaits, wait, r14, written, romRead, store, pixels>>
memories == <<ram, bitmap>>
gsuVars == <<gsuProgram, go, granted, gsuChip, memories, got>>

RamWords == {0, 1}
NoRow == -1
Port == {"rom", "ram"}
Classes == {"plain", "store", "storeByte", "load", "loadByte", "multiply", "romByte",
            "ramBank", "plot", "readPixel", "stop"}

\* And the programs.
ASSUME SuperFxInputs == \A p \in GsuPrograms : p \subseteq Classes

\* The colours of a row are kept for its pending pixels.
Pending(row) == DOMAIN row.colors

NoPixels == [l \in {} |-> TRUE]

GsuInit ==
  /\ gsuProgram \in GsuPrograms
  /\ go = FALSE /\ granted = {}
  /\ awaits = <<>> /\ wait = [on |-> FALSE, left |-> 0, port |-> "none"]
  /\ r14 \in RomAddresses /\ written = FALSE
  /\ romRead = [left |-> 0, address |-> r14, byte |-> r14]
  /\ store = [left |-> 0, address |-> 0]
  /\ ram = [a \in RamWords |-> TRUE]
  /\ pixels = [i \in {0, 1} |-> [row |-> NoRow, colors |-> NoPixels]]
  /\ bitmap = [r \in PixelRows |-> [l \in Lanes |-> TRUE]]
  /\ got = TRUE

-----------------------------------------------------------------------------
(***************************************************************************)
(* Instructions.  A step of one is an await (fetch, read, write, ...) or   *)
(* what Run() does between two of them (put, shift, ...).                  *)
(***************************************************************************)
\* The prefetch of the next opcode and of the bytes of an immediate: each may
\* be in the cache, fill one of its lines or bypass it.
Fetches ==
  [op : {"fetch"}, port : {"none"}, clocks : {CoreCost}]
  \cup [op : {"fetch"}, port : Port, clocks : {LineCost, MemoryCost}]

\* Low byte first; the other byte of a word is at the address xor 1.
Stores(a, word) ==
  <<[op |-> "write", at |-> a]>> \o (IF word THEN <<[op |-> "write", at |-> 1 - a]>> ELSE <<>>)

Loads(a, word) ==
  <<[op |-> "read", at |-> a]>> \o (IF word THEN <<[op |-> "read", at |-> 1 - a]>> ELSE <<>>)

\* The result of an instruction may go to R14.
SetR14 == [op |-> "setR14"]

Results == {<<>>, <<SetR14>>}

Flush(i) == [op |-> "flush", row |-> i]

ReadPixel(r, l) == <<Flush(1), Flush(0), [op |-> "readPixel", row |-> r, lane |-> l]>>

Bodies(class) ==
  CASE class = "plain" -> Results
    [] class = "store" -> {Stores(a, TRUE) : a \in RamWords}
    [] class = "storeByte" -> {Stores(a, FALSE) : a \in RamWords}
    [] class = "load" -> {Loads(a, TRUE) \o r : a \in RamWords, r \in Results}
    [] class = "loadByte" -> {Loads(a, FALSE) \o r : a \in RamWords, r \in Results}
    [] class = "multiply" -> {<<[op |-> "core"]>> \o r : r \in Results}
    [] class = "romByte" -> {<<[op |-> "rom"]>> \o r : r \in Results}
    [] class = "ramBank" -> {<<[op |-> "drain"]>>}
    [] class = "plot" -> {<<[op |-> "plot", row |-> r, lane |-> l]>> : r \in PixelRows, l \in Lanes}
    [] class = "readPixel" -> {ReadPixel(r, l) : r \in PixelRows, l \in Lanes}
    [] class = "stop" -> {<<[op |-> "stop"]>>}

End == [op |-> "end"]

\* The top of Run's loop.
Decode ==
  /\ go /\ awaits = <<>>
  /\ \E class \in gsuProgram, fetch \in Fetches : \E body \in Bodies(class) :
       awaits' = <<fetch>> \o body \o <<End>>
  /\ UNCHANGED <<gsuProgram, go, granted, wait, r14, written, romRead, store, pixels,
                 memories, got>>

-----------------------------------------------------------------------------
(***************************************************************************)
(* Awaits: whether one is ready at once, and how long and for which port   *)
(* it suspends.                                                            *)
(***************************************************************************)
Granted(bus) == bus = "none" \/ bus \in granted

NoWait == [on |-> FALSE, left |-> 0, port |-> "none"]

Suspended(clocks, bus) == [on |-> TRUE, left |-> clocks, port |-> bus]

\* Mutant: a write does not wait for the buffered one.
WriteReadyAtOnce == Granted("ram")

WriteReady == store.left = 0 /\ Granted("ram")

Ready(step) ==
  CASE step.op \in {"fetch", "read", "readPixel", "core"} -> FALSE
    [] step.op = "write" -> WriteReady
    [] step.op = "rom" -> romRead.left = 0
    [] step.op = "drain" -> store.left = 0
    [] step.op = "flush" -> Pending(pixels[step.row]) = {}
    [] OTHER -> TRUE

\* A buffered access of the same port goes first.
Buffered(bus) == [none |-> 0, rom |-> romRead.left, ram |-> store.left][bus]

FetchWait(step) == Suspended(Buffered(step.port) + step.clocks, step.port)

ReadWait(step) == Suspended(store.left + MemoryCost, "ram")

\* A row that is not full is read before it is written.
FlushWait(step) ==
  Suspended(store.left + MemoryCost * (IF Pending(pixels[step.row]) = Lanes THEN 1 ELSE 2), "ram")

WaitOf(step) ==
  CASE step.op = "fetch" -> FetchWait(step)
    [] step.op \in {"read", "readPixel"} -> ReadWait(step)
    [] step.op = "write" -> Suspended(store.left, "ram")
    [] step.op = "rom" -> Suspended(romRead.left, "rom")
    [] step.op = "drain" -> Suspended(store.left, "ram")
    [] step.op = "core" -> Suspended(CoreCost, "none")
    [] step.op = "flush" -> FlushWait(step)

Suspend ==
  /\ go /\ awaits # <<>> /\ ~wait.on /\ ~Ready(Head(awaits))
  /\ wait' = WaitOf(Head(awaits))
  /\ UNCHANGED <<gsuProgram, go, granted, awaits, r14, written, romRead, store, pixels,
                 memories, got>>

-----------------------------------------------------------------------------
(***************************************************************************)
(* What the coroutine does when it is resumed.                             *)
(***************************************************************************)
Resumable == go /\ wait.on /\ wait.left = 0 /\ Granted(wait.port)

\* The head of awaits is done, and what it leads to comes first.
Proceed(op, more) ==
  /\ awaits # <<>> /\ Head(awaits).op = op
  /\ Resumable \/ (go /\ ~wait.on /\ Ready(Head(awaits)))
  /\ wait' = NoWait
  /\ awaits' = more \o Tail(awaits)
  /\ UNCHANGED <<gsuProgram, granted>>

Awaited ==
  /\ \E op \in {"fetch", "core", "drain"} : Proceed(op, <<>>)
  /\ UNCHANGED <<go, r14, written, romRead, store, pixels, memories, got>>

ReadRam ==
  /\ Proceed("read", <<>>)
  /\ got' = ram[Head(awaits).at]
  /\ UNCHANGED <<go, r14, written, romRead, store, pixels, memories>>

WriteRam ==
  /\ Proceed("write", <<>>)
  /\ store' = [left |-> MemoryCost, address |-> Head(awaits).at]
  /\ ram' = [ram EXCEPT ![Head(awaits).at] = FALSE]
  /\ UNCHANGED <<go, r14, written, romRead, pixels, bitmap, got>>

\* GETB, GETC and the bank change of ROMB.
ReadRom ==
  /\ Proceed("rom", <<>>)
  /\ got' = (romRead.byte = r14)
  /\ UNCHANGED <<go, r14, written, romRead, store, pixels, memories>>

ChangeR14 ==
  /\ Proceed("setR14", <<>>)
  /\ r14' \in RomAddresses
  /\ written' = TRUE
  /\ UNCHANGED <<go, romRead, store, pixels, memories, got>>

Stop ==
  /\ Proceed("stop", <<>>)
  /\ go' = FALSE
  /\ UNCHANGED <<r14, written, romRead, store, pixels, memories, got>>

StartRomRead(a) == [romRead EXCEPT !.left = MemoryCost, !.address = a]

\* The bottom of Run's loop.
EndInstruction ==
  /\ Proceed("end", <<>>)
  /\ romRead' = IF written THEN StartRomRead(r14) ELSE romRead
  /\ written' = FALSE
  /\ UNCHANGED <<go, r14, store, pixels, memories, got>>

-----------------------------------------------------------------------------
(***************************************************************************)
(* The pixel rows.                                                         *)
(***************************************************************************)
\* FlushPixels::await_resume.
WriteBack ==
  /\ Proceed("flush", <<>>)
  /\ LET i == Head(awaits).row
         row == pixels[i]
     IN  /\ bitmap' = [r \in PixelRows |-> [l \in Lanes |->
                         IF r = row.row /\ l \in Pending(row) THEN row.colors[l]
                         ELSE bitmap[r][l]]]
         /\ pixels' = [pixels EXCEPT ![i].colors = NoPixels]
  /\ UNCHANGED <<go, r14, written, romRead, store, ram, got>>

Put(step) == [step EXCEPT !.op = "put"]

Shift(r) == [op |-> "shift", row |-> r]

RowChange(r) == IF pixels[0].row = r THEN <<>> ELSE <<Flush(1), Shift(r)>>

Plot ==
  /\ Proceed("plot", RowChange(Head(awaits).row) \o <<Put(Head(awaits))>>)
  /\ UNCHANGED <<go, r14, written, romRead, store, pixels, memories, got>>

\* pixels[1] = pixels[0], and the newer row starts afresh.
ShiftRow ==
  /\ Proceed("shift", <<>>)
  /\ pixels' = [pixels EXCEPT ![1] = pixels[0], ![0].row = Head(awaits).row, ![0].colors = NoPixels]
  /\ UNCHANGED <<go, r14, written, romRead, store, memories, got>>

PutPixel ==
  LET step == Head(awaits)
      plotted == Pending(pixels[0]) \cup {step.lane}
  IN  /\ Proceed("put", IF plotted = Lanes THEN <<Flush(1), Shift(step.row)>> ELSE <<>>)
      /\ pixels' = [pixels EXCEPT
                      ![0].colors = [l \in plotted |-> l = step.lane \/ pixels[0].colors[l]],
                      ![1].colors = [l \in Pending(pixels[1]) |->
                                       /\ pixels[1].colors[l]
                                       /\ ~(l = step.lane /\ pixels[1].row = step.row)]]
      /\ bitmap' = [bitmap EXCEPT ![step.row][step.lane] = FALSE]
      /\ UNCHANGED <<go, r14, written, romRead, store, ram, got>>

ReadPicture ==
  /\ Proceed("readPixel", <<>>)
  /\ got' = bitmap[Head(awaits).row][Head(awaits).lane]
  /\ UNCHANGED <<go, r14, written, romRead, store, pixels, memories>>

Gsu ==
  \/ Decode \/ Suspend \/ Awaited \/ ReadRam \/ WriteRam \/ ReadRom \/ ChangeR14 \/ Stop
  \/ EndInstruction \/ WriteBack \/ Plot \/ ShiftRow \/ PutPixel \/ ReadPicture

-----------------------------------------------------------------------------
(***************************************************************************)
(* Time: Advance resumes the coroutine whenever it can, and only then lets *)
(* a clock pass in TickBuffers and in its wait.                            *)
(***************************************************************************)
GsuIdle == ~go \/ (wait.on /\ ~Resumable)

Down(n) == IF n = 0 THEN 0 ELSE n - 1

TickBuffers ==
  LET rom == Granted("rom") /\ romRead.left > 0
      stored == Granted("ram") /\ store.left > 0
  IN  /\ romRead' = IF ~rom THEN romRead
                    ELSE [romRead EXCEPT !.left = Down(@), !.byte = IF romRead.left = 1
                                                                   THEN romRead.address ELSE @]
      /\ store' = IF stored THEN [store EXCEPT !.left = Down(@)] ELSE store
      /\ ram' = IF stored /\ store.left = 1 THEN [ram EXCEPT ![store.address] = TRUE]
                ELSE ram

GsuClock ==
  /\ GsuIdle
  /\ TickBuffers
  /\ wait' = IF go /\ Granted(wait.port) THEN [wait EXCEPT !.left = Down(@)] ELSE wait
  /\ UNCHANGED <<gsuProgram, go, granted, awaits, r14, written, pixels, bitmap, got>>

-----------------------------------------------------------------------------
(***************************************************************************)
(* The CPU, between two calls of Advance.                                  *)
(***************************************************************************)
\* $303A.
CpuGrants ==
  /\ GsuIdle
  /\ granted' \in SUBSET Port
  /\ UNCHANGED <<gsuProgram, go, gsuChip, memories, got>>

\* $301F.
CpuStarts ==
  /\ GsuIdle
  /\ go' = TRUE
  /\ UNCHANGED <<gsuProgram, granted, gsuChip, memories, got>>

\* $3030 with the bit clear: the instruction keeps its place.
CpuStops ==
  /\ GsuIdle
  /\ go' = FALSE
  /\ UNCHANGED <<gsuProgram, granted, gsuChip, memories, got>>

\* $301C and $301D.  A GETB or GETC that already waits for the byte keeps its
\* count: CPUs that do this are left out.
CpuSetsR14 ==
  /\ GsuIdle
  /\ ~(wait.on /\ Head(awaits).op = "rom")
  /\ \E a \in RomAddresses : r14' = a /\ romRead' = StartRomRead(a)
  /\ UNCHANGED <<gsuProgram, go, granted, awaits, wait, written, store, pixels, memories, got>>

\* WriteCpu to RAM.  A byte that the GSU has written and that is not yet in RAM
\* lands on top of it.
CpuWritesRam ==
  /\ GsuIdle
  /\ ~(go /\ "ram" \in granted)
  /\ \E a \in RamWords : ram' = [ram EXCEPT ![a] = ~(store.left > 0 /\ store.address = a)]
  /\ UNCHANGED <<gsuProgram, go, granted, gsuChip, bitmap, got>>

Cpu ==
  CpuGrants \/ CpuStarts \/ CpuStops \/ CpuSetsR14 \/ CpuWritesRam

GsuNext == Gsu \/ GsuClock \/ Cpu

GsuSpec == GsuInit /\ [][GsuNext]_gsuVars

-----------------------------------------------------------------------------
ReadsInOrder == got

PixelsKept ==
  \A r \in PixelRows, l \in Lanes :
    IF pixels[0].row = r /\ l \in Pending(pixels[0]) THEN pixels[0].colors[l]
    ELSE IF pixels[1].row = r /\ l \in Pending(pixels[1]) THEN pixels[1].colors[l]
    ELSE bitmap[r][l]

\* A load, a pixel read and a ROM byte return what the program, in its own
\* order, last stored, plotted or pointed R14 at, although the store and the ROM
\* read go through buffers and the CPU takes the ports away in between.  What the two
\* pixel rows hold is newer than the bitmap, and pixels[0] newer than pixels[1]:
\* looked up in this order, every pixel is the one the program plotted last, so that
\* none is lost or overtaken on its way.
MemoryInOrder == ReadsInOrder /\ PixelsKept
=============================================================================
