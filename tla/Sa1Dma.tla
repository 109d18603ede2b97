------------------------------- MODULE Sa1Dma -------------------------------
(***************************************************************************)
(* The transfer engines of the SA-1 (core/src/cartridge/Sa1Dma.cpp) under  *)
(* Sa1::Advance (Sa1.cpp), which runs the chip for the clocks of one CPU   *)
(* bus cycle: a normal DMA in slices of that budget, else whole            *)
(* instructions, whose overshoot the next call makes good.                 *)
(*                                                                         *)
(* Both processors write the registers: the CPU between two calls, the     *)
(* SA-1 in its instructions.  The bytes moved are not modelled, only where *)
(* they come from and go to.                                               *)
(***************************************************************************)
EXTENDS Integers

CONSTANTS
  Size,              \* bytes of "rom", "bwram" and "iram"; an address fits "rom"
  Settings,          \* what the program writes to $2230,
  TransferLengths,   \* to $2238 and $2239
  Budgets,           \* master clocks of a CPU bus cycle
  InstructionClocks, \* of an SA-1 instruction
  Tiles,             \* the tiles of a bitmap a CPU may read
  Rows               \* 8: the rows of a tile

Devices == {"rom", "bwram", "iram"}

Controls ==
  [on : BOOLEAN, cc : BOOLEAN, auto : BOOLEAN, from : Devices \cup {"none"}, toBwram : BOOLEAN]

\* What the constants are to satisfy.
ASSUME Sa1DmaAssumption ==
  /\ Settings \subseteq Controls
  /\ Size \in [Devices -> Nat \ {0}]
  /\ TransferLengths \subseteq Nat
  /\ Budgets \subseteq Nat \ {0}
  /\ InstructionClocks \subseteq Nat \ {0}
  /\ Rows \in Nat \ {0}

VARIABLES
  owed,        \* requestedClocks_ - executedClocks_
  registers,   \* $2230, $2232-$2239
  dma,         \* dma_
  conversion,  \* conversionActive_, Tile_, Rows_ and Buffer_
  dmaFlags,    \* bit 5 of sa1Flags_ and of cpuFlags_: "dma", "conversion"
  run          \* history: the transfer started last, what it has moved, the clocks
               \* it took

transferVars == <<owed, registers, dma, conversion, dmaFlags, run>>

Addresses == 0 .. Size["rom"] - 1

NoTile == -1

TransferInit ==
  /\ owed = 0
  /\ registers = [control |-> [on |-> FALSE, cc |-> FALSE, auto |-> FALSE, from |-> "rom",
                          toBwram |-> FALSE],
             source |-> 0, destination |-> 0, length |-> 0]
  /\ dma = [active |-> FALSE, from |-> "rom", toBwram |-> FALSE, source |-> 0,
            destination |-> 0, remaining |-> 0, left |-> 0]
  /\ conversion = [active |-> FALSE, tile |-> NoTile, rows |-> 0, buffer |-> 0]
  /\ dmaFlags = {}
  /\ run = [state |-> "none", source |-> 0, destination |-> 0, length |-> 0, moved |-> 0,
            clocks |-> 0]

-----------------------------------------------------------------------------
(***************************************************************************)
(* Normal DMA.                                                             *)
(***************************************************************************)
Defined(c) ==
  c.from # "none" /\ ~(c.from = "bwram" /\ c.toBwram) /\ ~(c.from = "iram" /\ ~c.toBwram)

Target(toBwram) == IF toBwram THEN "bwram" ELSE "iram"

Cost(from, toBwram) == IF from = "rom" /\ ~toBwram THEN 2 ELSE 4

\* The transfer set up by the registers p; one of length 0 is over at once.
StartDma(p) ==
  LET c == p.control
      some == p.length # 0
      d == [dma EXCEPT !.source = p.source, !.destination = p.destination,
                       !.remaining = p.length, !.active = some]
  IN  /\ dma' = IF some THEN [d EXCEPT !.from = c.from, !.toBwram = c.toBwram,
                                       !.left = Cost(c.from, c.toBwram)]
                        ELSE d
      /\ dmaFlags' = IF some THEN dmaFlags ELSE dmaFlags \cup {"dma"}
      /\ run' = [state |-> IF some THEN "moving" ELSE "done", source |-> p.source,
                 destination |-> p.destination, length |-> p.length, moved |-> 0, clocks |-> 0]

Min(a, b) == IF a < b THEN a ELSE b

\* A slice of the budget that does not finish the byte.
Slice(clocks) ==
  /\ dma' = [dma EXCEPT !.left = @ - clocks]
  /\ run' = [run EXCEPT !.clocks = @ + clocks]
  /\ UNCHANGED <<registers, dmaFlags>>

\* The clocks of the next byte.  Mutant: what the budget has left shortens it.
NextByteEarly(d) == [d EXCEPT !.left = Min(Cost(d.from, d.toBwram), owed)]

NextByte(d) == [d EXCEPT !.left = Cost(d.from, d.toBwram)]

\* The slice that finishes a byte: it is moved, and the registers follow.
Move(clocks) ==
  LET d == [dma EXCEPT !.source = (@ + 1) % Size[dma.from],
                       !.destination = (@ + 1) % Size[Target(dma.toBwram)],
                       !.remaining = @ - 1, !.left = 0]
      last == d.remaining = 0
  IN  /\ dma' = IF last THEN [d EXCEPT !.active = FALSE] ELSE NextByte(d)
      /\ dmaFlags' = IF last THEN dmaFlags \cup {"dma"} ELSE dmaFlags
      /\ registers' = [registers EXCEPT !.source = d.source, !.destination = d.destination,
                              !.length = d.remaining]
      /\ run' = [run EXCEPT !.moved = @ + 1, !.clocks = @ + clocks,
                            !.state = IF last THEN "done" ELSE @]

StepDma ==
  /\ owed > 0 /\ dma.active
  /\ LET clocks == Min(owed, dma.left)
     IN  /\ owed' = owed - clocks
         /\ IF clocks < dma.left THEN Slice(clocks) ELSE Move(clocks)
  /\ UNCHANGED conversion

-----------------------------------------------------------------------------
(***************************************************************************)
(* Character conversion: type 1 (auto) converts the tile the CPU reads,    *)
(* type 2 takes rows from registers into two alternating tiles.            *)
(***************************************************************************)
StartConversion ==
  /\ conversion' = [conversion EXCEPT !.active = TRUE, !.tile = 0]
  /\ dmaFlags' = dmaFlags \cup {"conversion"}

PushConversionRows ==
  LET full == conversion.rows + 1 = Rows
  IN  conversion' = [conversion EXCEPT !.rows = IF full THEN 0 ELSE @ + 1,
                                       !.buffer = IF full THEN 1 - @ ELSE @]

\* The CPU reads a byte of tile t of the bitmap.
ReadConverted(t) ==
  /\ owed <= 0 /\ conversion.active
  /\ conversion' = [conversion EXCEPT !.tile = t]
  /\ UNCHANGED <<owed, registers, dma, dmaFlags, run>>

-----------------------------------------------------------------------------
(***************************************************************************)
(* Register writes: WriteRegister.                                         *)
(***************************************************************************)
Stopped(c) ==
  [conversion EXCEPT !.active = @ /\ c.on /\ c.cc /\ c.auto,
                     !.rows = 0, !.buffer = 0]

\* The SA-1 writes $2230, and runs no instruction while a transfer is in progress.
WriteDmaControl(c) ==
  LET old == registers.control
      changed == ~c.on \/ ~old.on \/ c.cc # old.cc \/ c.auto # old.auto
  IN  /\ registers' = [registers EXCEPT !.control = c]
      /\ dma' = [dma EXCEPT !.active = @ /\ c.on]
      /\ conversion' = IF changed THEN Stopped(c)
                       ELSE [conversion EXCEPT !.active = @ /\ c.cc /\ c.auto]
      /\ UNCHANGED <<dmaFlags, run>>

\* $2231: the depth, or the end of a conversion.
WriteConversionControl(end) ==
  /\ conversion' = [conversion EXCEPT !.active = @ /\ ~end, !.tile = NoTile]
  /\ UNCHANGED <<registers, dma, dmaFlags, run>>

WriteSource(a) ==
  /\ registers' = [registers EXCEPT !.source = a]
  /\ UNCHANGED <<dma, conversion, dmaFlags, run>>

WriteLength(n) ==
  /\ registers' = [registers EXCEPT !.length = n]
  /\ UNCHANGED <<dma, conversion, dmaFlags, run>>

\* The destination as far as $2236, or as far as $2237: it may start an engine.
WriteDestination(a, bank) ==
  LET p == [registers EXCEPT !.destination = a]
      c == p.control
      starts == c.on /\ ~c.cc /\ (c.toBwram <=> bank)
  IN  /\ registers' = p
      /\ \/ /\ starts /\ Defined(c)
            /\ StartDma(p)
            /\ UNCHANGED conversion
         \/ /\ ~bank /\ c.on /\ c.cc /\ c.auto
            /\ StartConversion
            /\ UNCHANGED <<dma, run>>
         \/ /\ ~(starts /\ Defined(c)) /\ ~(~bank /\ c.on /\ c.cc /\ c.auto)
            /\ UNCHANGED <<dma, conversion, dmaFlags, run>>

\* The last register of a row of pixels.
WriteRow ==
  /\ LET c == registers.control
     IN  IF c.on /\ c.cc /\ ~c.auto THEN PushConversionRows ELSE UNCHANGED conversion
  /\ UNCHANGED <<registers, dma, dmaFlags, run>>

\* $220B by the SA-1, $2202 by the CPU.
Acknowledge(flag) ==
  /\ dmaFlags' = dmaFlags \ {flag}
  /\ UNCHANGED <<registers, dma, conversion, run>>

EitherWrites ==
  \/ \E end \in BOOLEAN : WriteConversionControl(end)
  \/ \E a \in Addresses : WriteSource(a)
  \/ \E a \in Addresses, bank \in BOOLEAN : WriteDestination(a, bank)

CpuDmaWrites ==
  /\ owed <= 0
  /\ EitherWrites \/ Acknowledge("conversion")
  /\ UNCHANGED owed

-----------------------------------------------------------------------------
\* Advance, for one bus cycle of the CPU.
Advance ==
  /\ owed <= 0
  /\ \E n \in Budgets : owed' = owed + n
  /\ UNCHANGED <<registers, dma, conversion, dmaFlags, run>>

\* An instruction of the SA-1 with at most one register written, or the rest of the
\* budget while the processor is held.
Processor ==
  /\ owed > 0 /\ ~dma.active
  /\ \E n \in InstructionClocks \cup {owed} : owed' = owed - n
  /\ \/ EitherWrites
     \/ \E c \in Settings : WriteDmaControl(c)
     \/ \E n \in TransferLengths : WriteLength(n)
     \/ WriteRow
     \/ Acknowledge("dma")
     \/ UNCHANGED <<registers, dma, conversion, dmaFlags, run>>

TransferNext ==
  \/ Advance \/ StepDma \/ Processor \/ CpuDmaWrites
  \/ \E t \in Tiles : ReadConverted(t)

TransferSpec == TransferInit /\ [][TransferNext]_transferVars

-----------------------------------------------------------------------------
\* StepDma under any cutting of its time into slices: a transfer that runs has
\* moved one byte for each full cost of the clocks it was given, from and to the
\* addresses that follow its first ones; it is finished when and only when all its
\* bytes are moved, in exactly their clocks.
DmaExact ==
  /\ dma.active <=> run.state = "moving"
  /\ dma.active =>
       /\ dma.left \in 1 .. Cost(dma.from, dma.toBwram)
       /\ run.moved + dma.remaining = run.length /\ dma.remaining > 0
       /\ run.clocks + dma.left = (run.moved + 1) * Cost(dma.from, dma.toBwram)
       /\ dma.source % Size[dma.from] = (run.source + run.moved) % Size[dma.from]
       /\ LET size == Size[Target(dma.toBwram)]
          IN  dma.destination % size = (run.destination + run.moved) % size
  /\ run.state = "done" =>
       /\ run.moved = run.length
       /\ run.length # 0 => run.clocks = run.length * Cost(dma.from, dma.toBwram)
=============================================================================
