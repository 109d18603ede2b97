----------------------------- MODULE DmaChannel -----------------------------
(***************************************************************************)
(* One channel of the DMA controller (core/src/dma/Dma.cpp, struct         *)
(* DmaChannel of Dma.hpp): its registers and the pure part of every        *)
(* operation on it.  A byte has 2 * RepeatBit values (RepeatBit is 128 in  *)
(* the code: bit 7 of NTRLx) and a word is a pair of bytes, so that a run  *)
(* may use narrow registers and a theorem speaks of every width.           *)
(***************************************************************************)
EXTENDS Naturals

CONSTANT RepeatBit

ASSUME RepeatBitAssumption == RepeatBit \in Nat /\ RepeatBit > 1

ByteSize == 2 * RepeatBit
WordSize == ByteSize * ByteSize
Byte == 0 .. ByteSize - 1
Word == 0 .. WordSize - 1

\* Bytes moved on one line by each transfer mode: kTransferLengths.
TransferLengths == {1, 2, 4}

Steps == {"increment", "decrement", "fixed"}

(***************************************************************************)
(* dma, hdma   enabled by $420B, $420C                                     *)
(* done, xfer  hdmaCompleted, hdmaDoTransfer                               *)
(* ind, len, step   what $43x0 selects: indirect table, bytes per line,    *)
(*             source step                                                 *)
(* src, size, tab, line   A1Tx, DASx (also the indirect address), A2Ax,    *)
(*             NTRLx                                                       *)
(***************************************************************************)
Channel == [dma : BOOLEAN, hdma : BOOLEAN, done : BOOLEAN, xfer : BOOLEAN,
            ind : BOOLEAN, len : TransferLengths, step : Steps,
            src : Word, size : Word, tab : Word, line : Byte]

WordOf(hi, lo) == hi * ByteSize + lo
High(w) == w \div ByteSize
Low(w) == w % ByteSize

Inc(w) == IF w = WordSize - 1 THEN 0 ELSE w + 1
Dec(w) == IF w = 0 THEN WordSize - 1 ELSE w - 1

\* Transfer mode 7, fixed, indirect, every register $FF.
ResetChannel ==
  [dma |-> FALSE, hdma |-> FALSE, done |-> FALSE, xfer |-> FALSE,
   ind |-> TRUE, len |-> 4, step |-> "fixed",
   src |-> WordSize - 1, size |-> WordSize - 1, tab |-> WordSize - 1,
   line |-> ByteSize - 1]

\* A word register is written one byte at a time.
SetByte(w, half, b) ==
  IF half = "low" THEN WordOf(High(w), b) ELSE WordOf(b, Low(w))

-----------------------------------------------------------------------------
(***************************************************************************)
(* General DMA.                                                            *)
(***************************************************************************)
StepSource(s, a) ==
  CASE s = "fixed"     -> a
    [] s = "increment" -> Inc(a)
    [] s = "decrement" -> Dec(a)

\* Mutant: a fixed source does not count.
AfterByteFixed(c) ==
  [c EXCEPT !.src = StepSource(c.step, @), !.size = IF c.step = "fixed" THEN @ ELSE Dec(@)]

\* One byte: the source moves inside its bank and the size counts down, so a
\* size of 0 asks for WordSize bytes.
AfterByte(c) == [c EXCEPT !.src = StepSource(c.step, @), !.size = Dec(@)]

-----------------------------------------------------------------------------
(***************************************************************************)
(* HDMA.  The low bits of the line counter are 0 exactly at 0 and at the   *)
(* repeat bit alone.                                                       *)
(***************************************************************************)
Active(c) == c.hdma /\ ~c.done

\* Mutant: the whole counter is tested.
ExpiredAtZero(b) == b = 0

Expired(b) == b \in {0, RepeatBit}

DecLine(b) == IF b = 0 THEN ByteSize - 1 ELSE b - 1

\* The table entry b is loaded; hdmaReload, before any indirect address.
LoadEntry(c, b) ==
  [c EXCEPT !.line = b, !.tab = Inc(@), !.done = (b = 0), !.xfer = (b # 0)]

\* HdmaReload: the byte at the table pointer is always read, and used only
\* when the counter has expired.  An indirect entry is followed by an address;
\* the terminator of the last active channel (last) reads one byte of it, into
\* the high half.
Reload(c, last, b, lo, hi) ==
  LET e == LoadEntry(c, b)
      short == e.done /\ last
  IN  IF ~Expired(c.line) THEN c
      ELSE IF ~c.ind THEN e
      ELSE IF short THEN [e EXCEPT !.tab = Inc(@), !.size = WordOf(lo, 0)]
      ELSE [e EXCEPT !.tab = Inc(Inc(@)), !.size = WordOf(hi, lo)]

\* The loop body of HdmaSetup.  hdmaDoTransfer is set on disabled channels too.
Setup(c, last, b, lo, hi) ==
  IF c.hdma
  THEN Reload([c EXCEPT !.xfer = TRUE, !.dma = FALSE, !.tab = c.src, !.line = 0],
              last, b, lo, hi)
  ELSE [c EXCEPT !.xfer = TRUE]

\* HdmaTransfer: an active channel stops its general DMA, and moves len bytes
\* when it is due; the table pointer or the indirect address follows them.
IncBy(w, n) == CASE n = 1 -> Inc(w)
                 [] n = 2 -> Inc(Inc(w))
                 [] n = 4 -> Inc(Inc(Inc(Inc(w))))

Transfer(c) ==
  IF ~Active(c) THEN c
  ELSE IF ~c.xfer THEN [c EXCEPT !.dma = FALSE]
  ELSE IF c.ind THEN [c EXCEPT !.dma = FALSE, !.size = IncBy(@, c.len)]
  ELSE [c EXCEPT !.dma = FALSE, !.tab = IncBy(@, c.len)]

\* HdmaAdvance: one line less; the repeat bit says whether the next one moves.
Advance(c, last, b, lo, hi) ==
  IF ~Active(c) THEN c
  ELSE LET n == DecLine(c.line)
       IN  Reload([c EXCEPT !.line = n, !.xfer = (n >= RepeatBit)], last, b, lo, hi)
=============================================================================
