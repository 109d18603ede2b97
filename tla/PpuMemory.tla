----------------------------- MODULE PpuMemory -----------------------------
(***************************************************************************)
(* The PPU's memories behind their ports (core/src/ppu/Ppu.cpp: $2100,     *)
(* $2102-$2104, $2115-$2119, $2121, $2122, $2137-$213F) and the VRAM each  *)
(* line is drawn from: a copy made at its render cycle and shared by the   *)
(* lines that follow until VRAM changes.  Writes are refused or redirected *)
(* while the picture is drawn.  VRAM is Words words of two bytes, OAM one  *)
(* word for each object and a high table of two bytes, and a colour is two *)
(* bytes.  The rotations of $2115 are permutations of the addresses, and   *)
(* one stands for them.                                                    *)
(***************************************************************************)
EXTENDS Integers, Sequences, FiniteSets

CONSTANTS
  Words,      \* words of VRAM; addresses are twice as many (32768 and 65536)
  Objects,    \* objects of OAM (128)
  Colors,     \* colours of CGRAM (256)
  VDisp,      \* the first line of VBlank
  Programs,   \* the sets of accesses a program makes
  MaxAccesses \* bound: port accesses of one frame

\* What the constants are to satisfy.
ASSUME PpuMemoryAssumption ==
  /\ Words \in Nat \ {0} /\ Objects \in Nat \ {0} /\ Colors \in Nat \ {0}
  /\ VDisp \in Nat \ {0, 1} /\ MaxAccesses \in Nat

VARIABLES
  program,   \* the accesses of this behaviour
  blank,     \* io_.displayDisable
  line, phase, fired,  \* currentLine_; H before 88, the dots, H from 1096; renderCycleFired_
  vram, vport,         \* $2115-$2119, $2139, $213A
  dirty, mutable,      \* vramDirty_, vramExternallyMutable_
  snapshots, count,    \* vramSnapshots_, vramSnapshotCount_
  source,              \* lines_[y].vram, a place in snapshots; 0 is none
  oam, oport, cgram, cport, counters,
  accesses,            \* history: port accesses since the frame began
  current              \* history: VRAM at each line's render cycle, <<>> when it was not drawn

video == <<blank, line, phase, fired>>
frames == <<snapshots, count, source, current>>
vars == <<program, video, vram, vport, dirty, mutable, frames, oam, oport, cgram, cport, counters, accesses>>

Byte == 0 .. 1
Address == 0 .. 2 * Words - 1
HighTable == 2 * Objects          \* $200
OamSize == 2 * HighTable          \* the high table's mirrors follow it
Redirected == HighTable + 1       \* $218

Drawing == ~blank /\ line > 0 /\ line < VDisp

Accesses == {"videoControl", "videoAddress", "videoWrite", "videoRead", "writeThrough", "display",
             "objectAddress", "objectWrite", "objectRead", "colorAddress", "colorWrite", "colorRead",
             "latch", "pio", "counterRead", "statusRead"}

\* And the programs.
ASSUME PpuMemoryPrograms == \A p \in Programs : p \subseteq Accesses

Access(kind) ==
  /\ kind \in program /\ accesses < MaxAccesses
  /\ accesses' = accesses + 1
  /\ UNCHANGED <<program, line, phase, fired, mutable, frames>>

\* TranslatedVramAddress.
Translated(p) == LET a == p.address % Words IN IF p.rotated THEN Words - 1 - a ELSE a

ReadVram(p) == IF Drawing THEN [low |-> 0, high |-> 0] ELSE vram[Translated(p)]

Stepped(p) == [p EXCEPT !.address = (@ + p.size) % (2 * Words)]

\* $2115.
VideoPortControl ==
  /\ Access("videoControl")
  /\ \E size \in {1, 2}, rotated \in BOOLEAN, onHigh \in BOOLEAN :
       vport' = [vport EXCEPT !.size = size, !.rotated = rotated, !.onHigh = onHigh]
  /\ UNCHANGED <<blank, vram, dirty, oam, oport, cgram, cport, counters>>

\* $2116, $2117: either half of the address, and the word read ahead.
VideoPortAddress ==
  /\ Access("videoAddress")
  /\ \E half \in {"low", "high"}, data \in Byte :
       LET a == vport.address
           p == [vport EXCEPT !.address = IF half = "low" THEN (a - (a % 2)) + data
                                          ELSE ((2 * data) + (a % 2)) % (2 * Words)]
       IN  vport' = [p EXCEPT !.latch = ReadVram(p)]
  /\ UNCHANGED <<blank, vram, dirty, oam, oport, cgram, cport, counters>>

\* Mutant: a write of the high byte leaves the shared copy in use.
DirtyByLow(before, after, half) == dirty \/ (half = "low" /\ before # after)

\* WriteVram: whether the copy is out of date.
Dirty(before, after, half) == dirty \/ before # after

\* $2118, $2119.
VideoPortWrite ==
  /\ Access("videoWrite")
  /\ \E half \in {"low", "high"}, data \in Byte :
       LET a == Translated(vport)
           word == [vram[a] EXCEPT ![half] = data]
       IN  /\ vport' = IF vport.onHigh = (half = "high") THEN Stepped(vport) ELSE vport
           /\ IF Drawing THEN UNCHANGED <<vram, dirty>>
              ELSE vram' = [vram EXCEPT ![a] = word] /\ dirty' = Dirty(vram[a], word, half)
  /\ UNCHANGED <<blank, oam, oport, cgram, cport, counters>>

\* $2139, $213A: the word read ahead; the byte the mode names reads the next.
VideoPortRead ==
  /\ Access("videoRead")
  /\ vport' = Stepped([vport EXCEPT !.latch = ReadVram(vport)])
  /\ UNCHANGED <<blank, vram, dirty, oam, oport, cgram, cport, counters>>

\* VramData: a caller keeps a pointer and may write through it at any time.
Escape ==
  /\ "writeThrough" \in program /\ ~mutable
  /\ mutable' = TRUE
  /\ UNCHANGED <<program, video, vram, vport, dirty, frames, oam, oport, cgram, cport, counters, accesses>>

WriteThrough ==
  /\ mutable /\ accesses < MaxAccesses
  /\ \E a \in 0 .. Words - 1, half \in {"low", "high"}, data \in Byte :
       vram' = [vram EXCEPT ![a][half] = data]
  /\ accesses' = accesses + 1
  /\ UNCHANGED <<program, video, vport, dirty, mutable, frames, oam, oport, cgram, cport, counters>>

\* OamSetFirstObject.
FirstObject(p) == IF p.priority THEN (p.address \div 2) % Objects ELSE 0

WithFirst(p) == [p EXCEPT !.first = FirstObject(p)]

\* OamAddressReset.
AddressReset(p) == WithFirst([p EXCEPT !.address = p.base])

\* $2100; at the first line of VBlank, while blanked, it resets the OAM address.
DisplayControl ==
  /\ Access("display")
  /\ \E disable \in BOOLEAN : blank' = disable
  /\ oport' = IF blank /\ line = VDisp THEN AddressReset(oport) ELSE oport
  /\ UNCHANGED <<vram, vport, dirty, oam, cgram, cport, counters>>

\* $2102, $2103: either half of the base address, the second with the priority bit.
ObjectAddress ==
  /\ Access("objectAddress")
  /\ \/ \E low \in 0 .. Objects - 1 :
          oport' = AddressReset([oport EXCEPT !.base = (HighTable * (@ \div HighTable)) + (2 * low)])
     \/ \E high \in {0, HighTable}, priority \in BOOLEAN :
          oport' = AddressReset([oport EXCEPT !.base = high + (@ % HighTable), !.priority = priority])
  /\ UNCHANGED <<blank, vram, vport, dirty, oam, cgram, cport, counters>>

\* The high table repeats every 32 bytes, the picture being drawn redirects the access.
Place(address) == IF address >= HighTable THEN HighTable + (address % 2) ELSE address

WriteOam(memory, address, data) ==
  [memory EXCEPT ![Place(IF Drawing THEN Redirected ELSE address)] = data]

\* $2104: the low table is written a word at a time.
ObjectWrite ==
  /\ Access("objectWrite")
  /\ \E data \in Byte :
       LET a == oport.address
           odd == a % 2 = 1
           kept == IF odd THEN oport.latch ELSE data
       IN  /\ oport' = WithFirst([oport EXCEPT !.address = (a + 1) % OamSize, !.latch = kept])
           /\ oam' = IF a >= HighTable THEN WriteOam(oam, a, data)
                     ELSE IF odd THEN WriteOam(WriteOam(oam, a - 1, kept), a, data)
                     ELSE oam
  /\ UNCHANGED <<blank, vram, vport, dirty, cgram, cport, counters>>

\* $2138; the byte it reads goes to the CPU and to the data latch alone.
ObjectRead ==
  /\ Access("objectRead")
  /\ oport' = WithFirst([oport EXCEPT !.address = (@ + 1) % OamSize])
  /\ UNCHANGED <<blank, vram, vport, dirty, oam, cgram, cport, counters>>

\* $2121.
ColorAddress ==
  /\ Access("colorAddress")
  /\ \E a \in 0 .. Colors - 1 : cport' = [cport EXCEPT !.address = a, !.reading = FALSE, !.writing = FALSE]
  /\ UNCHANGED <<blank, vram, vport, dirty, oam, oport, cgram, counters>>

\* $2122: two writes make a colour, at latch_.cgramAddress, 0, on the dots of a drawn line.
ColorWrite ==
  /\ Access("colorWrite")
  /\ \E data \in Byte :
       IF ~cport.writing
       THEN cport' = [cport EXCEPT !.writing = TRUE, !.latch = data] /\ UNCHANGED cgram
       ELSE /\ cport' = [cport EXCEPT !.writing = FALSE, !.address = (@ + 1) % Colors]
            /\ cgram' = [cgram EXCEPT ![IF Drawing /\ phase = "dots" THEN 0 ELSE cport.address] =
                           <<cport.latch, data>>]
  /\ UNCHANGED <<blank, vram, vport, dirty, oam, oport, counters>>

\* $213B.
ColorRead ==
  /\ Access("colorRead")
  /\ cport' = [cport EXCEPT !.reading = ~@, !.address = IF cport.reading THEN (@ + 1) % Colors ELSE @]
  /\ UNCHANGED <<blank, vram, vport, dirty, oam, oport, cgram, counters>>

\* LatchCounters, by $2137 or the I/O port while its bit 7 is high; $4201.
LatchCounters ==
  /\ Access("latch")
  /\ counters' = [counters EXCEPT !.latched = TRUE, !.value = <<line, phase>>]
  /\ counters.pio
  /\ UNCHANGED <<blank, vram, vport, dirty, oam, oport, cgram, cport>>

SetCpuPio ==
  /\ Access("pio")
  /\ \E high \in BOOLEAN : counters' = [counters EXCEPT !.pio = high]
  /\ UNCHANGED <<blank, vram, vport, dirty, oam, oport, cgram, cport>>

\* $213C, $213D: the low byte, then the high one.
CounterRead ==
  /\ Access("counterRead")
  /\ \E c \in {"h", "v"} : counters' = [counters EXCEPT ![c] = ~@]
  /\ UNCHANGED <<blank, vram, vport, dirty, oam, oport, cgram, cport>>

\* $213F.
StatusRead ==
  /\ Access("statusRead")
  /\ counters' = [counters EXCEPT !.h = FALSE, !.v = FALSE, !.latched = @ /\ ~counters.pio]
  /\ UNCHANGED <<blank, vram, vport, dirty, oam, oport, cgram, cport>>

\* SnapshotVram: the copy the line before uses, if VRAM has not changed since.
Reusable == count # 0 /\ ~dirty /\ (mutable => snapshots[count] = vram)

\* ScanlineBegin, part way through the dots of a visible line.
ScanlineBegin ==
  /\ line \in 1 .. VDisp - 1 /\ phase = "dots" /\ ~fired
  /\ fired' = TRUE
  /\ IF Reusable THEN UNCHANGED <<snapshots, count, dirty>>
     ELSE /\ snapshots' = IF count < Len(snapshots) THEN [snapshots EXCEPT ![count + 1] = vram]
                          ELSE Append(snapshots, vram)
          /\ count' = count + 1 /\ dirty' = FALSE
  /\ source' = [source EXCEPT ![line] = count']
  /\ current' = [current EXCEPT ![line] = vram]
  /\ UNCHANGED <<program, blank, line, phase, vram, vport, mutable, oam, oport, cgram, cport, counters, accesses>>

NextPhase ==
  /\ \/ phase = "start" /\ phase' = "dots"
     \/ phase = "dots" /\ phase' = "end" /\ (line \in 1 .. VDisp - 1 => fired)
  /\ UNCHANGED <<program, blank, line, fired, vram, vport, dirty, mutable, frames, oam, oport, cgram,
                 cport, counters, accesses>>

\* The next line; VBlankBegin draws the lines and forgets them, FrameBegin forgets the copies.
NextLine ==
  /\ phase = "end" /\ phase' = "start"
  /\ line' = (line + 1) % (VDisp + 1) /\ fired' = FALSE
  /\ oport' = IF line' = VDisp /\ ~blank THEN AddressReset(oport) ELSE oport
  /\ count' = IF line' \in {0, VDisp} THEN 0 ELSE count
  /\ current' = IF line' = VDisp THEN [y \in DOMAIN current |-> <<>>] ELSE current
  /\ accesses' = IF line' = 0 THEN 0 ELSE accesses
  /\ UNCHANGED <<program, blank, vram, vport, dirty, mutable, snapshots, source, oam, cgram, cport, counters>>

\* Reset.
Init ==
  /\ program \in Programs
  /\ blank \in BOOLEAN /\ line = 0 /\ phase = "start" /\ fired = FALSE
  /\ vram = [a \in 0 .. Words - 1 |-> [low |-> 0, high |-> 0]]
  /\ vport = [address |-> 0, size |-> 1, rotated |-> FALSE, onHigh |-> FALSE, latch |-> vram[0]]
  /\ dirty = TRUE /\ mutable = FALSE
  /\ snapshots = <<>> /\ count = 0
  /\ source = [y \in 1 .. VDisp - 1 |-> 0]
  /\ oam = [a \in 0 .. HighTable + 1 |-> 0]
  /\ oport = [address |-> 0, base |-> 0, priority |-> FALSE, latch |-> 0, first |-> 0]
  /\ cgram = [c \in 0 .. Colors - 1 |-> <<0, 0>>]
  /\ cport = [address |-> 0, reading |-> FALSE, writing |-> FALSE, latch |-> 0]
  /\ counters = [h |-> FALSE, v |-> FALSE, latched |-> FALSE, pio |-> TRUE, value |-> <<0, "start">>]
  /\ accesses = 0
  /\ current = [y \in 1 .. VDisp - 1 |-> <<>>]

Next ==
  \/ VideoPortControl \/ VideoPortAddress \/ VideoPortWrite \/ VideoPortRead \/ Escape \/ WriteThrough
  \/ DisplayControl \/ ObjectAddress \/ ObjectWrite \/ ObjectRead
  \/ ColorAddress \/ ColorWrite \/ ColorRead
  \/ LatchCounters \/ SetCpuPio \/ CounterRead \/ StatusRead
  \/ ScanlineBegin \/ NextPhase \/ NextLine

Spec == Init /\ [][Next]_vars

\* Until it is drawn, the copy a line uses holds VRAM as it was at the line's render cycle,
\* whatever was written to VRAM between the lines, through the port or a kept pointer.
LineMemoryExact ==
  \A y \in DOMAIN current : current[y] # <<>> => snapshots[source[y]] = current[y]
=============================================================================
