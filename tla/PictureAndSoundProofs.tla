----------------------- MODULE PictureAndSoundProofs -----------------------
(***************************************************************************)
(* Proofs about the picture, the sound and the Super FX.  A line is drawn  *)
(* from VRAM as it was at the line's render cycle, for any sizes of the    *)
(* memories, any programs and any number of lines: the copies that lines   *)
(* share are current whenever one is shared.  A frame's samples are        *)
(* submitted once, in order and mixed once, for a buffer of any size.  The *)
(* GSU reads what its program wrote last, for any program and bitmap,      *)
(* whenever the CPU takes the memory away.  The echo comes back one sweep  *)
(* of its buffer later, for a buffer of any length.  A dot shows the layer *)
(* in front, whatever the layers have there, and two colours are blended   *)
(* channel by channel, for every pair of the 32768.  Objects and their     *)
(* tiles are counted as they are drawn, for any limits, and the first      *)
(* object is in front.  A line's events, undone from its copy of the       *)
(* registers and done again, give every dot what the beam passed it with,  *)
(* for any number of writes.                                               *)
(***************************************************************************)
EXTENDS PpuMemory, AudioMix, DspEcho, SuperFx, PpuPixel, PpuObjects, PpuRaster, SequenceTheorems,
        FiniteSetTheorems, WellFoundedInduction, TLAPS

Memories == [0 .. Words - 1 -> [{"low", "high"} -> Byte]]

Lines == 1 .. VDisp - 1

Types ==
  /\ vram \in Memories /\ dirty \in BOOLEAN /\ mutable \in BOOLEAN
  /\ line \in 0 .. VDisp
  /\ snapshots \in Seq(Memories) /\ count \in Nat /\ count <= Len(snapshots)
  /\ source \in [Lines -> Nat] /\ current \in [Lines -> Memories \cup {<<>>}]

\* A line that was begun has one of the copies in use, and it is the right one.
CopyHeld ==
  \A y \in Lines : current[y] # <<>> => source[y] \in 1 .. count /\ snapshots[source[y]] = current[y]

\* The last copy is VRAM unless something was written since, or may have been.
CopyFresh == count # 0 /\ ~dirty /\ ~mutable => snapshots[count] = vram

\* Outside the picture no line waits to be drawn, so that the copies may be forgotten.
NoneWaits == line \in {0, VDisp} => \A y \in Lines : current[y] = <<>>

IInv == Types /\ CopyHeld /\ CopyFresh /\ NoneWaits

\* What the accesses to the other memories and to the ports leave alone.
pictures == <<vram, dirty, mutable, line, frames>>

LEMMA MemoryInit == Init => IInv
<1> SUFFICES ASSUME Init PROVE IInv
  OBVIOUS
<1>1. vram \in Memories
  <2>1. [low |-> 0, high |-> 0] \in [{"low", "high"} -> Byte]
    BY DEF Byte
  <2> QED
    BY <2>1 DEF Init, Memories
<1>2. Types
  <2>1. dirty \in BOOLEAN /\ mutable \in BOOLEAN
    BY DEF Init
  <2>2. line \in 0 .. VDisp /\ count \in Nat
    BY PpuMemoryAssumption DEF Init
  <2>3. snapshots \in Seq(Memories) /\ count <= Len(snapshots)
    BY DEF Init
  <2>4. source \in [Lines -> Nat] /\ current \in [Lines -> Memories \cup {<<>>}]
    BY DEF Init, Lines
  <2> QED
    BY <1>1, <2>1, <2>2, <2>3, <2>4 DEF Types
<1>3. CopyHeld /\ CopyFresh /\ NoneWaits
  BY DEF Init, CopyHeld, CopyFresh, NoneWaits, Lines
<1> QED
  BY <1>2, <1>3 DEF IInv

LEMMA OtherKeeps == IInv /\ UNCHANGED pictures => IInv'
  BY DEF IInv, Types, CopyHeld, CopyFresh, NoneWaits, pictures, frames

\* A byte written into a word gives a word.
LEMMA WriteType ==
  ASSUME NEW memory \in Memories, NEW a, NEW half \in {"low", "high"}, NEW data \in Byte
  PROVE  [memory EXCEPT ![a] = [memory[a] EXCEPT ![half] = data]] \in Memories
<1>1. CASE a \in 0 .. Words - 1
  <2>1. [memory[a] EXCEPT ![half] = data] \in [{"low", "high"} -> Byte]
    BY <1>1 DEF Memories
  <2> QED
    BY <2>1 DEF Memories
<1>2. CASE a \notin 0 .. Words - 1
  <2>1. [memory EXCEPT ![a] = [memory[a] EXCEPT ![half] = data]] = memory
    BY <1>2 DEF Memories
  <2> QED
    BY <2>1
<1> QED
  BY <1>1, <1>2

LEMMA PortWriteKeeps == IInv /\ VideoPortWrite => IInv'
<1> SUFFICES ASSUME IInv, VideoPortWrite PROVE IInv'
  OBVIOUS
<1>1. UNCHANGED <<mutable, line, snapshots, count, source, current>>
  BY DEF VideoPortWrite, Access, frames
<1>2. CASE Drawing
  BY <1>1, <1>2, OtherKeeps DEF VideoPortWrite, pictures, frames
<1>3. CASE ~Drawing
  <2>1. PICK half \in {"low", "high"}, data \in Byte :
          /\ vram' = [vram EXCEPT ![Translated(vport)] = [vram[Translated(vport)] EXCEPT ![half] = data]]
          /\ dirty' = (dirty \/ vram[Translated(vport)] # [vram[Translated(vport)] EXCEPT ![half] = data])
    BY <1>3 DEF VideoPortWrite, Dirty
  <2>2. vram' \in Memories
    BY <2>1, WriteType DEF IInv, Types
  <2>3. dirty' \in BOOLEAN /\ (~dirty' => ~dirty /\ vram' = vram)
    BY <2>1 DEF IInv, Types, Memories
  <2>4. Types'
    BY <1>1, <2>2, <2>3 DEF IInv, Types
  <2>5. CopyHeld' /\ NoneWaits'
    BY <1>1 DEF IInv, CopyHeld, NoneWaits
  <2>6. CopyFresh'
    BY <1>1, <2>3 DEF IInv, CopyFresh
  <2> QED
    BY <2>4, <2>5, <2>6 DEF IInv
<1> QED
  BY <1>2, <1>3

LEMMA ThroughKeeps == IInv /\ (Escape \/ WriteThrough) => IInv'
<1> SUFFICES ASSUME IInv, Escape \/ WriteThrough PROVE IInv'
  OBVIOUS
<1>1. CASE Escape
  BY <1>1 DEF Escape, IInv, Types, CopyHeld, CopyFresh, NoneWaits, video, frames
<1>2. CASE WriteThrough
  <2>1. PICK a \in 0 .. Words - 1, half \in {"low", "high"}, data \in Byte :
          vram' = [vram EXCEPT ![a] = [vram[a] EXCEPT ![half] = data]]
    BY <1>2 DEF WriteThrough
  <2>2. vram' \in Memories
    BY <2>1, WriteType DEF IInv, Types
  <2>3. UNCHANGED <<dirty, mutable, line, snapshots, count, source, current>> /\ mutable
    BY <1>2 DEF WriteThrough, video, frames
  <2> QED
    BY <2>2, <2>3 DEF IInv, Types, CopyHeld, CopyFresh, NoneWaits
<1> QED
  BY <1>1, <1>2

LEMMA LineKeeps ==
  ASSUME IInv, ScanlineBegin PROVE IInv'
<1> DEFINE begun == snapshots'[count'] = vram /\ count' \in Nat \ {0} /\ count' >= count
<1>1. /\ line \in Lines /\ UNCHANGED <<vram, mutable, line>>
      /\ source' = [source EXCEPT ![line] = count']
      /\ current' = [current EXCEPT ![line] = vram]
  BY DEF ScanlineBegin, Lines
<1>2. /\ begun
      /\ snapshots' \in Seq(Memories) /\ count' <= Len(snapshots') /\ dirty' \in BOOLEAN
      /\ \A i \in 1 .. count : snapshots'[i] = snapshots[i]
  <2>1. CASE Reusable
    BY <2>1 DEF ScanlineBegin, Reusable, IInv, Types, CopyFresh
  <2>2. CASE ~Reusable /\ count < Len(snapshots)
    <3>1. snapshots' = [snapshots EXCEPT ![count + 1] = vram] /\ count' = count + 1 /\ dirty' = FALSE
      BY <2>2 DEF ScanlineBegin
    <3>2. count + 1 \in 1 .. Len(snapshots)
      BY <2>2 DEF IInv, Types
    <3>3. /\ snapshots' \in Seq(Memories) /\ Len(snapshots') = Len(snapshots)
          /\ \A i \in 1 .. Len(snapshots) :
               snapshots'[i] = IF i = count + 1 THEN vram ELSE snapshots[i]
      BY <3>1, <3>2, ExceptSeq DEF IInv, Types
    <3>4. /\ vram \in Memories /\ count \in Nat /\ count + 1 \in 1 .. Len(snapshots)
          /\ Len(snapshots) \in Nat
      BY <3>2 DEF IInv, Types
    <3>5. snapshots'[count'] = vram /\ count' \in Nat \ {0} /\ count' >= count
      BY <3>1, <3>3, <3>4
    <3>6. \A i \in 1 .. count : snapshots'[i] = snapshots[i]
      BY <3>3, <3>4
    <3>7. count' <= Len(snapshots')
      BY <3>1, <3>3, <3>4
    <3>8. dirty' \in BOOLEAN
      BY <3>1
    <3> QED
      BY <3>3, <3>5, <3>6, <3>7, <3>8
  <2>3. CASE ~Reusable /\ ~(count < Len(snapshots))
    <3>1. snapshots' = Append(snapshots, vram) /\ count' = count + 1 /\ dirty' = FALSE
      BY <2>3 DEF ScanlineBegin
    <3>2. count = Len(snapshots)
      BY <2>3 DEF IInv, Types
    <3>3. snapshots \in Seq(Memories) /\ vram \in Memories /\ count \in Nat
      BY DEF IInv, Types
    <3>4. /\ snapshots' \in Seq(Memories) /\ Len(snapshots') = count + 1
          /\ \A i \in 1 .. count : snapshots'[i] = snapshots[i]
          /\ snapshots'[count + 1] = vram
      BY <3>1, <3>2, <3>3, AppendProperties
    <3>5. begun /\ count' <= Len(snapshots')
      BY <3>1, <3>3, <3>4
    <3>6. dirty' \in BOOLEAN
      BY <3>1
    <3> QED
      BY <3>4, <3>5, <3>6
  <2> QED
    BY <2>1, <2>2, <2>3
<1>3. Types'
  BY <1>1, <1>2 DEF IInv, Types
<1>4. CopyHeld'
  <2> SUFFICES ASSUME NEW y \in Lines, current'[y] # <<>>
               PROVE  source'[y] \in 1 .. count' /\ snapshots'[source'[y]] = current'[y]
    BY DEF CopyHeld
  <2>1. CASE y = line
    BY <1>1, <1>2, <2>1 DEF IInv, Types
  <2>2. CASE y # line
    <3>1. current'[y] = current[y] /\ source'[y] = source[y]
      BY <1>1, <2>2 DEF IInv, Types
    <3> QED
      BY <1>2, <3>1 DEF IInv, CopyHeld, Types
  <2> QED
    BY <2>1, <2>2
<1>5. CopyFresh'
  BY <1>1, <1>2 DEF CopyFresh
<1>6. NoneWaits'
  BY <1>1, PpuMemoryAssumption DEF NoneWaits, Lines
<1> QED
  BY <1>3, <1>4, <1>5, <1>6 DEF IInv

LEMMA NextLineKeeps ==
  ASSUME IInv, NextLine PROVE IInv'
<1>1. /\ UNCHANGED <<vram, dirty, mutable, snapshots, source>>
      /\ line' = (line + 1) % (VDisp + 1)
      /\ count' = IF line' \in {0, VDisp} THEN 0 ELSE count
      /\ current' = IF line' = VDisp THEN [y \in DOMAIN current |-> <<>>] ELSE current
  BY DEF NextLine
<1>2. line' \in 0 .. VDisp /\ (line' = 0 => line = VDisp)
  BY <1>1, PpuMemoryAssumption DEF IInv, Types
<1>3. Types'
  BY <1>1, <1>2 DEF IInv, Types
<1>4. NoneWaits'
  BY <1>1, <1>2 DEF IInv, Types, NoneWaits
<1>5. CopyHeld'
  <2>1. CASE line' \in {0, VDisp}
    BY <1>4, <2>1 DEF CopyHeld, NoneWaits
  <2>2. CASE line' \notin {0, VDisp}
    BY <1>1, <2>2 DEF IInv, CopyHeld
  <2> QED
    BY <2>1, <2>2
<1>6. CopyFresh'
  BY <1>1 DEF IInv, CopyFresh
<1> QED
  BY <1>3, <1>4, <1>5, <1>6 DEF IInv

LEMMA MemoryStep ==
  ASSUME IInv, [Next]_vars PROVE IInv'
<1>1. CASE VideoPortControl \/ VideoPortAddress \/ VideoPortRead
  BY <1>1, OtherKeeps DEF VideoPortControl, VideoPortAddress, VideoPortRead, Access, pictures
<1>2. CASE VideoPortWrite
  BY <1>2, PortWriteKeeps
<1>3. CASE Escape \/ WriteThrough
  BY <1>3, ThroughKeeps
<1>4. CASE DisplayControl \/ ObjectAddress \/ ObjectWrite \/ ObjectRead
  BY <1>4, OtherKeeps DEF DisplayControl, ObjectAddress, ObjectWrite, ObjectRead, Access, pictures
<1>5. CASE ColorAddress \/ ColorWrite \/ ColorRead
  BY <1>5, OtherKeeps DEF ColorAddress, ColorWrite, ColorRead, Access, pictures
<1>6. CASE LatchCounters \/ SetCpuPio \/ CounterRead \/ StatusRead
  BY <1>6, OtherKeeps DEF LatchCounters, SetCpuPio, CounterRead, StatusRead, Access, pictures
<1>7. CASE ScanlineBegin
  BY <1>7, LineKeeps
<1>8. CASE NextPhase
  BY <1>8, OtherKeeps DEF NextPhase, pictures
<1>9. CASE NextLine
  BY <1>9, NextLineKeeps
<1>10. CASE UNCHANGED vars
  BY <1>10, OtherKeeps DEF vars, video, frames, pictures
<1> QED
  BY <1>1, <1>2, <1>3, <1>4, <1>5, <1>6, <1>7, <1>8, <1>9, <1>10 DEF Next

\* The copy a line waits to be drawn with is VRAM at its render cycle, whatever the
\* program wrote between the lines and through a kept pointer (Ppu::SnapshotVram).
THEOREM LinesDrawnFromTheirMemory ==
  Spec => []LineMemoryExact
<1>1. IInv => LineMemoryExact
  BY DEF IInv, Types, CopyHeld, LineMemoryExact
<1>2. Init => IInv
  BY MemoryInit
<1>3. IInv /\ [Next]_vars => IInv'
  BY MemoryStep
<1> QED
  BY <1>1, <1>2, <1>3, PTL DEF Spec

-----------------------------------------------------------------------------
(***************************************************************************)
(* The samples of a frame.                                                 *)
(***************************************************************************)
Samples == [sample : Nat, mixes : Nat]

Mixed(n) == [sample |-> n, mixes |-> 1]

\* The samples that were made are those of the overflow and then those of the buffer,
\* which has room for one more.
MixInv ==
  /\ attached \in BOOLEAN /\ stepping \in BOOLEAN /\ made \in Nat
  /\ buffer \in Seq(Samples) /\ overflow \in Seq(Samples) /\ Len(buffer) < BufSamples
  /\ \A i \in 1 .. Len(buffer) : buffer[i].mixes = 1
  /\ stepping /\ attached =>
       /\ made = Len(overflow) + Len(buffer)
       /\ \A i \in 1 .. Len(overflow) : overflow[i] = Mixed(i)
       /\ \A i \in 1 .. Len(buffer) : buffer[i] = Mixed(Len(overflow) + i)
  /\ submitted.got = [i \in 1 .. submitted.made |-> Mixed(i)]

LEMMA Joined ==
  ASSUME NEW s \in Seq(Samples), NEW t \in Seq(Samples)
  PROVE  /\ s \o t \in Seq(Samples) /\ Len(s \o t) = Len(s) + Len(t)
         /\ s \o t = [i \in 1 .. Len(s) + Len(t) |-> (s \o t)[i]]
         /\ \A i \in 1 .. Len(s) : (s \o t)[i] = s[i]
         /\ \A i \in 1 .. Len(s) + Len(t) : i > Len(s) => (s \o t)[i] = t[i - Len(s)]
<1>1. /\ s \o t \in Seq(Samples) /\ Len(s \o t) = Len(s) + Len(t)
      /\ \A i \in 1 .. Len(s) + Len(t) :
           (s \o t)[i] = IF i <= Len(s) THEN s[i] ELSE t[i - Len(s)]
  BY ConcatProperties
<1>2. Len(s) \in Nat /\ Len(t) \in Nat
  OBVIOUS
<1>3. \A i \in 1 .. Len(s) : (s \o t)[i] = s[i]
  BY <1>1, <1>2
<1>4. \A i \in 1 .. Len(s) + Len(t) : i > Len(s) => (s \o t)[i] = t[i - Len(s)]
  BY <1>1, <1>2
<1>5. s \o t = [i \in 1 .. Len(s) + Len(t) |-> (s \o t)[i]]
  <2>1. PICK u \in Seq(Samples) : u = s \o t /\ Len(u) = Len(s) + Len(t)
    BY <1>1
  <2>2. u \in [1 .. Len(u) -> Samples]
    BY <2>1, LenProperties
  <2>3. u = [i \in 1 .. Len(u) |-> u[i]]
    BY <2>2, Zenon
  <2> QED
    BY <2>1, <2>3
<1> QED
  BY <1>1, <1>3, <1>4, <1>5

\* A bus phase appends the sample it makes, if any, and mixes that one only.
LEMMA OneMixed ==
  ASSUME MixInv, NEW n \in 0 .. PhaseSamples
  PROVE  LET mixed == Mix(Written(n), Len(buffer))
         IN  /\ mixed \in Seq(Samples) /\ Len(mixed) = Len(buffer) + n
             /\ \A i \in 1 .. Len(buffer) : mixed[i] = buffer[i]
             /\ \A i \in 1 .. Len(mixed) : i > Len(buffer) => mixed[i] = Mixed(made + i - Len(buffer))
<1> DEFINE fresh == Numbers(made, n)
           filled == buffer \o fresh
           mixed == Mix(Written(n), Len(buffer))
<1>1. n \in Nat /\ Len(buffer) \in Nat /\ made \in Nat /\ buffer \in Seq(Samples)
  BY AudioMixAssumption DEF MixInv
<1>2. Written(n) = filled
  <2>1. n <= BufSamples - Len(buffer)
    BY AudioMixAssumption DEF MixInv
  <2>2. (IF n < BufSamples - Len(buffer) THEN n ELSE BufSamples - Len(buffer)) = n
    BY <1>1, <2>1, AudioMixAssumption
  <2> QED
    BY <2>2, Zenon DEF Written
<1>3. fresh \in Seq(Samples) /\ Len(fresh) = n
      /\ \A i \in 1 .. n : fresh[i] = [sample |-> made + i, mixes |-> 0]
  BY <1>1 DEF Numbers, Samples
<1> HIDE DEF fresh
<1>4. /\ filled \in Seq(Samples) /\ Len(filled) = Len(buffer) + n
      /\ \A i \in 1 .. Len(buffer) : filled[i] = buffer[i]
      /\ \A i \in 1 .. Len(filled) : i > Len(buffer) => filled[i] = fresh[i - Len(buffer)]
  BY <1>1, <1>3, Joined
<1> HIDE DEF filled
<1>5. mixed = [i \in 1 .. Len(buffer) + n |->
                 IF i > Len(buffer) THEN [filled[i] EXCEPT !.mixes = filled[i].mixes + 1]
                 ELSE filled[i]]
  BY <1>2, <1>4 DEF Mix
<1>6. ASSUME NEW i \in 1 .. Len(buffer) + n, i > Len(buffer)
      PROVE  mixed[i] = Mixed(made + i - Len(buffer)) /\ mixed[i] \in Samples
  <2>1. i - Len(buffer) \in 1 .. n
    BY <1>1, <1>6
  <2>2. filled[i] = [sample |-> made + (i - Len(buffer)), mixes |-> 0]
    BY <1>3, <1>4, <1>6, <2>1
  <2>3. mixed[i] = [filled[i] EXCEPT !.mixes = filled[i].mixes + 1]
    BY <1>5, <1>6
  <2>4. made + (i - Len(buffer)) = made + i - Len(buffer) /\ made + i - Len(buffer) \in Nat
    BY <1>1, <1>6, <2>1
  <2> QED
    BY <2>2, <2>3, <2>4 DEF Mixed, Samples
<1>7. ASSUME NEW i \in 1 .. Len(buffer) + n, ~(i > Len(buffer))
      PROVE  mixed[i] = buffer[i] /\ mixed[i] \in Samples
  BY <1>1, <1>4, <1>5, <1>7
<1>8. mixed \in Seq(Samples) /\ Len(mixed) = Len(buffer) + n
  <2>1. \A i \in 1 .. Len(buffer) + n : mixed[i] \in Samples
    BY <1>6, <1>7
  <2>2. \E m \in Nat : mixed \in [1 .. m -> Samples] /\ m = Len(buffer) + n
    <3>1. Len(buffer) + n \in Nat
      BY <1>1
    <3>2. mixed \in [1 .. (Len(buffer) + n) -> Samples]
      BY <1>5, <2>1
    <3> QED
      BY <3>1, <3>2
  <2> QED
    BY <2>2
<1>9. \A i \in 1 .. Len(buffer) : mixed[i] = buffer[i]
  BY <1>1, <1>7
<1> QED
  BY <1>6, <1>8, <1>9

LEMMA PhaseMixed ==
  ASSUME MixInv, NEW n \in 0 .. PhaseSamples, AdvanceClocks(n) PROVE MixInv'
<1> DEFINE mixed == Mix(Written(n), Len(buffer))
<1>1. /\ mixed \in Seq(Samples) /\ Len(mixed) = Len(buffer) + n
      /\ \A i \in 1 .. Len(buffer) : mixed[i] = buffer[i]
      /\ \A i \in 1 .. Len(mixed) : i > Len(buffer) => mixed[i] = Mixed(made + i - Len(buffer))
  BY OneMixed
<1>2. IF Len(mixed) = BufSamples
      THEN /\ buffer' = <<>>
           /\ overflow' = IF attached THEN overflow \o mixed ELSE overflow
      ELSE buffer' = mixed /\ UNCHANGED overflow
  BY DEF AdvanceClocks
<1> HIDE DEF mixed
<1>3. n \in 0 .. 1 /\ made' = made + n /\ stepping /\ stepping' = stepping
      /\ attached' = attached /\ submitted' = submitted /\ BufSamples \in Nat \ {0}
  BY AudioMixAssumption DEF AdvanceClocks
<1>4. Len(mixed) <= BufSamples /\ Len(buffer) \in Nat
  BY <1>1, <1>3 DEF MixInv
<1>5. \A i \in 1 .. Len(mixed) : mixed[i].mixes = 1
  BY <1>1, <1>4, SMTT(30) DEF MixInv, Mixed
<1>6. attached => \A i \in 1 .. Len(mixed) : mixed[i] = Mixed(Len(overflow) + i)
  <2>1. ASSUME attached, NEW i \in 1 .. Len(mixed) PROVE mixed[i] = Mixed(Len(overflow) + i)
    <3>1. made = Len(overflow) + Len(buffer) /\ Len(overflow) \in Nat
      BY <1>3, <2>1 DEF MixInv
    <3>2. CASE i > Len(buffer)
      <4>1. made + i - Len(buffer) = Len(overflow) + i
        BY <1>4, <3>1
      <4> QED
        BY <1>1, <2>1, <3>2, <4>1
    <3>3. CASE ~(i > Len(buffer))
      BY <1>1, <1>3, <1>4, <2>1, <3>3 DEF MixInv
    <3> QED
      BY <3>2, <3>3
  <2> QED
    BY <2>1
<1>7. attached => made' = Len(overflow) + Len(mixed)
  BY <1>1, <1>3, <1>4 DEF MixInv
<1>8. CASE Len(mixed) = BufSamples
  <2>1. buffer' = <<>> /\ Len(<<>>) = 0 /\ <<>> \in Seq(Samples)
    BY <1>2, <1>8
  <2>2. CASE attached
    <3>1. overflow' = overflow \o mixed /\ overflow \in Seq(Samples)
      BY <1>2, <1>8, <2>2 DEF MixInv
    <3>2. /\ overflow' \in Seq(Samples) /\ Len(overflow') = Len(overflow) + Len(mixed)
          /\ \A i \in 1 .. Len(overflow) : overflow'[i] = overflow[i]
          /\ \A i \in 1 .. Len(overflow') :
               i > Len(overflow) => overflow'[i] = mixed[i - Len(overflow)]
      <4>1. PICK whole : whole = overflow \o mixed
        OBVIOUS
      <4>2. /\ whole \in Seq(Samples) /\ Len(whole) = Len(overflow) + Len(mixed)
            /\ \A i \in 1 .. Len(overflow) : whole[i] = overflow[i]
            /\ \A i \in 1 .. Len(overflow) + Len(mixed) :
                 i > Len(overflow) => whole[i] = mixed[i - Len(overflow)]
        BY <1>1, <3>1, <4>1, Joined
      <4>3. overflow' = whole
        BY <3>1, <4>1
      <4> QED
        BY <4>2, <4>3
    <3>3. ASSUME NEW i \in 1 .. Len(overflow') PROVE overflow'[i] = Mixed(i)
      <4>1. Len(overflow) \in Nat /\ Len(mixed) \in Nat
        BY <1>1, <3>1
      <4>2. CASE i > Len(overflow)
        <5>1. i - Len(overflow) \in 1 .. Len(mixed) /\ Len(overflow) + (i - Len(overflow)) = i
          BY <3>2, <4>1, <4>2
        <5> QED
          BY <1>6, <2>2, <3>2, <4>2, <5>1
      <4>3. CASE ~(i > Len(overflow))
        <5>1. i \in 1 .. Len(overflow) /\ \A j \in 1 .. Len(overflow) : overflow[j] = Mixed(j)
          BY <1>3, <2>2, <4>1, <4>3 DEF MixInv
        <5> QED
          BY <3>2, <5>1
      <4> QED
        BY <4>2, <4>3
    <3> QED
      BY <1>3, <1>7, <2>1, <3>1, <3>2, <3>3 DEF MixInv
  <2>3. CASE ~attached
    BY <1>2, <1>3, <1>8, <2>1, <2>3 DEF MixInv
  <2> QED
    BY <2>2, <2>3
<1>9. CASE Len(mixed) # BufSamples
  <2>1. /\ buffer' = mixed /\ overflow' = overflow /\ overflow \in Seq(Samples)
        /\ Len(mixed) \in Nat /\ Len(mixed) < BufSamples
    BY <1>1, <1>2, <1>3, <1>4, <1>9 DEF MixInv
  <2>2. attached => \A i \in 1 .. Len(overflow) : overflow[i] = Mixed(i)
    BY <1>3 DEF MixInv
  <2>3. made' \in Nat
    BY <1>3 DEF MixInv
  <2> QED
    BY <1>1, <1>3, <1>5, <1>6, <1>7, <2>1, <2>2, <2>3 DEF MixInv
<1> QED
  BY <1>8, <1>9

\* What was collected is submitted.
LEMMA FrameSubmitted ==
  ASSUME MixInv, EndFrame PROVE MixInv'
<1>1. CASE ~attached
  BY <1>1 DEF EndFrame, MixInv
<1>2. CASE attached
  <2>1. /\ submitted' = [got |-> overflow \o buffer, made |-> made]
        /\ stepping' = FALSE /\ made' = 0 /\ UNCHANGED <<attached, buffer, overflow>>
        /\ overflow \in Seq(Samples) /\ buffer \in Seq(Samples)
    BY <1>2 DEF EndFrame, Submission, MixInv
  <2>2. /\ made = Len(overflow) + Len(buffer) /\ Len(overflow) \in Nat /\ Len(buffer) \in Nat
        /\ \A i \in 1 .. Len(overflow) : overflow[i] = Mixed(i)
        /\ \A i \in 1 .. Len(buffer) : buffer[i] = Mixed(Len(overflow) + i)
    BY <1>2 DEF EndFrame, MixInv
  <2> DEFINE all == overflow \o buffer
  <2>3. /\ all = [i \in 1 .. Len(overflow) + Len(buffer) |-> all[i]]
        /\ \A i \in 1 .. Len(overflow) : all[i] = overflow[i]
        /\ \A i \in 1 .. Len(overflow) + Len(buffer) :
             i > Len(overflow) => all[i] = buffer[i - Len(overflow)]
    BY <2>1, Joined
  <2> HIDE DEF all
  <2>4. ASSUME NEW i \in 1 .. made PROVE all[i] = Mixed(i)
    <3>1. CASE i > Len(overflow)
      <4>1. i - Len(overflow) \in 1 .. Len(buffer) /\ Len(overflow) + (i - Len(overflow)) = i
        BY <2>2, <3>1
      <4> QED
        BY <2>2, <2>3, <3>1, <4>1
    <3>2. CASE ~(i > Len(overflow))
      BY <2>2, <2>3, <3>2
    <3> QED
      BY <3>1, <3>2
  <2>5. all = [i \in 1 .. made |-> Mixed(i)]
    BY <2>2, <2>3, <2>4
  <2> QED
    BY <2>1, <2>5 DEF MixInv, all
<1> QED
  BY <1>1, <1>2 DEF MixInv

LEMMA MixStep == MixInv /\ [MixNext]_mixVars => MixInv'
<1> SUFFICES ASSUME MixInv, [MixNext]_mixVars PROVE MixInv'
  OBVIOUS
<1>1. CASE BeginFrame
  <2>1. <<>> \in Seq(Samples) /\ Len(<<>>) = 0
    OBVIOUS
  <2> QED
    BY <1>1, <2>1, AudioMixAssumption DEF BeginFrame, MixInv
<1>2. CASE UNCHANGED mixVars
  BY <1>2 DEF mixVars, MixInv
<1> QED
  BY <1>1, <1>2, PhaseMixed, FrameSubmitted DEF MixNext

\* The output gets every sample of a frame once, in order and mixed with the MSU-1 once,
\* and none is left unmixed between two bus phases (Emulator::AdvanceClocks, StepFrame),
\* for a buffer of any size and frames of any length.
THEOREM SamplesAlwaysComplete == MixSpec => []AudioComplete
<1>1. MixInit => MixInv
  <2>1. <<>> \in Seq(Samples) /\ Len(<<>>) = 0 /\ <<>> = [i \in 1 .. 0 |-> Mixed(i)]
    OBVIOUS
  <2> SUFFICES ASSUME MixInit PROVE MixInv
    OBVIOUS
  <2>2. Len(buffer) = 0 /\ buffer \in Seq(Samples) /\ overflow \in Seq(Samples)
    BY <2>1 DEF MixInit
  <2>3. submitted.got = [i \in 1 .. submitted.made |-> Mixed(i)]
    BY <2>1 DEF MixInit
  <2>4. attached \in BOOLEAN /\ stepping = FALSE /\ made = 0
    BY DEF MixInit
  <2>5. Len(buffer) < BufSamples /\ \A i \in 1 .. Len(buffer) : buffer[i].mixes = 1
    BY <2>2, AudioMixAssumption
  <2> QED
    BY <2>2, <2>3, <2>4, <2>5 DEF MixInv
<1>2. MixInv => AudioComplete
  BY DEF MixInv, AudioComplete, Mixed
<1> QED
  BY <1>1, <1>2, MixStep, PTL DEF MixSpec

-----------------------------------------------------------------------------
(***************************************************************************)
(* The Super FX.                                                           *)
(***************************************************************************)
GsuPorts == Port \cup {"none"}

Awaits ==
  [op : {"fetch"}, port : GsuPorts, clocks : Nat] \cup [op : {"read", "write"}, at : RamWords]
  \cup [op : {"core", "rom", "drain", "setR14", "stop", "end"}] \cup [op : {"flush"}, row : {0, 1}]
  \cup [op : {"shift"}, row : PixelRows]
  \cup [op : {"plot", "put", "readPixel"}, row : PixelRows, lane : Lanes]

\* What an instruction does in one order only: a ROM byte is fetched before R14 may change,
\* and the older row is written before the newer one takes its place or is written.
Follows(one, next) ==
  /\ next.op # "fetch"
  /\ next.op = "rom" => one.op = "fetch"
  /\ next.op = "shift" \/ next = Flush(0) => one = Flush(1)
  /\ next.op = "readPixel" => one = Flush(0)
  /\ next.op = "put" => one = Shift(next.row)

Ordered(s) == \A i \in 1 .. Len(s) - 1 : Follows(s[i], s[i + 1])

\* What has been done already when it is the turn of an await.
Prepared(step) ==
  /\ written => step.op \notin {"fetch", "rom"}
  /\ step.op = "shift" \/ step = Flush(0) => Pending(pixels[1]) = {}
  /\ step.op = "readPixel" => Pending(pixels[0]) = {} /\ Pending(pixels[1]) = {}
  /\ step.op = "put" => pixels[0].row = step.row

AwaitsInv ==
  /\ awaits \in Seq(Awaits) /\ Ordered(awaits)
  /\ awaits # <<>> => Prepared(awaits[1]) /\ awaits[Len(awaits)].op = "end"
  /\ awaits = <<>> => ~wait.on /\ ~written

RowColors == UNION {[lanes -> BOOLEAN] : lanes \in SUBSET Lanes}

GsuTypes ==
  /\ gsuProgram \in GsuPrograms /\ go \in BOOLEAN /\ granted \in SUBSET Port
  /\ wait \in [on : BOOLEAN, left : Nat, port : GsuPorts]
  /\ r14 \in RomAddresses /\ written \in BOOLEAN
  /\ romRead \in [left : Nat, address : RomAddresses, byte : RomAddresses]
  /\ store \in [left : Nat, address : RamWords] /\ ram \in [RamWords -> BOOLEAN]
  /\ pixels \in [{0, 1} -> [row : PixelRows \cup {NoRow}, colors : RowColors]]
  /\ bitmap \in [PixelRows -> [Lanes -> BOOLEAN]]

\* A byte that is not in RAM is in the buffer, and whoever uses the RAM waits for it.
BufferInv ==
  /\ \A a \in RamWords : ram[a] \/ (store.left > 0 /\ store.address = a)
  /\ wait.on /\ awaits[1].op \in {"read", "write"} => wait.port = "ram" /\ wait.left >= store.left

\* The ROM buffer holds the byte R14 points at, or will, and whoever uses it waits for it.
RomInv ==
  /\ romRead.left = 0 => romRead.byte = romRead.address
  /\ ~written => romRead.address = r14
  /\ wait.on /\ awaits[1].op = "rom" => wait.port = "rom" /\ wait.left >= romRead.left

PixelInv ==
  /\ PixelsKept
  /\ \A l \in Pending(pixels[0]) : pixels[0].colors[l]

GsuInv == GsuTypes /\ AwaitsInv /\ BufferInv /\ RomInv /\ PixelInv /\ got

\* What may come after anything.
Free(step) == step.op \notin {"fetch", "rom", "shift", "readPixel", "put"} /\ step # Flush(0)

LEMMA FreeFollows == ASSUME NEW one, NEW next, Free(next) PROVE Follows(one, next)
BY DEF Free, Follows

\* Few instructions prepare something for what comes after them.
LEMMA FollowsFree ==
  ASSUME NEW one, NEW next, Follows(one, next), one.op \notin {"fetch", "flush", "shift"}
  PROVE  Free(next)
BY DEF Free, Follows, Flush, Shift

\* Two ordered lists of awaits make one when the second may follow the first.
LEMMA JoinOrdered ==
  ASSUME NEW m \in Seq(Awaits), NEW t \in Seq(Awaits), Ordered(m), Ordered(t), m # <<>>,
         t # <<>> => Follows(m[Len(m)], t[1])
  PROVE  /\ m \o t \in Seq(Awaits) /\ Ordered(m \o t)
         /\ m \o t # <<>> /\ (m \o t)[1] = m[1]
         /\ t # <<>> => (m \o t)[Len(m \o t)] = t[Len(t)]
<1>1. m \o t \in Seq(Awaits) /\ Len(m \o t) = Len(m) + Len(t) /\ Len(m) \in Nat /\ Len(t) \in Nat
  BY ConcatProperties, LenProperties
<1>2. \A i \in 1 .. Len(m) + Len(t) : (m \o t)[i] = IF i <= Len(m) THEN m[i] ELSE t[i - Len(m)]
  BY ConcatProperties
<1>3. Len(m) >= 1 /\ (t # <<>> => Len(t) >= 1)
  BY EmptySeq, LenProperties
<1>q. PICK j : j = m \o t
  OBVIOUS
<1>4. Ordered(j)
  <2> SUFFICES ASSUME NEW i \in 1 .. Len(m) + Len(t) - 1 PROVE Follows(j[i], j[i + 1])
    BY <1>1, <1>q DEF Ordered
  <2>1. i \in 1 .. Len(m) + Len(t) /\ i + 1 \in 1 .. Len(m) + Len(t) /\ i \in Nat
    BY <1>1
  <2>2. /\ j[i] = IF i <= Len(m) THEN m[i] ELSE t[i - Len(m)]
        /\ j[i + 1] = IF i + 1 <= Len(m) THEN m[i + 1] ELSE t[i + 1 - Len(m)]
    BY <2>1, <1>2, <1>q
  <2>3. CASE i < Len(m)
    <3>1. j[i] = m[i] /\ j[i + 1] = m[i + 1] /\ i \in 1 .. Len(m) - 1
      BY <2>1, <2>2, <2>3, <1>1
    <3> QED
      BY <3>1 DEF Ordered
  <2>4. CASE i = Len(m)
    <3>1. j[i] = m[i] /\ j[i + 1] = t[1] /\ Len(t) # 0
      BY <2>1, <2>2, <2>4, <1>1
    <3> QED
      BY <3>1, <2>4, EmptySeq
  <2>5. CASE i > Len(m)
    <3> DEFINE k == i - Len(m)
    <3>1. j[i] = t[k] /\ j[i + 1] = t[k + 1] /\ k \in 1 .. Len(t) - 1
      BY <2>1, <2>2, <2>5, <1>1
    <3> HIDE DEF k
    <3> QED
      BY <3>1 DEF Ordered
  <2> QED
    BY <2>1, <2>3, <2>4, <2>5, <1>1
<1>5. j # <<>> /\ j[1] = m[1]
  BY <1>1, <1>2, <1>3, <1>q, EmptySeq
<1>6. t # <<>> => j[Len(j)] = t[Len(t)]
  <2> HAVE t # <<>>
  <2>1. Len(j) = Len(m) + Len(t) /\ Len(t) >= 1
    BY <1>1, <1>3, <1>q
  <2> QED
    BY <2>1, <1>1, <1>2, <1>q
<1> QED
  BY <1>1, <1>4, <1>5, <1>6, <1>q

\* What is left when the first await is done.
LEMMA RestOrdered ==
  ASSUME NEW s \in Seq(Awaits), s # <<>>, Ordered(s)
  PROVE  /\ Tail(s) \in Seq(Awaits) /\ Ordered(Tail(s)) /\ Head(s) = s[1] /\ s[1] \in Awaits
         /\ Tail(s) # <<>> => /\ Tail(s)[1] = s[2] /\ Follows(s[1], s[2])
                              /\ Tail(s)[Len(Tail(s))] = s[Len(s)]
         /\ Tail(s) = <<>> => Len(s) = 1
<1>1. /\ Head(s) = s[1] /\ s[1] \in Awaits /\ Tail(s) \in Seq(Awaits) /\ Len(s) \in Nat
      /\ Len(s) >= 1
  BY HeadTailProperties, EmptySeq, LenProperties
<1>2. Len(Tail(s)) = Len(s) - 1 /\ \A i \in 1 .. Len(s) - 1 : Tail(s)[i] = s[i + 1]
  BY HeadTailProperties
<1>3. Ordered(Tail(s))
  <2> SUFFICES ASSUME NEW i \in 1 .. Len(Tail(s)) - 1 PROVE Follows(Tail(s)[i], Tail(s)[i + 1])
    BY DEF Ordered
  <2>1. i \in 1 .. Len(s) - 1 /\ i + 1 \in 1 .. Len(s) - 1
    BY <1>1, <1>2
  <2>2. Tail(s)[i] = s[i + 1] /\ Tail(s)[i + 1] = s[i + 1 + 1]
    BY <1>2, <2>1
  <2> QED
    BY <2>1, <2>2 DEF Ordered
<1>4. Tail(s) # <<>> => /\ Tail(s)[1] = s[2] /\ Follows(s[1], s[2])
                        /\ Tail(s)[Len(Tail(s))] = s[Len(s)]
  <2> HAVE Tail(s) # <<>>
  <2>1. Len(s) - 1 >= 1
    BY <1>1, <1>2, EmptySeq, LenProperties
  <2>2. Tail(s)[1] = s[2] /\ Tail(s)[Len(s) - 1] = s[Len(s)]
    BY <2>1, <1>1, <1>2
  <2>3. Follows(s[1], s[2])
    BY <2>1, <1>1 DEF Ordered
  <2> QED
    BY <2>2, <2>3, <1>2
<1>5. Tail(s) = <<>> => Len(s) = 1
  <2>1. \A u \in Seq(Awaits) : u = <<>> => Len(u) = 0
    BY EmptySeq
  <2>2. PICK u : u = Tail(s)
    OBVIOUS
  <2>3. u \in Seq(Awaits) /\ Len(u) = Len(s) - 1
    BY <2>2, <1>1, <1>2
  <2>4. u = <<>> => Len(s) = 1
    BY <2>1, <2>3, <1>1
  <2> QED
    BY <2>2, <2>4
<1> QED
  BY <1>1, <1>3, <1>4, <1>5

LEMMA OneOrdered == ASSUME NEW step \in Awaits
                    PROVE  /\ <<step>> \in Seq(Awaits) /\ Ordered(<<step>>) /\ <<step>> # <<>>
                           /\ Len(<<step>>) = 1 /\ <<step>>[1] = step
BY DEF Ordered

LEMMA TwoOrdered ==
  ASSUME NEW one \in Awaits, NEW next \in Awaits, Follows(one, next)
  PROVE  /\ <<one, next>> \in Seq(Awaits) /\ Ordered(<<one, next>>) /\ <<one, next>> # <<>>
         /\ Len(<<one, next>>) = 2 /\ <<one, next>>[1] = one /\ <<one, next>>[2] = next
BY DEF Ordered

LEMMA EmptyOrdered == <<>> \in Seq(Awaits) /\ Ordered(<<>>)
BY EmptySeq DEF Ordered

\* Loads, multiplications and ROM bytes may end by setting R14.
LEMMA ResultOrdered ==
  ASSUME NEW m \in Seq(Awaits), Ordered(m), m # <<>>, NEW r \in Results
  PROVE  m \o r \in Seq(Awaits) /\ Ordered(m \o r) /\ m \o r # <<>> /\ (m \o r)[1] = m[1]
<1>1. SetR14 \in Awaits /\ \A one : Follows(one, SetR14)
  BY FreeFollows DEF SetR14, Awaits, Free, Flush
<1>2. r \in Seq(Awaits) /\ Ordered(r) /\ (r # <<>> => r[1] = SetR14)
  <2>1. CASE r = <<>>
    BY <2>1, EmptyOrdered
  <2>2. CASE r = <<SetR14>>
    BY <2>2, <1>1, OneOrdered
  <2> QED
    BY <2>1, <2>2 DEF Results
<1> QED
  BY <1>1, <1>2, JoinOrdered

\* A body is ordered, and may follow the fetch.
Body(s) == /\ s \in Seq(Awaits) /\ Ordered(s)
           /\ s # <<>> => Free(s[1]) \/ s[1].op = "rom"

LEMMA AccessBody ==
  ASSUME NEW op \in {"read", "write"}, NEW a \in RamWords, NEW word \in BOOLEAN
  PROVE  LET s == <<[op |-> op, at |-> a]>>
                    \o (IF word THEN <<[op |-> op, at |-> 1 - a]>> ELSE <<>>)
         IN  Body(s) /\ s # <<>>
<1> DEFINE one == [op |-> op, at |-> a]
           two == [op |-> op, at |-> 1 - a]
           more == IF word THEN <<two>> ELSE <<>>
<1>1. one \in Awaits /\ two \in Awaits /\ Free(one) /\ Free(two)
  BY DEF Awaits, RamWords, Free, Flush
<1>2. one.op # "end" /\ Follows(one, two)
  BY <1>1, FreeFollows
<1> HIDE DEF one, two
<1>3. /\ <<one>> \in Seq(Awaits) /\ Ordered(<<one>>) /\ <<one>> # <<>> /\ Len(<<one>>) = 1
      /\ <<one>>[1] = one
  BY <1>1, OneOrdered
<1>4. more \in Seq(Awaits) /\ Ordered(more) /\ (more # <<>> => more[1] = two)
  BY <1>1, OneOrdered, EmptyOrdered
<1> HIDE DEF more
<1>5. /\ <<one>> \o more \in Seq(Awaits) /\ Ordered(<<one>> \o more)
      /\ <<one>> \o more # <<>> /\ (<<one>> \o more)[1] = one
  BY <1>2, <1>3, <1>4, JoinOrdered
<1>6. Body(<<one>> \o more)
  BY <1>1, <1>5 DEF Body
<1> QED
  BY <1>5, <1>6 DEF one, two, more

LEMMA SingleBody == ASSUME NEW step \in Awaits, Free(step) \/ step.op = "rom"
                    PROVE  Body(<<step>>) /\ <<step>> # <<>>
BY OneOrdered DEF Body

LEMMA ResultBody == ASSUME NEW m, Body(m), m # <<>>, NEW r \in Results PROVE Body(m \o r)
BY ResultOrdered DEF Body

LEMMA BodyOrdered == ASSUME NEW class \in Classes, NEW body \in Bodies(class) PROVE Body(body)
<1>1. CASE class = "plain"
  <2>1. body \in Results
    BY <1>1 DEF Bodies
  <2>2. SetR14 \in Awaits /\ Free(SetR14)
    BY DEF SetR14, Awaits, Free, Flush
  <2>3. Body(<<>>) /\ Body(<<SetR14>>)
    BY <2>2, EmptyOrdered, SingleBody DEF Body
  <2> QED
    BY <2>1, <2>3 DEF Results
<1>2. CASE class \in {"store", "storeByte"}
  <2>1. \E a \in RamWords : body = Stores(a, TRUE) \/ body = Stores(a, FALSE)
    <3>1. CASE class = "store"
      <4>1. Bodies(class) = {Stores(a, TRUE) : a \in RamWords}
        BY <3>1 DEF Bodies
      <4> QED
        BY <4>1
    <3>2. CASE class = "storeByte"
      <4>1. Bodies(class) = {Stores(a, FALSE) : a \in RamWords}
        BY <3>2 DEF Bodies
      <4> QED
        BY <4>1
    <3> QED
      BY <1>2, <3>1, <3>2
  <2>2. \A a \in RamWords : Body(Stores(a, TRUE)) /\ Body(Stores(a, FALSE))
    BY AccessBody DEF Stores
  <2> QED
    BY <2>1, <2>2
<1>3. CASE class = "load"
  <2> DEFINE Long(a) == Loads(a, TRUE)
  <2>1. Bodies(class) = {Long(a) \o r : a \in RamWords, r \in Results}
    BY <1>3 DEF Bodies
  <2>2. \A a \in RamWords : Body(Long(a)) /\ Long(a) # <<>>
    BY AccessBody DEF Loads
  <2>3. \A a \in RamWords, r \in Results : Body(Long(a) \o r)
    BY <2>2, ResultBody
  <2> HIDE DEF Long
  <2>4. PICK a \in RamWords, r \in Results : body = Long(a) \o r
    BY <2>1
  <2> QED
    BY <2>3, <2>4
<1>4. CASE class = "loadByte"
  <2> DEFINE Short(a) == Loads(a, FALSE)
  <2>1. Bodies(class) = {Short(a) \o r : a \in RamWords, r \in Results}
    BY <1>4 DEF Bodies
  <2>2. \A a \in RamWords : Body(Short(a)) /\ Short(a) # <<>>
    BY AccessBody DEF Loads
  <2>3. \A a \in RamWords, r \in Results : Body(Short(a) \o r)
    BY <2>2, ResultBody
  <2> HIDE DEF Short
  <2>4. PICK a \in RamWords, r \in Results : body = Short(a) \o r
    BY <2>1
  <2> QED
    BY <2>3, <2>4
<1>5. CASE class = "multiply"
  <2>1. PICK r \in Results : body = <<[op |-> "core"]>> \o r
    BY <1>5 DEF Bodies
  <2>2. [op |-> "core"] \in Awaits /\ Free([op |-> "core"])
    BY DEF Awaits, Free, Flush
  <2> QED
    BY <2>1, <2>2, SingleBody, ResultBody
<1>6. CASE class = "romByte"
  <2>1. PICK r \in Results : body = <<[op |-> "rom"]>> \o r
    BY <1>6 DEF Bodies
  <2>2. [op |-> "rom"] \in Awaits
    BY DEF Awaits
  <2> QED
    BY <2>1, <2>2, SingleBody, ResultBody
<1>7. CASE class = "ramBank"
  <2>1. body = <<[op |-> "drain"]>>
    BY <1>7 DEF Bodies
  <2>2. [op |-> "drain"] \in Awaits /\ Free([op |-> "drain"])
    BY DEF Awaits, Free, Flush
  <2> QED
    BY <2>1, <2>2, SingleBody
<1>8. CASE class = "plot"
  <2>1. PICK r \in PixelRows, l \in Lanes : body = <<[op |-> "plot", row |-> r, lane |-> l]>>
    BY <1>8 DEF Bodies
  <2>2. /\ [op |-> "plot", row |-> r, lane |-> l] \in Awaits
        /\ Free([op |-> "plot", row |-> r, lane |-> l])
    BY DEF Awaits, Free, Flush
  <2> QED
    BY <2>1, <2>2, SingleBody
<1>9. CASE class = "readPixel"
  <2>1. PICK r \in PixelRows, l \in Lanes : body = ReadPixel(r, l)
    BY <1>9 DEF Bodies
  <2> DEFINE step == [op |-> "readPixel", row |-> r, lane |-> l]
  <2>2. Flush(1) \in Awaits /\ Flush(0) \in Awaits /\ step \in Awaits
    BY DEF Awaits, Flush
  <2>3. Free(Flush(1)) /\ Follows(Flush(1), Flush(0)) /\ Follows(Flush(0), step)
    BY DEF Free, Follows, Flush
  <2> HIDE DEF step
  <2>4. Body(<<Flush(1), Flush(0), step>>)
    BY <2>2, <2>3 DEF Body, Ordered
  <2> QED
    BY <2>1, <2>4 DEF ReadPixel, step
<1>10. CASE class = "stop"
  <2>1. body = <<[op |-> "stop"]>>
    BY <1>10 DEF Bodies
  <2>2. [op |-> "stop"] \in Awaits /\ Free([op |-> "stop"])
    BY DEF Awaits, Free, Flush
  <2> QED
    BY <2>1, <2>2, SingleBody
<1> QED
  BY <1>1, <1>2, <1>3, <1>4, <1>5, <1>6, <1>7, <1>8, <1>9, <1>10 DEF Classes

LEMMA GsuStart == GsuInit => GsuInv
<1> SUFFICES ASSUME GsuInit PROVE GsuInv
  OBVIOUS
<1>1. NoPixels \in RowColors
  <2>1. NoPixels \in [{} -> BOOLEAN] /\ {} \in SUBSET Lanes
    BY DEF NoPixels
  <2> QED
    BY <2>1 DEF RowColors
<1>2. GsuTypes
  <2>1. wait \in [on : BOOLEAN, left : Nat, port : GsuPorts]
    BY DEF GsuInit, GsuPorts
  <2>2. pixels \in [{0, 1} -> [row : PixelRows \cup {NoRow}, colors : RowColors]]
    BY <1>1 DEF GsuInit
  <2>3. store \in [left : Nat, address : RamWords]
    BY DEF GsuInit, RamWords
  <2> QED
    BY <2>1, <2>2, <2>3 DEF GsuInit, GsuTypes
<1>3. AwaitsInv
  BY EmptyOrdered DEF GsuInit, AwaitsInv
<1>4. BufferInv /\ RomInv
  BY DEF GsuInit, BufferInv, RomInv
<1>5. PixelInv
  BY DEF GsuInit, PixelInv, PixelsKept, Pending, NoPixels
<1> QED
  BY <1>2, <1>3, <1>4, <1>5 DEF GsuInit, GsuInv

\* What a part of the state rests on.
LEMMA AwaitsRest ==
  AwaitsInv /\ UNCHANGED <<awaits, written, pixels>> /\ (awaits = <<>> => ~wait'.on) => AwaitsInv'
BY DEF AwaitsInv, Prepared, Pending

LEMMA BufferRest == BufferInv /\ UNCHANGED <<store, ram>> /\ ~wait'.on => BufferInv'
BY DEF BufferInv

LEMMA RomRest == RomInv /\ UNCHANGED <<romRead, r14, written>> /\ ~wait'.on => RomInv'
BY DEF RomInv

LEMMA PixelRest == PixelInv /\ UNCHANGED <<pixels, bitmap>> => PixelInv'
BY DEF PixelInv, PixelsKept, Pending

LEMMA Decoding == GsuInv /\ Decode => GsuInv'
<1> SUFFICES ASSUME GsuInv, Decode PROVE GsuInv'
  OBVIOUS
<1>1. PICK class \in gsuProgram, fetch \in Fetches : \E body \in Bodies(class) :
             awaits' = <<fetch>> \o body \o <<End>>
  BY DEF Decode
<1>2. PICK body \in Bodies(class) : awaits' = <<fetch>> \o body \o <<End>>
  BY <1>1
<1>3. Body(body)
  <2>1. class \in Classes
    BY SuperFxInputs DEF GsuInv, GsuTypes
  <2> QED
    BY <2>1, BodyOrdered
<1>4. fetch \in Awaits /\ fetch.op = "fetch"
  BY SuperFxAssumption DEF Fetches, Awaits, GsuPorts, Port
<1>5. End \in Awaits /\ \A one : Follows(one, End)
  BY FreeFollows DEF End, Awaits, Free, Flush
<1>6. /\ <<fetch>> \in Seq(Awaits) /\ Ordered(<<fetch>>) /\ <<fetch>> # <<>>
      /\ Len(<<fetch>>) = 1 /\ <<fetch>>[1] = fetch
  BY <1>4, OneOrdered
<1>7. body # <<>> => Follows(<<fetch>>[Len(<<fetch>>)], body[1])
  <2>1. body # <<>> => Follows(fetch, body[1])
    BY <1>3, <1>4, FreeFollows DEF Body, Follows, Flush
  <2> QED
    BY <2>1, <1>6
<1>8. PICK s : s = <<fetch>> \o body
  OBVIOUS
<1>9. s \in Seq(Awaits) /\ Ordered(s) /\ s # <<>> /\ s[1] = fetch
  BY <1>3, <1>6, <1>7, <1>8, JoinOrdered DEF Body
<1>10. /\ <<End>> \in Seq(Awaits) /\ Ordered(<<End>>) /\ <<End>> # <<>> /\ Len(<<End>>) = 1
       /\ <<End>>[1] = End
  BY <1>5, OneOrdered
<1>11. PICK t : t = s \o <<End>>
  OBVIOUS
<1>12. t \in Seq(Awaits) /\ Ordered(t) /\ t # <<>> /\ t[1] = fetch /\ t[Len(t)] = End
  BY <1>5, <1>9, <1>10, <1>11, JoinOrdered
<1>13. awaits' = t
  BY <1>2, <1>8, <1>11
<1>14. awaits = <<>> /\ ~wait.on /\ ~written
  BY DEF Decode, GsuInv, AwaitsInv
<1>15. AwaitsInv'
  <2>1. ~written' /\ awaits'[1] = fetch /\ awaits' # <<>>
    BY <1>12, <1>13, <1>14 DEF Decode
  <2>2. Prepared(awaits[1])'
    BY <2>1, <1>4 DEF Prepared, Flush
  <2>3. awaits' \in Seq(Awaits) /\ awaits'[Len(awaits')].op = "end"
    BY <1>12, <1>13 DEF End
  <2>4. Ordered(awaits)'
    <3> SUFFICES ASSUME NEW i \in 1 .. Len(awaits') - 1
                 PROVE  Follows(awaits'[i], awaits'[i + 1])
      BY DEF Ordered
    <3>1. i \in 1 .. Len(t) - 1
      BY <1>13
    <3>2. Follows(t[i], t[i + 1])
      BY <3>1, <1>12 DEF Ordered
    <3> QED
      BY <3>2, <1>13
  <2> QED
    BY <2>1, <2>2, <2>3, <2>4 DEF AwaitsInv
<1>16. GsuTypes' /\ PixelInv' /\ got'
  <2>1. GsuTypes'
    BY DEF Decode, GsuInv, GsuTypes, memories
  <2>2. PixelInv' /\ got'
    BY PixelRest DEF Decode, GsuInv, memories
  <2> QED
    BY <2>1, <2>2
<1>17. BufferInv' /\ RomInv'
  BY <1>14, BufferRest, RomRest DEF Decode, GsuInv, memories
<1> QED
  BY <1>15, <1>16, <1>17 DEF GsuInv

LEMMA StepTypes ==
  ASSUME NEW step \in Awaits
  PROVE  /\ step.op \in {"fetch", "read", "write", "core", "rom", "drain", "setR14", "stop", "end",
                         "flush", "shift", "plot", "put", "readPixel"}
         /\ step.op = "fetch" => step.port \in GsuPorts /\ step.clocks \in Nat
         /\ step.op \in {"read", "write"} => step.at \in RamWords
         /\ step.op = "flush" => step.row \in {0, 1} /\ step = Flush(step.row)
         /\ step.op = "shift" => step.row \in PixelRows /\ step = Shift(step.row)
         /\ step.op \in {"plot", "put", "readPixel"} => /\ step.row \in PixelRows
                                                      /\ step.lane \in Lanes
BY DEF Awaits, Flush, Shift

\* The wait of a load or a store, or of a ROM byte, lasts as long as its buffer is busy.
LEMMA Waits ==
  ASSUME GsuTypes, NEW step \in Awaits, ~Ready(step)
  PROVE  /\ WaitOf(step) \in [on : BOOLEAN, left : Nat, port : GsuPorts] /\ WaitOf(step).on
         /\ step.op \in {"read", "write"} => /\ WaitOf(step).port = "ram"
                                             /\ WaitOf(step).left >= store.left
         /\ step.op = "rom" => WaitOf(step).port = "rom" /\ WaitOf(step).left >= romRead.left
<1>1. /\ store.left \in Nat /\ romRead.left \in Nat /\ CoreCost \in Nat /\ MemoryCost \in Nat
      /\ store.left + MemoryCost \in Nat /\ store.left + MemoryCost >= store.left
      /\ MemoryCost * 2 \in Nat /\ MemoryCost * 1 \in Nat
  BY SuperFxAssumption DEF GsuTypes
<1>2. "ram" \in GsuPorts /\ "rom" \in GsuPorts /\ "none" \in GsuPorts
  BY DEF GsuPorts, Port
<1>3. CASE step.op = "fetch"
  <2>1. step.port \in GsuPorts /\ step.clocks \in Nat
    BY <1>3, StepTypes
  <2>2. Buffered(step.port) \in Nat
    BY <1>1, <2>1 DEF Buffered, GsuPorts, Port
  <2>3. Buffered(step.port) + step.clocks \in Nat
    BY <2>1, <2>2
  <2> QED
    BY <1>3, <2>1, <2>3 DEF WaitOf, FetchWait, Suspended
<1>4. CASE step.op \in {"read", "readPixel"}
  BY <1>1, <1>2, <1>4 DEF WaitOf, ReadWait, Suspended
<1>5. CASE step.op \in {"write", "rom", "drain", "core"}
  BY <1>1, <1>2, <1>5 DEF WaitOf, Suspended
<1>6. CASE step.op = "flush"
  <2>1. store.left + MemoryCost * (IF Pending(pixels[step.row]) = Lanes THEN 1 ELSE 2) \in Nat
    BY <1>1
  <2> QED
    BY <1>2, <1>6, <2>1 DEF WaitOf, FlushWait, Suspended
<1> QED
  BY <1>3, <1>4, <1>5, <1>6, StepTypes DEF Ready

LEMMA Suspending == GsuInv /\ Suspend => GsuInv'
<1> SUFFICES ASSUME GsuInv, Suspend PROVE GsuInv'
  OBVIOUS
<1>1. Head(awaits) = awaits[1] /\ awaits[1] \in Awaits
  BY RestOrdered DEF GsuInv, AwaitsInv, Suspend
<1>2. GsuTypes /\ ~Ready(awaits[1]) /\ wait' = WaitOf(awaits[1]) /\ awaits' = awaits
  BY <1>1 DEF Suspend, GsuInv
<1>3. wait' \in [on : BOOLEAN, left : Nat, port : GsuPorts] /\ GsuTypes'
  BY <1>1, <1>2, Waits DEF Suspend, GsuTypes, memories
<1>4. AwaitsInv' /\ PixelInv' /\ got'
  BY AwaitsRest, PixelRest DEF Suspend, GsuInv, memories
<1>5. BufferInv'
  BY <1>1, <1>2, Waits DEF Suspend, GsuInv, BufferInv, memories
<1>6. RomInv'
  BY <1>1, <1>2, Waits DEF Suspend, GsuInv, RomInv, memories
<1> QED
  BY <1>3, <1>4, <1>5, <1>6 DEF GsuInv

LEMMA DownTypes == ASSUME NEW n \in Nat
                   PROVE  Down(n) \in Nat /\ (n > 0 => Down(n) = n - 1) /\ Down(0) = 0
BY DEF Down

LEMMA Clocked == GsuInv /\ GsuClock => GsuInv'
<1> SUFFICES ASSUME GsuInv, GsuClock PROVE GsuInv'
  OBVIOUS
<1>1. GsuTypes /\ TickBuffers
  BY DEF GsuInv, GsuClock
<1>2. /\ store.left \in Nat /\ store.address \in RamWords /\ romRead.left \in Nat
      /\ wait.left \in Nat /\ wait.on \in BOOLEAN /\ wait.port \in GsuPorts
  BY <1>1 DEF GsuTypes
<1>3. /\ wait'.on = wait.on /\ wait'.port = wait.port
      /\ wait'.left = IF go /\ Granted(wait.port) THEN Down(wait.left) ELSE wait.left
      /\ wait' \in [on : BOOLEAN, left : Nat, port : GsuPorts]
  BY <1>1, <1>2, DownTypes DEF GsuClock, GsuTypes
<1>4. /\ store'.address = store.address
      /\ store'.left = IF Granted("ram") /\ store.left > 0 THEN Down(store.left) ELSE store.left
      /\ store' \in [left : Nat, address : RamWords]
  BY <1>1, <1>2, DownTypes DEF TickBuffers, GsuTypes
<1>5. /\ romRead'.address = romRead.address
      /\ romRead'.left = IF Granted("rom") /\ romRead.left > 0 THEN Down(romRead.left)
                         ELSE romRead.left
      /\ romRead'.byte = IF Granted("rom") /\ romRead.left = 1 THEN romRead.address
                         ELSE romRead.byte
      /\ romRead' \in [left : Nat, address : RomAddresses, byte : RomAddresses]
  <2>1. romRead \in [left : Nat, address : RomAddresses, byte : RomAddresses]
    BY <1>1 DEF GsuTypes
  <2>2. CASE Granted("rom") /\ romRead.left > 0
    <3>1. PICK b : b = IF romRead.left = 1 THEN romRead.address ELSE romRead.byte
      OBVIOUS
    <3>2. PICK n : n = Down(romRead.left)
      OBVIOUS
    <3>3. romRead' = [romRead EXCEPT !.left = n, !.byte = b]
      BY <1>1, <2>1, <2>2, <3>1, <3>2 DEF TickBuffers
    <3>4. b \in RomAddresses /\ n \in Nat
      BY <1>2, <2>1, <3>1, <3>2, DownTypes
    <3>5. /\ romRead'.address = romRead.address /\ romRead'.left = n /\ romRead'.byte = b
          /\ romRead' \in [left : Nat, address : RomAddresses, byte : RomAddresses]
      BY <2>1, <3>3, <3>4
    <3> QED
      BY <2>2, <3>1, <3>2, <3>5
  <2>3. CASE ~(Granted("rom") /\ romRead.left > 0)
    BY <1>1, <1>2, <2>1, <2>3 DEF TickBuffers
  <2> QED
    BY <2>2, <2>3
<1>6. /\ ram' = IF Granted("ram") /\ store.left = 1 THEN [ram EXCEPT ![store.address] = TRUE]
                ELSE ram
      /\ ram' \in [RamWords -> BOOLEAN]
  BY <1>1, <1>2 DEF TickBuffers, GsuTypes
<1>7. GsuTypes'
  BY <1>1, <1>3, <1>4, <1>5, <1>6 DEF GsuClock, GsuTypes
<1>8. AwaitsInv' /\ PixelInv' /\ got'
  BY <1>3, AwaitsRest, PixelRest DEF GsuInv, GsuClock, AwaitsInv
<1>9. BufferInv'
  <2>1. \A a \in RamWords : ram'[a] \/ (store'.left > 0 /\ store'.address = a)
    <3> SUFFICES ASSUME NEW a \in RamWords, ~(store'.left > 0 /\ store'.address = a)
                 PROVE  ram'[a] = TRUE
      OBVIOUS
    <3>1. CASE Granted("ram") /\ store.left = 1 /\ store.address = a
      BY <1>1, <1>6, <3>1 DEF GsuTypes
    <3>2. CASE ~(Granted("ram") /\ store.left = 1 /\ store.address = a)
      <4>1. ~(store.left > 0 /\ store.address = a)
        BY <1>2, <1>4, <3>2, DownTypes
      <4>2. ram[a] = TRUE
        BY <1>1, <4>1 DEF GsuInv, BufferInv, GsuTypes
      <4> QED
        BY <1>1, <1>6, <4>2 DEF GsuTypes
    <3> QED
      BY <3>1, <3>2
  <2>2. wait'.on /\ awaits'[1].op \in {"read", "write"}
          => wait'.port = "ram" /\ wait'.left >= store'.left
    <3> SUFFICES ASSUME wait.on, awaits[1].op \in {"read", "write"}
                 PROVE  wait'.port = "ram" /\ wait'.left >= store'.left
      BY <1>3 DEF GsuClock
    <3>1. wait.port = "ram" /\ wait.left >= store.left
      BY DEF GsuInv, BufferInv
    <3> QED
      BY <1>2, <1>3, <1>4, <3>1, DownTypes
  <2> QED
    BY <2>1, <2>2 DEF BufferInv
<1>10. RomInv'
  <2>1. romRead'.left = 0 => romRead'.byte = romRead'.address
    BY <1>2, <1>5, DownTypes DEF GsuInv, RomInv
  <2>2. ~written' => romRead'.address = r14'
    BY <1>5 DEF GsuInv, RomInv, GsuClock
  <2>3. wait'.on /\ awaits'[1].op = "rom" => wait'.port = "rom" /\ wait'.left >= romRead'.left
    <3> SUFFICES ASSUME wait.on, awaits[1].op = "rom"
                 PROVE  wait'.port = "rom" /\ wait'.left >= romRead'.left
      BY <1>3 DEF GsuClock
    <3>1. wait.port = "rom" /\ wait.left >= romRead.left
      BY DEF GsuInv, RomInv
    <3> QED
      BY <1>2, <1>3, <1>5, <3>1, DownTypes
  <2> QED
    BY <2>1, <2>2, <2>3 DEF RomInv
<1> QED
  BY <1>7, <1>8, <1>9, <1>10 DEF GsuInv

LEMMA CpuActs == GsuInv /\ Cpu => GsuInv'
<1> SUFFICES ASSUME GsuInv, Cpu PROVE GsuInv'
  OBVIOUS
<1>1. CASE CpuGrants \/ CpuStarts \/ CpuStops
  <2>1. UNCHANGED <<gsuProgram, gsuChip, memories, got>>
    BY <1>1 DEF CpuGrants, CpuStarts, CpuStops
  <2>2. GsuTypes'
    BY <1>1, <2>1 DEF CpuGrants, CpuStarts, CpuStops, GsuInv, GsuTypes, gsuChip, memories
  <2>3. AwaitsInv'
    BY <2>1, AwaitsRest DEF GsuInv, AwaitsInv, gsuChip
  <2>4. BufferInv' /\ RomInv' /\ PixelInv' /\ got'
    BY <2>1, PixelRest DEF GsuInv, BufferInv, RomInv, gsuChip, memories
  <2> QED
    BY <2>2, <2>3, <2>4 DEF GsuInv
<1>2. CASE CpuSetsR14
  <2>1. PICK a \in RomAddresses : r14' = a /\ romRead' = StartRomRead(a)
    BY <1>2 DEF CpuSetsR14
  <2>2. UNCHANGED <<gsuProgram, go, granted, awaits, wait, written, store, pixels, memories, got>>
    BY <1>2 DEF CpuSetsR14
  <2>3. /\ romRead' \in [left : Nat, address : RomAddresses, byte : RomAddresses]
        /\ romRead'.left = MemoryCost /\ romRead'.address = a
    BY <2>1, SuperFxAssumption DEF StartRomRead, GsuInv, GsuTypes
  <2>4. GsuTypes'
    BY <2>1, <2>2, <2>3 DEF GsuInv, GsuTypes, memories
  <2>5. AwaitsInv' /\ PixelInv' /\ BufferInv' /\ got'
    BY <2>2, AwaitsRest, PixelRest DEF GsuInv, AwaitsInv, BufferInv, memories
  <2>6. ~(wait.on /\ awaits[1].op = "rom")
    <3>1. awaits # <<>> => Head(awaits) = awaits[1]
      BY RestOrdered DEF GsuInv, AwaitsInv
    <3>2. awaits = <<>> => ~wait.on
      BY DEF GsuInv, AwaitsInv
    <3> QED
      BY <1>2, <3>1, <3>2 DEF CpuSetsR14
  <2>7. RomInv'
    BY <2>1, <2>2, <2>3, <2>6, SuperFxAssumption DEF RomInv
  <2> QED
    BY <2>4, <2>5, <2>7 DEF GsuInv
<1>3. CASE CpuWritesRam
  <2>1. PICK a \in RamWords : ram' = [ram EXCEPT ![a] = ~(store.left > 0 /\ store.address = a)]
    BY <1>3 DEF CpuWritesRam
  <2>2. UNCHANGED <<gsuProgram, go, granted, gsuChip, bitmap, got>>
    BY <1>3 DEF CpuWritesRam
  <2>3. ram' \in [RamWords -> BOOLEAN]
    BY <2>1 DEF GsuInv, GsuTypes
  <2>4. GsuTypes'
    BY <2>2, <2>3 DEF GsuInv, GsuTypes, gsuChip
  <2>5. AwaitsInv' /\ PixelInv' /\ RomInv' /\ got'
    BY <2>2, AwaitsRest, PixelRest DEF GsuInv, AwaitsInv, RomInv, gsuChip
  <2>6. \A b \in RamWords : ram'[b] \/ (store.left > 0 /\ store.address = b)
    <3> SUFFICES ASSUME NEW b \in RamWords, (store.left > 0 /\ store.address = b) = FALSE
                 PROVE  ram'[b] = TRUE
      BY Zenon
    <3> QED
      BY <2>1 DEF GsuInv, GsuTypes, BufferInv
  <2>7. BufferInv'
    BY <2>2, <2>6 DEF GsuInv, BufferInv, gsuChip
  <2> QED
    BY <2>4, <2>5, <2>7 DEF GsuInv
<1> QED
  BY <1>1, <1>2, <1>3 DEF Cpu

LEMMA EmptyJoin == ASSUME NEW s \in Seq(Awaits) PROVE <<>> \o s = s
<1>1. \A t \in Seq(Awaits) : /\ <<>> \o t \in Seq(Awaits) /\ Len(<<>> \o t) = Len(t)
                             /\ \A i \in 1 .. Len(t) : (<<>> \o t)[i] = t[i]
  OBVIOUS
<1> QED
  BY <1>1, SeqEqual

\* The await in turn, and those behind it.
LEMMA InTurn ==
  ASSUME GsuInv, awaits # <<>>
  PROVE  /\ Head(awaits) = awaits[1] /\ awaits[1] \in Awaits /\ Prepared(awaits[1])
         /\ Tail(awaits) \in Seq(Awaits) /\ Ordered(Tail(awaits))
         /\ Head(awaits).op # "end" => /\ Tail(awaits) # <<>> /\ Follows(awaits[1], Tail(awaits)[1])
                                       /\ Tail(awaits)[Len(Tail(awaits))].op = "end"
<1>1. awaits \in Seq(Awaits) /\ Ordered(awaits) /\ Prepared(awaits[1])
  BY DEF GsuInv, AwaitsInv
<1>2. awaits[Len(awaits)].op = "end"
  BY DEF GsuInv, AwaitsInv
<1> QED
  BY <1>1, <1>2, RestOrdered

\* An await is done that leads to nothing else, and the next is prepared.
LEMMA OnToNext ==
  ASSUME GsuInv, awaits # <<>>, Head(awaits).op # "end", awaits' = <<>> \o Tail(awaits),
         Follows(awaits[1], awaits'[1]) => Prepared(awaits[1])'
  PROVE  AwaitsInv'
<1>1. awaits' = Tail(awaits)
  BY InTurn, EmptyJoin
<1>2. PICK t : t = Tail(awaits)
  OBVIOUS
<1>3. /\ t \in Seq(Awaits) /\ Ordered(t) /\ t # <<>> /\ Follows(awaits[1], t[1])
      /\ t[Len(t)].op = "end"
  BY <1>2, InTurn
<1>4. awaits' = t
  BY <1>1, <1>2
<1>5. Ordered(awaits)'
  BY <1>3, <1>4 DEF Ordered
<1>6. awaits' # <<>> /\ awaits' \in Seq(Awaits) /\ awaits'[Len(awaits')].op = "end"
  BY <1>3, <1>4
<1>7. Prepared(awaits[1])'
  BY <1>3, <1>4
<1> QED
  BY <1>5, <1>6, <1>7 DEF AwaitsInv

LEMMA FreePrepared == /\ Free(awaits'[1]) => Prepared(awaits[1])'
                      /\ \A step : Free(step) => Prepared(step)'
BY DEF Free, Prepared

\* So are the awaits that follow most.
LEMMA OnToFree ==
  ASSUME GsuInv, awaits # <<>>, Head(awaits).op \notin {"end", "fetch", "flush", "shift"},
         awaits' = <<>> \o Tail(awaits)
  PROVE  AwaitsInv'
<1>1. Head(awaits) = awaits[1]
  BY InTurn
<1>2. Follows(awaits[1], awaits'[1]) => Free(awaits'[1])
  BY <1>1, FollowsFree
<1> QED
  BY <1>1, <1>2, FreePrepared, OnToNext

\* What is awaited in turn was either ready, or is resumed after its wait.
LEMMA Resuming ==
  ASSUME NEW op, \E more : Proceed(op, more)
  PROVE  /\ awaits # <<>> /\ Head(awaits).op = op /\ wait' = NoWait /\ ~wait'.on
         /\ UNCHANGED <<gsuProgram, granted>>
         /\ (wait.on /\ wait.left = 0) \/ Ready(Head(awaits))
BY DEF Proceed, Resumable, NoWait

LEMMA NoWaitTypes == NoWait \in [on : BOOLEAN, left : Nat, port : GsuPorts]
BY DEF NoWait, GsuPorts

LEMMA AwaitedKeeps == GsuInv /\ Awaited => GsuInv'
<1> SUFFICES ASSUME GsuInv, Awaited PROVE GsuInv'
  OBVIOUS
<1>1. PICK op \in {"fetch", "core", "drain"} : Proceed(op, <<>>)
  BY DEF Awaited
<1>2. /\ awaits # <<>> /\ Head(awaits).op = op /\ wait' = NoWait /\ ~wait'.on
      /\ UNCHANGED <<gsuProgram, granted>>
  BY <1>1, Resuming
<1>3. awaits' = <<>> \o Tail(awaits) /\ Head(awaits) = awaits[1] /\ Prepared(awaits[1])
  BY <1>1, <1>2, InTurn DEF Proceed
<1>4. UNCHANGED <<go, r14, written, romRead, store, pixels, memories, got>>
  BY DEF Awaited
<1>5. AwaitsInv'
  <2>1. CASE op = "fetch"
    <3>1. ~written' /\ awaits[1].op = "fetch"
      BY <1>2, <1>3, <1>4, <2>1 DEF Prepared
    <3>2. Follows(awaits[1], awaits'[1]) => Prepared(awaits[1])'
      BY <3>1 DEF Follows, Prepared, Flush, Shift
    <3> QED
      BY <1>2, <1>3, <2>1, <3>2, OnToNext
  <2>2. CASE op # "fetch"
    BY <1>2, <1>3, <2>2, OnToFree
  <2> QED
    BY <2>1, <2>2
<1>6. GsuTypes'
  BY <1>2, <1>4, NoWaitTypes DEF GsuInv, GsuTypes, memories
<1>7. BufferInv' /\ RomInv' /\ PixelInv' /\ got'
  BY <1>2, <1>4, BufferRest, RomRest, PixelRest DEF GsuInv, memories
<1> QED
  BY <1>5, <1>6, <1>7 DEF GsuInv

LEMMA ReadRamKeeps == GsuInv /\ ReadRam => GsuInv'
<1> SUFFICES ASSUME GsuInv, ReadRam PROVE GsuInv'
  OBVIOUS
<1>1. Proceed("read", <<>>)
  BY DEF ReadRam
<1>2. /\ awaits # <<>> /\ Head(awaits).op = "read" /\ wait' = NoWait /\ ~wait'.on
      /\ UNCHANGED <<gsuProgram, granted>>
      /\ (wait.on /\ wait.left = 0) \/ Ready(Head(awaits))
  BY <1>1, Resuming
<1>3. awaits' = <<>> \o Tail(awaits) /\ Head(awaits) = awaits[1] /\ awaits[1] \in Awaits
  BY <1>1, <1>2, InTurn DEF Proceed
<1>4. got' = ram[awaits[1].at] /\ UNCHANGED <<go, r14, written, romRead, store, pixels, memories>>
  BY <1>3 DEF ReadRam
<1>5. AwaitsInv'
  BY <1>2, <1>3, OnToFree
<1>6. wait.on /\ wait.left = 0
  BY <1>2 DEF Ready
<1>7. store.left = 0
  BY <1>2, <1>3, <1>6 DEF GsuInv, GsuTypes, BufferInv
<1>8. awaits[1].at \in RamWords
  BY <1>2, <1>3, StepTypes
<1>9. got'
  BY <1>4, <1>7, <1>8 DEF GsuInv, BufferInv
<1>10. GsuTypes'
  BY <1>2, <1>4, NoWaitTypes DEF GsuInv, GsuTypes, memories
<1>11. BufferInv' /\ RomInv' /\ PixelInv'
  BY <1>2, <1>4, BufferRest, RomRest, PixelRest DEF GsuInv, memories
<1> QED
  BY <1>5, <1>9, <1>10, <1>11 DEF GsuInv

LEMMA WriteRamKeeps == GsuInv /\ WriteRam => GsuInv'
<1> SUFFICES ASSUME GsuInv, WriteRam PROVE GsuInv'
  OBVIOUS
<1>1. Proceed("write", <<>>)
  BY DEF WriteRam
<1>2. /\ awaits # <<>> /\ Head(awaits).op = "write" /\ wait' = NoWait /\ ~wait'.on
      /\ UNCHANGED <<gsuProgram, granted>>
      /\ (wait.on /\ wait.left = 0) \/ Ready(Head(awaits))
  BY <1>1, Resuming
<1>3. awaits' = <<>> \o Tail(awaits) /\ Head(awaits) = awaits[1] /\ awaits[1] \in Awaits
  BY <1>1, <1>2, InTurn DEF Proceed
<1>4. PICK a : a = awaits[1].at
  OBVIOUS
<1>5. /\ store' = [left |-> MemoryCost, address |-> a] /\ ram' = [ram EXCEPT ![a] = FALSE]
      /\ UNCHANGED <<go, r14, written, romRead, pixels, bitmap, got>>
  BY <1>3, <1>4 DEF WriteRam
<1>6. a \in RamWords
  BY <1>2, <1>3, <1>4, StepTypes
<1>7. store.left = 0
  <2>1. CASE wait.on /\ wait.left = 0
    BY <1>2, <1>3, <2>1 DEF GsuInv, GsuTypes, BufferInv
  <2>2. CASE Ready(Head(awaits))
    BY <1>2, <2>2 DEF Ready, WriteReady
  <2> QED
    BY <1>2, <2>1, <2>2
<1>8. AwaitsInv'
  BY <1>2, <1>3, OnToFree
<1>9. GsuTypes'
  <2>1. store' \in [left : Nat, address : RamWords]
    BY <1>5, <1>6, SuperFxAssumption
  <2>2. ram' \in [RamWords -> BOOLEAN]
    BY <1>5, <1>6 DEF GsuInv, GsuTypes
  <2> QED
    BY <1>2, <1>5, <2>1, <2>2, NoWaitTypes DEF GsuInv, GsuTypes
<1>10. BufferInv'
  <2>1. \A b \in RamWords : ram[b]
    BY <1>7 DEF GsuInv, BufferInv
  <2>2. store'.left > 0 /\ store'.address = a
    BY <1>5, SuperFxAssumption
  <2>3. \A b \in RamWords : b # a => ram'[b]
    BY <1>5, <2>1 DEF GsuInv, GsuTypes
  <2> QED
    BY <1>2, <2>2, <2>3 DEF BufferInv
<1>11. RomInv' /\ PixelInv' /\ got'
  BY <1>2, <1>5, RomRest, PixelRest DEF GsuInv
<1> QED
  BY <1>8, <1>9, <1>10, <1>11 DEF GsuInv

LEMMA ReadRomKeeps == GsuInv /\ ReadRom => GsuInv'
<1> SUFFICES ASSUME GsuInv, ReadRom PROVE GsuInv'
  OBVIOUS
<1>1. Proceed("rom", <<>>)
  BY DEF ReadRom
<1>2. /\ awaits # <<>> /\ Head(awaits).op = "rom" /\ wait' = NoWait /\ ~wait'.on
      /\ UNCHANGED <<gsuProgram, granted>>
      /\ (wait.on /\ wait.left = 0) \/ Ready(Head(awaits))
  BY <1>1, Resuming
<1>3. awaits' = <<>> \o Tail(awaits) /\ Head(awaits) = awaits[1] /\ Prepared(awaits[1])
  BY <1>1, <1>2, InTurn DEF Proceed
<1>4. /\ got' = (romRead.byte = r14)
      /\ UNCHANGED <<go, r14, written, romRead, store, pixels, memories>>
  BY DEF ReadRom
<1>5. AwaitsInv'
  BY <1>2, <1>3, OnToFree
<1>6. romRead.left = 0
  <2>1. CASE wait.on /\ wait.left = 0
    BY <1>2, <1>3, <2>1 DEF GsuInv, GsuTypes, RomInv
  <2>2. CASE Ready(Head(awaits))
    BY <1>2, <2>2 DEF Ready
  <2> QED
    BY <1>2, <2>1, <2>2
<1>7. ~written
  BY <1>2, <1>3 DEF Prepared
<1>8. got'
  BY <1>4, <1>6, <1>7 DEF GsuInv, RomInv
<1>9. GsuTypes'
  BY <1>2, <1>4, NoWaitTypes DEF GsuInv, GsuTypes, memories
<1>10. BufferInv' /\ RomInv' /\ PixelInv'
  BY <1>2, <1>4, BufferRest, RomRest, PixelRest DEF GsuInv, memories
<1> QED
  BY <1>5, <1>8, <1>9, <1>10 DEF GsuInv

LEMMA ChangeR14Keeps == GsuInv /\ ChangeR14 => GsuInv'
<1> SUFFICES ASSUME GsuInv, ChangeR14 PROVE GsuInv'
  OBVIOUS
<1>1. Proceed("setR14", <<>>)
  BY DEF ChangeR14
<1>2. /\ awaits # <<>> /\ Head(awaits).op = "setR14" /\ wait' = NoWait /\ ~wait'.on
      /\ UNCHANGED <<gsuProgram, granted>>
  BY <1>1, Resuming
<1>3. /\ awaits' = <<>> \o Tail(awaits) /\ r14' \in RomAddresses /\ written' = TRUE
      /\ UNCHANGED <<go, romRead, store, pixels, memories, got>>
  BY <1>1 DEF Proceed, ChangeR14
<1>4. AwaitsInv'
  BY <1>2, <1>3, OnToFree
<1>5. GsuTypes'
  BY <1>2, <1>3, NoWaitTypes DEF GsuInv, GsuTypes, memories
<1>6. RomInv'
  BY <1>2, <1>3 DEF GsuInv, RomInv
<1>7. BufferInv' /\ PixelInv' /\ got'
  BY <1>2, <1>3, BufferRest, PixelRest DEF GsuInv, memories
<1> QED
  BY <1>4, <1>5, <1>6, <1>7 DEF GsuInv

LEMMA StopKeeps == GsuInv /\ Stop => GsuInv'
<1> SUFFICES ASSUME GsuInv, Stop PROVE GsuInv'
  OBVIOUS
<1>1. Proceed("stop", <<>>)
  BY DEF Stop
<1>2. /\ awaits # <<>> /\ Head(awaits).op = "stop" /\ wait' = NoWait /\ ~wait'.on
      /\ UNCHANGED <<gsuProgram, granted>>
  BY <1>1, Resuming
<1>3. /\ awaits' = <<>> \o Tail(awaits) /\ go' = FALSE
      /\ UNCHANGED <<r14, written, romRead, store, pixels, memories, got>>
  BY <1>1 DEF Proceed, Stop
<1>4. AwaitsInv'
  BY <1>2, <1>3, OnToFree
<1>5. GsuTypes'
  BY <1>2, <1>3, NoWaitTypes DEF GsuInv, GsuTypes, memories
<1>6. BufferInv' /\ RomInv' /\ PixelInv' /\ got'
  BY <1>2, <1>3, BufferRest, RomRest, PixelRest DEF GsuInv, memories
<1> QED
  BY <1>4, <1>5, <1>6 DEF GsuInv

LEMMA EndKeeps == GsuInv /\ EndInstruction => GsuInv'
<1> SUFFICES ASSUME GsuInv, EndInstruction PROVE GsuInv'
  OBVIOUS
<1>1. Proceed("end", <<>>)
  BY DEF EndInstruction
<1>2. /\ awaits # <<>> /\ Head(awaits).op = "end" /\ wait' = NoWait /\ ~wait'.on
      /\ UNCHANGED <<gsuProgram, granted>>
  BY <1>1, Resuming
<1>3. /\ awaits' = <<>> \o Tail(awaits) /\ written' = FALSE
      /\ romRead' = IF written THEN StartRomRead(r14) ELSE romRead
      /\ UNCHANGED <<go, r14, store, pixels, memories, got>>
  BY <1>1 DEF Proceed, EndInstruction
<1>4. AwaitsInv'
  <2>1. PICK t : t = Tail(awaits)
    OBVIOUS
  <2>2. awaits \in Seq(Awaits) /\ Ordered(awaits) /\ awaits[Len(awaits)].op = "end"
    BY <1>2 DEF GsuInv, AwaitsInv
  <2>3. /\ t \in Seq(Awaits) /\ Ordered(t) /\ awaits[1].op = "end"
        /\ t # <<>> => /\ Follows(awaits[1], t[1])
                       /\ t[Len(t)].op = "end"
    BY <1>2, <2>1, <2>2, RestOrdered
  <2>4. awaits' = t
    BY <1>3, <2>1, <2>3, EmptyJoin
  <2>5. t # <<>> => Free(t[1])
    BY <2>3, FollowsFree
  <2>6. t # <<>> => Prepared(awaits[1])'
    BY <2>4, <2>5, FreePrepared
  <2>7. Ordered(awaits)' /\ awaits' \in Seq(Awaits)
    BY <2>3, <2>4 DEF Ordered
  <2>8. awaits' # <<>> => Prepared(awaits[1])' /\ awaits'[Len(awaits')].op = "end"
    BY <2>3, <2>4, <2>6
  <2>9. ~wait'.on /\ ~written'
    BY <1>2, <1>3
  <2> QED
    BY <2>7, <2>8, <2>9 DEF AwaitsInv
<1>5. /\ romRead' \in [left : Nat, address : RomAddresses, byte : RomAddresses]
      /\ written => romRead'.left = MemoryCost /\ romRead'.address = r14
      /\ ~written => romRead' = romRead
  BY <1>3, SuperFxAssumption DEF StartRomRead, GsuInv, GsuTypes
<1>6. GsuTypes'
  BY <1>2, <1>3, <1>5, NoWaitTypes DEF GsuInv, GsuTypes, memories
<1>7. RomInv'
  <2>1. CASE written
    BY <1>2, <1>3, <1>5, <2>1, SuperFxAssumption DEF RomInv
  <2>2. CASE ~written
    BY <1>2, <1>3, <1>5, <2>2 DEF GsuInv, RomInv
  <2> QED
    BY <2>1, <2>2
<1>8. BufferInv' /\ PixelInv' /\ got'
  BY <1>2, <1>3, BufferRest, PixelRest DEF GsuInv, memories
<1> QED
  BY <1>4, <1>6, <1>7, <1>8 DEF GsuInv

LEMMA ColorTypes ==
  ASSUME GsuTypes, NEW i \in {0, 1}
  PROVE  /\ pixels[i] \in [row : PixelRows \cup {NoRow}, colors : RowColors]
         /\ Pending(pixels[i]) \subseteq Lanes
         /\ \A l \in Pending(pixels[i]) : pixels[i].colors[l] \in BOOLEAN
<1>1. pixels[i] \in [row : PixelRows \cup {NoRow}, colors : RowColors]
  BY DEF GsuTypes
<1>2. PICK lanes \in SUBSET Lanes : pixels[i].colors \in [lanes -> BOOLEAN]
  BY <1>1 DEF RowColors
<1> QED
  BY <1>1, <1>2 DEF Pending

LEMMA NoColors == NoPixels \in RowColors /\ DOMAIN NoPixels = {}
<1>1. NoPixels \in [{} -> BOOLEAN] /\ {} \in SUBSET Lanes
  BY DEF NoPixels
<1> QED
  BY <1>1 DEF RowColors

LEMMA WriteBackKeeps == GsuInv /\ WriteBack => GsuInv'
<1> SUFFICES ASSUME GsuInv, WriteBack PROVE GsuInv'
  OBVIOUS
<1>1. Proceed("flush", <<>>)
  BY DEF WriteBack
<1>2. /\ awaits # <<>> /\ Head(awaits).op = "flush" /\ wait' = NoWait /\ ~wait'.on
      /\ UNCHANGED <<gsuProgram, granted>>
  BY <1>1, Resuming
<1>3. /\ awaits' = <<>> \o Tail(awaits) /\ Head(awaits) = awaits[1] /\ awaits[1] \in Awaits
      /\ Prepared(awaits[1])
  BY <1>1, <1>2, InTurn DEF Proceed
<1>4. PICK i : i = awaits[1].row
  OBVIOUS
<1>5. PICK row : row = pixels[i]
  OBVIOUS
<1>6. /\ bitmap' = [r \in PixelRows |-> [l \in Lanes |->
                      IF r = row.row /\ l \in Pending(row) THEN row.colors[l] ELSE bitmap[r][l]]]
      /\ pixels' = [pixels EXCEPT ![i].colors = NoPixels]
      /\ UNCHANGED <<go, r14, written, romRead, store, ram, got>>
  BY <1>3, <1>4, <1>5 DEF WriteBack
<1>7. i \in {0, 1} /\ awaits[1] = Flush(i)
  BY <1>2, <1>3, <1>4, StepTypes
<1>8. /\ GsuTypes /\ row \in [row : PixelRows \cup {NoRow}, colors : RowColors]
      /\ \A l \in Pending(row) : row.colors[l] \in BOOLEAN
  BY <1>5, <1>7, ColorTypes DEF GsuInv
<1>9. /\ pixels'[i].row = row.row /\ pixels'[i].colors = NoPixels /\ Pending(pixels[i])' = {}
      /\ pixels'[1 - i] = pixels[1 - i]
      /\ pixels' \in [{0, 1} -> [row : PixelRows \cup {NoRow}, colors : RowColors]]
  <2>1. pixels' = [pixels EXCEPT ![i] = [row EXCEPT !.colors = NoPixels]]
    BY <1>5, <1>6, <1>7, <1>8 DEF GsuTypes
  <2>2. PICK new : new = [row EXCEPT !.colors = NoPixels]
    OBVIOUS
  <2>3. /\ new.row = row.row /\ new.colors = NoPixels
        /\ new \in [row : PixelRows \cup {NoRow}, colors : RowColors]
    BY <1>8, <2>2, NoColors
  <2>4. pixels'[i] = new /\ pixels'[1 - i] = pixels[1 - i]
    BY <1>7, <1>8, <2>1, <2>2 DEF GsuTypes
  <2>5. pixels' \in [{0, 1} -> [row : PixelRows \cup {NoRow}, colors : RowColors]]
    BY <1>7, <1>8, <2>1, <2>2, <2>3 DEF GsuTypes
  <2> QED
    BY <2>3, <2>4, <2>5, NoColors DEF Pending
<1>10. AwaitsInv'
  <2>1. Follows(awaits[1], awaits'[1]) => Prepared(awaits[1])'
    <3> SUFFICES ASSUME Follows(awaits[1], awaits'[1]) PROVE Prepared(awaits[1])'
      OBVIOUS
    <3>1. awaits'[1].op \notin {"fetch", "rom", "put"}
      BY <1>7 DEF Follows, Flush, Shift
    <3>2. awaits'[1].op = "shift" \/ awaits'[1] = Flush(0) => i = 1
      BY <1>7 DEF Follows, Flush
    <3>3. awaits'[1].op = "readPixel" => i = 0 /\ Pending(pixels[1]) = {}
      <4>1. awaits'[1].op = "readPixel" => awaits[1] = Flush(0)
        BY DEF Follows
      <4>2. awaits[1] = Flush(0) => i = 0
        BY <1>7 DEF Flush
      <4>3. awaits[1] = Flush(0) => Pending(pixels[1]) = {}
        BY <1>3 DEF Prepared
      <4> QED
        BY <4>1, <4>2, <4>3
    <3> QED
      BY <1>7, <1>9, <3>1, <3>2, <3>3 DEF Prepared, Pending
  <2> QED
    BY <1>2, <1>3, <2>1, OnToNext
<1>11. GsuTypes'
  <2>1. bitmap' \in [PixelRows -> [Lanes -> BOOLEAN]]
    BY <1>6, <1>8 DEF GsuTypes
  <2> QED
    BY <1>2, <1>6, <1>9, <2>1, NoWaitTypes DEF GsuInv, GsuTypes
<1>12. PixelInv'
  <2>1. \A l \in Pending(pixels[0])' : pixels'[0].colors[l]
    BY <1>7, <1>9 DEF GsuInv, PixelInv, Pending
  <2>2. ASSUME NEW r \in PixelRows, NEW l \in Lanes
        PROVE  (IF pixels[0].row = r /\ l \in Pending(pixels[0]) THEN pixels[0].colors[l]
                ELSE IF pixels[1].row = r /\ l \in Pending(pixels[1]) THEN pixels[1].colors[l]
                ELSE bitmap[r][l])'
    <3>1. IF pixels[0].row = r /\ l \in Pending(pixels[0]) THEN pixels[0].colors[l]
          ELSE IF pixels[1].row = r /\ l \in Pending(pixels[1]) THEN pixels[1].colors[l]
          ELSE bitmap[r][l]
      BY DEF GsuInv, PixelInv, PixelsKept
    <3>2. bitmap'[r][l] = IF r = row.row /\ l \in Pending(row) THEN row.colors[l] ELSE bitmap[r][l]
      BY <1>6
    <3>3. CASE i = 1
      BY <1>5, <1>9, <3>1, <3>2, <3>3 DEF Pending
    <3>4. CASE i = 0
      <4>1. Pending(pixels[1]) = {} /\ pixels'[1] = pixels[1]
        BY <1>3, <1>7, <1>9, <3>4 DEF Prepared
      <4> QED
        BY <1>5, <1>9, <3>1, <3>2, <3>4, <4>1 DEF Pending
    <3> QED
      BY <1>7, <3>3, <3>4
  <2> QED
    BY <2>1, <2>2 DEF PixelInv, PixelsKept
<1>13. BufferInv' /\ RomInv' /\ got'
  BY <1>2, <1>6, BufferRest, RomRest DEF GsuInv
<1> QED
  BY <1>10, <1>11, <1>12, <1>13 DEF GsuInv

LEMMA ReadPictureKeeps == GsuInv /\ ReadPicture => GsuInv'
<1> SUFFICES ASSUME GsuInv, ReadPicture PROVE GsuInv'
  OBVIOUS
<1>1. Proceed("readPixel", <<>>)
  BY DEF ReadPicture
<1>2. /\ awaits # <<>> /\ Head(awaits).op = "readPixel" /\ wait' = NoWait /\ ~wait'.on
      /\ UNCHANGED <<gsuProgram, granted>>
  BY <1>1, Resuming
<1>3. /\ awaits' = <<>> \o Tail(awaits) /\ Head(awaits) = awaits[1] /\ Prepared(awaits[1])
      /\ awaits[1] \in Awaits
  BY <1>1, <1>2, InTurn DEF Proceed
<1>4. /\ got' = bitmap[awaits[1].row][awaits[1].lane]
      /\ UNCHANGED <<go, r14, written, romRead, store, pixels, memories>>
  BY <1>3 DEF ReadPicture
<1>5. AwaitsInv'
  BY <1>2, <1>3, OnToFree
<1>6. awaits[1].row \in PixelRows /\ awaits[1].lane \in Lanes
  BY <1>2, <1>3, StepTypes
<1>7. Pending(pixels[0]) = {} /\ Pending(pixels[1]) = {}
  BY <1>2, <1>3 DEF Prepared
<1>8. got'
  BY <1>4, <1>6, <1>7 DEF GsuInv, PixelInv, PixelsKept
<1>9. GsuTypes'
  BY <1>2, <1>4, NoWaitTypes DEF GsuInv, GsuTypes, memories
<1>10. BufferInv' /\ RomInv' /\ PixelInv'
  BY <1>2, <1>4, BufferRest, RomRest, PixelRest DEF GsuInv, memories
<1> QED
  BY <1>5, <1>8, <1>9, <1>10 DEF GsuInv

\* The new list when an await leads to others first.
LEMMA OnToMore ==
  ASSUME GsuInv, awaits # <<>>, Head(awaits).op \in {"plot", "put"}, NEW more \in Seq(Awaits),
         Ordered(more), more # <<>>, Prepared(more[1])',
         awaits' = more \o Tail(awaits)
  PROVE  AwaitsInv'
<1>1. PICK t : t = Tail(awaits)
  OBVIOUS
<1>2. /\ t \in Seq(Awaits) /\ Ordered(t) /\ t # <<>> /\ Follows(awaits[1], t[1])
      /\ t[Len(t)].op = "end" /\ Head(awaits) = awaits[1]
  BY <1>1, InTurn
<1>3. Follows(more[Len(more)], t[1])
  BY <1>2, FollowsFree, FreeFollows
<1>4. PICK s : s = more \o t
  OBVIOUS
<1>5. s \in Seq(Awaits) /\ Ordered(s) /\ s # <<>> /\ s[1] = more[1] /\ s[Len(s)].op = "end"
  BY <1>2, <1>3, <1>4, JoinOrdered
<1>6. awaits' = s
  BY <1>1, <1>4
<1>7. Prepared(awaits[1])'
  <2>1. awaits'[1] = more[1]
    BY <1>5, <1>6
  <2> QED
    BY <2>1, FreePrepared
<1>8. Ordered(awaits)'
  BY <1>5, <1>6 DEF Ordered
<1>9. awaits' \in Seq(Awaits) /\ awaits' # <<>> /\ awaits'[Len(awaits')].op = "end"
  BY <1>5, <1>6
<1> QED
  BY <1>7, <1>8, <1>9 DEF AwaitsInv

LEMMA ShiftSteps == ASSUME NEW r \in PixelRows
                    PROVE  /\ Flush(1) \in Awaits /\ Shift(r) \in Awaits /\ Free(Flush(1))
                           /\ Follows(Flush(1), Shift(r))
BY DEF Awaits, Flush, Shift, Free, Follows

LEMMA PlotKeeps == GsuInv /\ Plot => GsuInv'
<1> SUFFICES ASSUME GsuInv, Plot PROVE GsuInv'
  OBVIOUS
<1> DEFINE step == Head(awaits)
<1>1. PICK change : change = RowChange(step.row)
  OBVIOUS
<1>2. PICK more : more = change \o <<Put(step)>>
  OBVIOUS
<1>3. Proceed("plot", more)
  BY <1>1, <1>2 DEF Plot
<1>4. /\ awaits # <<>> /\ step.op = "plot" /\ wait' = NoWait /\ ~wait'.on
      /\ UNCHANGED <<gsuProgram, granted>>
  BY <1>3, Resuming
<1>5. awaits' = more \o Tail(awaits) /\ step = awaits[1] /\ step \in Awaits
  BY <1>3, <1>4, InTurn DEF Proceed
<1>6. UNCHANGED <<go, r14, written, romRead, store, pixels, memories, got>>
  BY DEF Plot
<1>7. PICK r \in PixelRows, l \in Lanes : step = [op |-> "plot", row |-> r, lane |-> l]
  BY <1>4, <1>5 DEF Awaits
<1>8. PICK put : put = [op |-> "put", row |-> r, lane |-> l]
  OBVIOUS
<1>9. Put(step) = put /\ put \in Awaits /\ put.op = "put" /\ put.row = r /\ step.row = r
  BY <1>7, <1>8 DEF Put, Awaits
<1>10. Follows(Shift(r), put)
  BY <1>9, <1>8 DEF Follows, Flush, Shift
<1>11. /\ <<put>> \in Seq(Awaits) /\ Ordered(<<put>>) /\ <<put>> # <<>> /\ <<put>>[1] = put
       /\ more = change \o <<put>>
  BY <1>2, <1>9, OneOrdered
<1>12. /\ more \in Seq(Awaits) /\ Ordered(more) /\ more # <<>>
       /\ Prepared(more[1])'
  <2>1. CASE pixels[0].row = r
    <3>1. more = <<put>>
      <4>1. change = <<>>
        BY <1>1, <1>9, <2>1 DEF RowChange
      <4> QED
        BY <1>11, <4>1, EmptyJoin
    <3>2. Prepared(put)'
      BY <1>6, <1>8, <1>9, <2>1 DEF Prepared, Flush
    <3> QED
      BY <1>11, <3>1, <3>2
  <2>2. CASE pixels[0].row # r
    <3>1. change = <<Flush(1), Shift(r)>>
      BY <1>1, <1>9, <2>2 DEF RowChange
    <3>2. /\ Flush(1) \in Awaits /\ Shift(r) \in Awaits /\ Free(Flush(1))
          /\ Follows(Flush(1), Shift(r))
      BY ShiftSteps
    <3>3. /\ change \in Seq(Awaits) /\ Ordered(change) /\ change # <<>>
          /\ change[1] = Flush(1) /\ change[Len(change)] = Shift(r)
      BY <3>1, <3>2, TwoOrdered
    <3>4. more \in Seq(Awaits) /\ Ordered(more) /\ more # <<>> /\ more[1] = Flush(1)
      BY <1>11, <1>10, <3>3, JoinOrdered
    <3> QED
      BY <3>2, <3>4, FreePrepared
  <2> QED
    BY <2>1, <2>2
<1>13. AwaitsInv'
  <2>1. /\ awaits # <<>> /\ Head(awaits).op \in {"plot", "put"}
        /\ awaits' = more \o Tail(awaits)
    BY <1>4, <1>5
  <2> QED
    BY <1>12, <2>1, OnToMore
<1>14. GsuTypes'
  BY <1>4, <1>6, NoWaitTypes DEF GsuInv, GsuTypes, memories
<1>15. BufferInv' /\ RomInv' /\ PixelInv' /\ got'
  BY <1>4, <1>6, BufferRest, RomRest, PixelRest DEF GsuInv, memories
<1> QED
  BY <1>13, <1>14, <1>15 DEF GsuInv

LEMMA ShiftKeeps == GsuInv /\ ShiftRow => GsuInv'
<1> SUFFICES ASSUME GsuInv, ShiftRow PROVE GsuInv'
  OBVIOUS
<1>1. Proceed("shift", <<>>)
  BY DEF ShiftRow
<1>2. /\ awaits # <<>> /\ Head(awaits).op = "shift" /\ wait' = NoWait /\ ~wait'.on
      /\ UNCHANGED <<gsuProgram, granted>>
  BY <1>1, Resuming
<1>3. /\ awaits' = <<>> \o Tail(awaits) /\ Head(awaits) = awaits[1] /\ awaits[1] \in Awaits
      /\ Prepared(awaits[1])
  BY <1>1, <1>2, InTurn DEF Proceed
<1>4. PICK r : r = awaits[1].row
  OBVIOUS
<1>5. r \in PixelRows /\ awaits[1] = Shift(r) /\ Pending(pixels[1]) = {}
  BY <1>2, <1>3, <1>4, StepTypes DEF Prepared
<1>6. /\ pixels' = [pixels EXCEPT ![1] = pixels[0], ![0].row = r, ![0].colors = NoPixels]
      /\ UNCHANGED <<go, r14, written, romRead, store, memories, got>>
  BY <1>3, <1>4 DEF ShiftRow
<1>7. GsuTypes /\ pixels[0] \in [row : PixelRows \cup {NoRow}, colors : RowColors]
  BY ColorTypes DEF GsuInv
<1>8. /\ pixels'[1] = pixels[0] /\ pixels'[0].row = r /\ pixels'[0].colors = NoPixels
      /\ pixels' \in [{0, 1} -> [row : PixelRows \cup {NoRow}, colors : RowColors]]
  <2>1. PICK begun : begun = [pixels[0] EXCEPT !.row = r]
    OBVIOUS
  <2>2. PICK new : new = [begun EXCEPT !.colors = NoPixels]
    OBVIOUS
  <2>3. /\ begun \in [row : PixelRows \cup {NoRow}, colors : RowColors] /\ begun.row = r
        /\ new \in [row : PixelRows \cup {NoRow}, colors : RowColors] /\ new.row = r
        /\ new.colors = NoPixels
    BY <1>5, <1>7, <2>1, <2>2, NoColors
  <2>4. pixels' = [[pixels EXCEPT ![1] = pixels[0]] EXCEPT ![0] = new]
    BY <1>6, <1>7, <2>1, <2>2 DEF GsuTypes
  <2> QED
    BY <1>7, <2>3, <2>4 DEF GsuTypes
<1>9. Pending(pixels[0])' = {} /\ pixels'[0].row = r
  BY <1>8, NoColors DEF Pending
<1>10. AwaitsInv'
  <2>1. Follows(awaits[1], awaits'[1]) => Prepared(awaits[1])'
    <3> SUFFICES ASSUME Follows(awaits[1], awaits'[1]) PROVE Prepared(awaits[1])'
      OBVIOUS
    <3>1. awaits'[1].op \notin {"fetch", "rom", "shift", "readPixel"} /\ awaits'[1] # Flush(0)
      BY <1>5 DEF Follows, Flush, Shift
    <3>2. awaits'[1].op = "put" => awaits'[1].row = r
      BY <1>5 DEF Follows, Shift
    <3> QED
      BY <1>9, <3>1, <3>2 DEF Prepared
  <2> QED
    BY <1>2, <1>3, <2>1, OnToNext
<1>11. GsuTypes'
  BY <1>2, <1>6, <1>8, NoWaitTypes DEF GsuInv, GsuTypes, memories
<1>12. PixelInv'
  <2>1. \A l \in Pending(pixels[0])' : pixels'[0].colors[l]
    BY <1>9
  <2>2. ASSUME NEW q \in PixelRows, NEW l \in Lanes
        PROVE  (IF pixels[0].row = q /\ l \in Pending(pixels[0]) THEN pixels[0].colors[l]
                ELSE IF pixels[1].row = q /\ l \in Pending(pixels[1]) THEN pixels[1].colors[l]
                ELSE bitmap[q][l])'
    <3>1. IF pixels[0].row = q /\ l \in Pending(pixels[0]) THEN pixels[0].colors[l]
          ELSE IF pixels[1].row = q /\ l \in Pending(pixels[1]) THEN pixels[1].colors[l]
          ELSE bitmap[q][l]
      BY DEF GsuInv, PixelInv, PixelsKept
    <3> QED
      BY <1>5, <1>6, <1>8, <1>9, <3>1 DEF Pending, memories
  <2> QED
    BY <2>1, <2>2 DEF PixelInv, PixelsKept
<1>13. BufferInv' /\ RomInv' /\ got'
  BY <1>2, <1>6, BufferRest, RomRest DEF GsuInv, memories
<1> QED
  BY <1>10, <1>11, <1>12, <1>13 DEF GsuInv

LEMMA PutKeeps == GsuInv /\ PutPixel => GsuInv'
<1> SUFFICES ASSUME GsuInv, PutPixel PROVE GsuInv'
  OBVIOUS
<1> DEFINE step == Head(awaits)
           full == Pending(pixels[0]) \cup {step.lane}
<1>1. PICK more : more = IF full = Lanes THEN <<Flush(1), Shift(step.row)>> ELSE <<>>
  OBVIOUS
<1>2. Proceed("put", more)
  BY <1>1 DEF PutPixel
<1>3. /\ awaits # <<>> /\ step.op = "put" /\ wait' = NoWait /\ ~wait'.on
      /\ UNCHANGED <<gsuProgram, granted>>
  BY <1>2, Resuming
<1>4. /\ awaits' = more \o Tail(awaits) /\ step = awaits[1] /\ step \in Awaits
      /\ Prepared(awaits[1])
  BY <1>2, <1>3, InTurn DEF Proceed
<1>5. PICK r, lane : r = step.row /\ lane = step.lane
  OBVIOUS
<1>6. PICK new, old :
        /\ new = [l \in Pending(pixels[0]) \cup {lane} |-> l = lane \/ pixels[0].colors[l]]
        /\ old = [l \in Pending(pixels[1]) |->
                    pixels[1].colors[l] /\ ~(l = lane /\ pixels[1].row = r)]
  OBVIOUS
<1>7. /\ pixels' = [pixels EXCEPT ![0].colors = new, ![1].colors = old]
      /\ bitmap' = [bitmap EXCEPT ![r][lane] = FALSE]
      /\ UNCHANGED <<go, r14, written, romRead, store, ram, got>>
  BY <1>5, <1>6 DEF PutPixel
<1>8. r \in PixelRows /\ lane \in Lanes /\ pixels[0].row = r
  BY <1>3, <1>4, <1>5, StepTypes DEF Prepared
<1>9. /\ GsuTypes
      /\ pixels[0] \in [row : PixelRows \cup {NoRow}, colors : RowColors]
      /\ pixels[1] \in [row : PixelRows \cup {NoRow}, colors : RowColors]
      /\ Pending(pixels[0]) \subseteq Lanes /\ Pending(pixels[1]) \subseteq Lanes
      /\ \A l \in Pending(pixels[1]) : pixels[1].colors[l] \in BOOLEAN
  BY ColorTypes DEF GsuInv
<1>10. /\ DOMAIN new = Pending(pixels[0]) \cup {lane} /\ DOMAIN old = Pending(pixels[1])
       /\ \A l \in DOMAIN new : new[l] = TRUE
       /\ \A l \in DOMAIN old :
            old[l] = (pixels[1].colors[l] /\ ~(l = lane /\ pixels[1].row = r))
  <2>1. \A l \in Pending(pixels[0]) : pixels[0].colors[l]
    BY DEF GsuInv, PixelInv
  <2> QED
    BY <1>6, <2>1
<1>11. new \in RowColors /\ old \in RowColors
  <2>1. /\ new \in [Pending(pixels[0]) \cup {lane} -> BOOLEAN]
        /\ old \in [Pending(pixels[1]) -> BOOLEAN]
    BY <1>6
  <2>2. Pending(pixels[0]) \cup {lane} \in SUBSET Lanes /\ Pending(pixels[1]) \in SUBSET Lanes
    BY <1>8, <1>9
  <2> QED
    BY <2>1, <2>2 DEF RowColors
<1>12. /\ pixels'[0].row = r /\ pixels'[0].colors = new
       /\ pixels'[1].row = pixels[1].row /\ pixels'[1].colors = old
       /\ pixels' \in [{0, 1} -> [row : PixelRows \cup {NoRow}, colors : RowColors]]
  <2>1. PICK newer, older : /\ newer = [pixels[0] EXCEPT !.colors = new]
                            /\ older = [pixels[1] EXCEPT !.colors = old]
    OBVIOUS
  <2>2. /\ newer.row = r /\ newer.colors = new /\ older.row = pixels[1].row /\ older.colors = old
        /\ newer \in [row : PixelRows \cup {NoRow}, colors : RowColors]
        /\ older \in [row : PixelRows \cup {NoRow}, colors : RowColors]
    BY <1>8, <1>9, <1>11, <2>1
  <2>3. pixels' = [[pixels EXCEPT ![0] = newer] EXCEPT ![1] = older]
    BY <1>7, <1>9, <2>1 DEF GsuTypes
  <2> QED
    BY <1>9, <2>2, <2>3 DEF GsuTypes
<1>13. AwaitsInv'
  <2>1. CASE full = Lanes
    <3>1. more = <<Flush(1), Shift(r)>>
      BY <1>1, <1>5, <2>1
    <3>2. /\ Flush(1) \in Awaits /\ Shift(r) \in Awaits /\ Free(Flush(1))
          /\ Follows(Flush(1), Shift(r))
      BY <1>8, ShiftSteps
    <3>3. more \in Seq(Awaits) /\ Ordered(more) /\ more # <<>> /\ Free(more[1])
      BY <3>1, <3>2, TwoOrdered
    <3>4. Prepared(more[1])'
      BY <3>3, FreePrepared
    <3>5. /\ awaits # <<>> /\ Head(awaits).op \in {"plot", "put"}
          /\ awaits' = more \o Tail(awaits)
      BY <1>3, <1>4
    <3> QED
      BY <3>3, <3>4, <3>5, OnToMore
  <2>2. CASE full # Lanes
    <3>1. more = <<>>
      BY <1>1, <2>2
    <3> QED
      BY <1>3, <1>4, <3>1, OnToFree
  <2> QED
    BY <2>1, <2>2
<1>14. GsuTypes'
  <2>1. bitmap' \in [PixelRows -> [Lanes -> BOOLEAN]]
    BY <1>7, <1>8, <1>9 DEF GsuTypes
  <2> QED
    BY <1>3, <1>7, <1>12, <2>1, NoWaitTypes DEF GsuInv, GsuTypes
<1>15. PixelInv'
  <2>1. \A l \in Pending(pixels[0])' : pixels'[0].colors[l]
    BY <1>10, <1>12 DEF Pending
  <2>2. ASSUME NEW q \in PixelRows, NEW l \in Lanes
        PROVE  (IF pixels[0].row = q /\ l \in Pending(pixels[0]) THEN pixels[0].colors[l]
                ELSE IF pixels[1].row = q /\ l \in Pending(pixels[1]) THEN pixels[1].colors[l]
                ELSE bitmap[q][l])'
    <3>1. IF pixels[0].row = q /\ l \in Pending(pixels[0]) THEN pixels[0].colors[l]
          ELSE IF pixels[1].row = q /\ l \in Pending(pixels[1]) THEN pixels[1].colors[l]
          ELSE bitmap[q][l]
      BY DEF GsuInv, PixelInv, PixelsKept
    <3>2. CASE q = r /\ l \in Pending(pixels[0]) \cup {lane}
      BY <1>10, <1>12, <3>2 DEF Pending
    <3>3. CASE ~(q = r /\ l \in Pending(pixels[0]) \cup {lane})
      <4>1. bitmap'[q][l] = bitmap[q][l]
        BY <1>7, <1>8, <1>9, <3>3 DEF GsuTypes
      <4>2. IF pixels[1].row = q /\ l \in Pending(pixels[1]) THEN pixels[1].colors[l]
            ELSE bitmap[q][l]
        BY <1>8, <3>1, <3>3
      <4>3. CASE pixels[1].row = q /\ l \in Pending(pixels[1])
        <5>1. pixels[1].colors[l] /\ ~(l = lane /\ pixels[1].row = r)
          BY <3>3, <4>2, <4>3
        <5>2. old[l] = TRUE
          BY <1>9, <1>10, <4>3, <5>1
        <5> QED
          BY <1>8, <1>10, <1>12, <3>3, <4>3, <5>2 DEF Pending
      <4>4. CASE ~(pixels[1].row = q /\ l \in Pending(pixels[1]))
        <5>1. bitmap'[q][l]
          BY <4>1, <4>2, <4>4
        <5> QED
          BY <1>8, <1>10, <1>12, <3>3, <4>4, <5>1 DEF Pending
      <4> QED
        BY <4>3, <4>4
    <3> QED
      BY <3>2, <3>3
  <2> QED
    BY <2>1, <2>2 DEF PixelInv, PixelsKept
<1>16. BufferInv' /\ RomInv' /\ got'
  BY <1>3, <1>7, BufferRest, RomRest DEF GsuInv
<1> QED
  BY <1>13, <1>14, <1>15, <1>16 DEF GsuInv

LEMMA GsuStep == GsuInv /\ [GsuNext]_gsuVars => GsuInv'
<1> SUFFICES ASSUME GsuInv, [GsuNext]_gsuVars PROVE GsuInv'
  OBVIOUS
<1>1. CASE Gsu
  BY <1>1, Decoding, Suspending, AwaitedKeeps, ReadRamKeeps, WriteRamKeeps, ReadRomKeeps,
     ChangeR14Keeps, StopKeeps, EndKeeps, WriteBackKeeps, PlotKeeps, ShiftKeeps, PutKeeps,
     ReadPictureKeeps DEF Gsu
<1>2. CASE GsuClock
  BY <1>2, Clocked
<1>3. CASE Cpu
  BY <1>3, CpuActs
<1>4. CASE UNCHANGED gsuVars
  <2>1. UNCHANGED <<gsuProgram, go, granted, awaits, wait, r14, written, romRead, store, pixels,
                    ram, bitmap, got>>
    BY <1>4 DEF gsuVars, gsuChip, memories
  <2>2. GsuTypes'
    BY <2>1 DEF GsuInv, GsuTypes
  <2>3. AwaitsInv'
    BY <2>1, AwaitsRest DEF GsuInv, AwaitsInv
  <2>4. BufferInv' /\ RomInv' /\ PixelInv' /\ got'
    BY <2>1, PixelRest DEF GsuInv, BufferInv, RomInv
  <2> QED
    BY <2>2, <2>3, <2>4 DEF GsuInv
<1> QED
  BY <1>1, <1>2, <1>3, <1>4 DEF GsuNext

\* Whatever the GSU's program and whenever the CPU takes a port away, stops the chip or
\* uses its memory, loads, pixel reads and ROM bytes return the newest data, and no pixel is
\* lost on its way through the two rows; for any bitmap and any costs of an access.
THEOREM MemoryStaysInOrder == GsuSpec => []MemoryInOrder
<1>1. GsuInv => MemoryInOrder
  BY DEF GsuInv, PixelInv, MemoryInOrder, ReadsInOrder
<1> QED
  BY <1>1, GsuStart, GsuStep, PTL DEF GsuSpec

-----------------------------------------------------------------------------
(***************************************************************************)
(* The echo.                                                               *)
(***************************************************************************)
\* The frame of the ring that was k samples ago, and where the ring begins.
Ago(k) == IF k <= ring.offset THEN ring.offset - k ELSE ring.offset - k + Sweep

Base(page) == page * PageFrames

EchoTypes ==
  /\ clock \in {22, 23, 24, 25, 28, 29, 30, 31}
  /\ esa \in Pages /\ edl \in Delays /\ disabled \in BOOLEAN
  /\ latch \in [page : Pages, disabled : BOOLEAN, address : Addresses]
  /\ ring \in [offset : Nat, length : 0 .. MaxLength] /\ ring.offset < Sweep
  /\ index \in 0 .. Taps - 1 /\ number \in 0 .. SampleNumbers - 1
  /\ hist \in [0 .. SampleNumbers - 1 -> [Channels -> Int]]
  /\ age \in [Addresses -> 0 .. NeverWritten] /\ steady \in 0 .. NeverWritten

\* How many samples before this one a slot of the history is.
Turned(j) == (index + Taps - j) % Taps

Behind(c, j) ==
  IF clock = 22 THEN Turned(j) + 1
  ELSE IF clock = 23 /\ c = 1 /\ Turned(j) = 0 THEN Taps
  ELSE Turned(j)

Sample(behind) == {None, (number + SampleNumbers - behind) % SampleNumbers}

HistInv ==
  \A c \in Channels :
    /\ \A j \in 0 .. Taps - 1 :
         hist[j + Taps][c] = hist[j][c] /\ hist[j][c] \in Sample(Behind(c, j))
    /\ clock \in {24, 25} \/ (clock = 23 /\ c = 0) => hist[index][c] = number

\* The taps that have been used.
Filtered ==
  CASE clock = 22 -> {}
    [] clock = 23 -> {0}
    [] clock = 24 -> 0 .. 2
    [] clock = 25 -> 0 .. 5
    [] OTHER -> 0 .. Taps - 1

UsedInv ==
  clock <= 28 =>
    \A c \in Channels :
      /\ DOMAIN used[c] = Filtered
      /\ \A t \in Filtered : used[c][t] \in Sample(Taps - 1 - t)
      /\ clock = 28 => used[c][Taps - 1] = number

AddressInv ==
  /\ clock \in 23 .. 29 => latch.address = Base(latch.page) + ring.offset
  /\ steady > 0 /\ clock = 30 => latch.address = Base(latch.page) + Ago(1)
  /\ steady > 0 /\ clock \in {29, 30} => latch.disabled = disabled

\* After clock 29 this sample's frame is written.
Turn == IF clock \in {30, 31} THEN 1 ELSE 0

SweptInv ==
  ~disabled =>
    \A k \in 1 .. Sweep : k < steady + Turn => age[Base(latch.page) + Ago(k)] = k - Turn

EchoInv == EchoTypes /\ HistInv /\ UsedInv /\ AddressInv /\ SweptInv

-----------------------------------------------------------------------------
\* The sizes.
LEMMA EchoSizes ==
  /\ MaxLength \in Nat /\ NeverWritten \in Nat /\ NeverWritten = MaxLength + 2
  /\ \A delay \in Delays : delay * DelayFrames \in 0 .. MaxLength
  /\ \A page \in Pages : Base(page) \in Nat
  /\ \A page \in Pages, x \in 0 .. MaxLength : Base(page) + x \in Addresses
<1>1. MaxOf(Pages) \in Pages /\ \A n \in Pages : n <= MaxOf(Pages)
  BY DspEchoAssumption DEF MaxOf, HasLargest
<1>2. MaxOf(Delays) \in Delays /\ \A n \in Delays : n <= MaxOf(Delays)
  BY DspEchoAssumption DEF MaxOf, HasLargest
<1>3. PageFrames \in Nat /\ DelayFrames \in Nat /\ Pages \subseteq Nat /\ Delays \subseteq Nat
  BY DspEchoAssumption
<1>4. \A m, n, f \in Nat : m <= n => m * f \in Nat /\ m * f <= n * f
  <2> SUFFICES ASSUME NEW m \in Nat, NEW n \in Nat, NEW f \in Nat, m <= n
               PROVE  m * f \in Nat /\ m * f <= n * f
    OBVIOUS
  <2>1. (n - m) * f >= 0 /\ (n - m) * f = n * f - m * f
    OBVIOUS
  <2>2. m * f \in Nat /\ n * f \in Nat
    OBVIOUS
  <2> QED
    BY <2>1, <2>2
<1>5. MaxLength \in Nat /\ NeverWritten \in Nat /\ NeverWritten = MaxLength + 2
  <2>1. MaxOf(Delays) * DelayFrames \in Nat
    BY <1>2, <1>3, <1>4
  <2> QED
    BY <2>1 DEF MaxLength, NeverWritten
<1>6. \A delay \in Delays : delay * DelayFrames \in 0 .. MaxLength
  <2> TAKE delay \in Delays
  <2>1. delay * DelayFrames \in Nat /\ delay * DelayFrames <= MaxOf(Delays) * DelayFrames
    BY <1>2, <1>3, <1>4
  <2> QED
    BY <2>1, <1>5 DEF MaxLength
<1>7. ASSUME NEW page \in Pages
      PROVE  Base(page) \in Nat /\ Base(page) <= MaxOf(Pages) * PageFrames
  BY <1>1, <1>3, <1>4 DEF Base
<1>8. ASSUME NEW page \in Pages, NEW x \in 0 .. MaxLength
      PROVE  Base(page) + x \in Addresses
  <2>1. MaxOf(Pages) * PageFrames \in Nat
    BY <1>1, <1>3, <1>4
  <2> QED
    BY <1>5, <1>7, <2>1 DEF Addresses
<1> QED
  BY <1>5, <1>6, <1>7, <1>8

\* A frame of the ring is one of the memory's.
LEMMA AgoBounds ==
  ASSUME EchoTypes
  PROVE  /\ Sweep \in Nat /\ Sweep > 0 /\ Sweep <= MaxLength + 1 /\ ring.offset \in 0 .. MaxLength
         /\ \A k \in 1 .. Sweep : Ago(k) \in 0 .. MaxLength /\ Ago(k) < Sweep
<1>1. ring.length \in 0 .. MaxLength /\ ring.offset \in Nat /\ ring.offset < Sweep
  BY DEF EchoTypes
<1>2. MaxLength \in Nat
  BY EchoSizes
<1>3. Sweep \in Nat /\ Sweep > 0 /\ Sweep <= MaxLength + 1
  BY <1>1, <1>2 DEF Sweep
<1> QED
  BY <1>1, <1>2, <1>3 DEF Ago

\* What a sample read into both halves of the history changes.
LEMMA ReadIntoIs ==
  ASSUME NEW i \in 0 .. Taps - 1, NEW ch \in Channels, EchoTypes, hist' = ReadInto(hist, i, ch)
  PROVE  /\ hist' \in [0 .. SampleNumbers - 1 -> [Channels -> Int]]
         /\ hist'[i][ch] = number /\ hist'[i + Taps][ch] = number
         /\ \A j \in 0 .. Taps - 1, c \in Channels :
              j # i \/ c # ch => hist'[j][c] = hist[j][c] /\ hist'[j + Taps][c] = hist[j + Taps][c]
<1>1. PICK first : first = [hist EXCEPT ![i] = [hist[i] EXCEPT ![ch] = number]]
  OBVIOUS
<1>2. /\ i \in 0 .. SampleNumbers - 1 /\ i + Taps \in 0 .. SampleNumbers - 1
      /\ \A j \in 0 .. Taps - 1 : /\ j \in 0 .. SampleNumbers - 1
                                 /\ j + Taps \in 0 .. SampleNumbers - 1
                                 /\ j # i + Taps /\ j + Taps # i /\ (j + Taps = i + Taps <=> j = i)
  BY DEF SampleNumbers, Taps
<1>3. number \in Int /\ hist \in [0 .. SampleNumbers - 1 -> [Channels -> Int]]
  BY DEF EchoTypes, SampleNumbers, Taps
<1>4. [hist[i] EXCEPT ![ch] = number] \in [Channels -> Int]
  BY <1>2, <1>3
<1>5. /\ first \in [0 .. SampleNumbers - 1 -> [Channels -> Int]]
      /\ first[i] = [hist[i] EXCEPT ![ch] = number]
      /\ \A j \in 0 .. SampleNumbers - 1 : j # i => first[j] = hist[j]
  BY <1>1, <1>2, <1>3, <1>4
<1>6. hist' = [first EXCEPT ![i + Taps] = [first[i + Taps] EXCEPT ![ch] = number]]
  BY <1>1 DEF ReadInto
<1>7. [first[i + Taps] EXCEPT ![ch] = number] \in [Channels -> Int]
  BY <1>2, <1>3, <1>5
<1>8. /\ hist' \in [0 .. SampleNumbers - 1 -> [Channels -> Int]]
      /\ hist'[i + Taps] = [first[i + Taps] EXCEPT ![ch] = number]
      /\ \A j \in 0 .. SampleNumbers - 1 : j # i + Taps => hist'[j] = first[j]
  BY <1>2, <1>5, <1>6, <1>7
<1>9. hist'[i][ch] = number /\ hist'[i + Taps][ch] = number
  BY <1>2, <1>3, <1>5, <1>8
<1>10. ASSUME NEW j \in 0 .. Taps - 1, NEW c \in Channels, j # i \/ c # ch
       PROVE  hist'[j][c] = hist[j][c] /\ hist'[j + Taps][c] = hist[j + Taps][c]
  <2>1. CASE j # i
    BY <1>2, <1>5, <1>8, <2>1
  <2>2. CASE j = i /\ c # ch
    <3>1. hist'[i][c] = hist[i][c]
      <4>1. hist'[i] = first[i] /\ hist[i] \in [Channels -> Int]
        BY <1>2, <1>3, <1>8
      <4> QED
        BY <1>5, <2>2, <4>1
    <3>2. first[i + Taps] = hist[i + Taps] /\ i + Taps \in 0 .. SampleNumbers - 1
      BY <1>2, <1>5
    <3>3. hist'[i + Taps][c] = hist[i + Taps][c]
      BY <1>3, <1>8, <2>2, <3>2
    <3> QED
      BY <2>2, <3>1, <3>3
  <2> QED
    BY <1>10, <2>1, <2>2
<1> QED
  BY <1>8, <1>9, <1>10

\* How many samples before another a slot is.
Since(i, j) == IF j <= i THEN i - j ELSE i + Taps - j

LEMMA TurnedIs == ASSUME NEW i \in 0 .. Taps - 1, NEW j \in 0 .. Taps - 1
                  PROVE  (i + Taps - j) % Taps = Since(i, j)
  BY DEF Taps, Since

LEMMA NumberIs == ASSUME NEW n \in 0 .. SampleNumbers - 1, NEW d \in 0 .. Taps
                  PROVE  (n + SampleNumbers - d) % SampleNumbers
                           = IF d <= n THEN n - d ELSE n + SampleNumbers - d
  BY DEF SampleNumbers, Taps

\* Every tap but the last has the slot its place says.
LEMMA TapIs ==
  ASSUME NEW h, NEW i \in 0 .. Taps - 1, NEW c, NEW t \in 0 .. Taps - 2,
         \A j \in 0 .. Taps - 1 : h[j + Taps][c] = h[j][c],
         \A j \in 0 .. Taps - 1 : j # i => h[j][c] \in Sample(Since(i, j))
  PROVE  h[Slot(i, t)][c] \in Sample(Taps - 1 - t)
<1>1. CASE i + t + 1 <= Taps - 1
  <2>1. i + t + 1 \in 0 .. Taps - 1 /\ i + t + 1 # i
    BY <1>1 DEF Taps
  <2>2. Since(i, i + t + 1) = Taps - 1 - t
    BY <2>1 DEF Since, Taps
  <2> QED
    BY <2>1, <2>2 DEF Slot
<1>2. CASE i + t + 1 > Taps - 1
  <2> DEFINE j == i + t + 1 - Taps
  <2>1. j \in 0 .. Taps - 1 /\ j # i /\ j + Taps = i + t + 1
    BY <1>2 DEF Taps
  <2>2. Since(i, j) = Taps - 1 - t
    BY <2>1 DEF Since, Taps
  <2> HIDE DEF j
  <2>3. h[j][c] \in Sample(Taps - 1 - t) /\ h[j + Taps][c] = h[j][c]
    BY <2>1, <2>2
  <2> QED
    BY <2>1, <2>3 DEF Slot
<1> QED
  BY <1>1, <1>2 DEF Taps

-----------------------------------------------------------------------------
\* What a step that leaves them alone keeps.
LEMMA SweptKept ==
  ASSUME SweptInv, UNCHANGED <<ring, age, steady, disabled>>, latch'.page = latch.page, Turn' = Turn
  PROVE  SweptInv'
BY DEF SweptInv, Ago, Sweep, Base

LEMMA HistKept ==
  ASSUME HistInv, UNCHANGED <<hist, index, number>>,
         \/ clock' = clock
         \/ clock \in 24 .. 30 /\ clock' \in 25 .. 31 /\ (clock' = 25 => clock = 24)
  PROVE  HistInv'
<1>1. CASE clock' = clock
  BY <1>1 DEF HistInv, Behind, Turned, Sample
<1>2. CASE clock \in 24 .. 30 /\ clock' \in 25 .. 31 /\ (clock' = 25 => clock = 24)
  <2>1. clock' # 22 /\ clock' # 23 /\ clock # 22 /\ clock # 23 /\ (clock' = 24 => FALSE)
    BY <1>2
  <2> QED
    BY <1>2, <2>1 DEF HistInv, Behind, Turned, Sample
<1> QED
  BY <1>1, <1>2

LEMMA AddressKept ==
  ASSUME AddressInv, UNCHANGED <<ring, steady, disabled, latch>>, clock' = clock
  PROVE  AddressInv'
BY DEF AddressInv, Ago, Sweep, Base

LEMMA EchoInvInit == EchoInit => EchoInv
<1> SUFFICES ASSUME EchoInit PROVE EchoInv
  OBVIOUS
<1>1. MaxLength \in Nat /\ NeverWritten \in Nat
  BY EchoSizes
<1>2. EchoTypes
  <2>1. latch \in [page : Pages, disabled : BOOLEAN, address : Addresses]
    <3>1. 0 \in Addresses
      <4>1. 0 \in Pages /\ Base(0) = 0
        BY DspEchoAssumption DEF Base
      <4>2. Base(0) + 0 \in Addresses
        BY <1>1, <4>1, EchoSizes
      <4> QED
        BY <4>1, <4>2
    <3> QED
      BY <3>1, DspEchoAssumption DEF EchoInit
  <2>2. ring \in [offset : Nat, length : 0 .. MaxLength] /\ ring.offset < Sweep
    BY <1>1 DEF EchoInit, Sweep
  <2>3. hist \in [0 .. SampleNumbers - 1 -> [Channels -> Int]]
    BY DEF EchoInit, None
  <2>4. age \in [Addresses -> 0 .. NeverWritten] /\ steady \in 0 .. NeverWritten
    BY <1>1 DEF EchoInit
  <2>5. index \in 0 .. Taps - 1 /\ number \in 0 .. SampleNumbers - 1
    BY DEF EchoInit, Taps, SampleNumbers
  <2> QED
    BY <2>1, <2>2, <2>3, <2>4, <2>5, DspEchoAssumption DEF EchoInit, EchoTypes
<1>3. HistInv
  <2>1. ASSUME NEW c \in Channels, NEW j \in 0 .. Taps - 1
        PROVE  hist[j + Taps][c] = None /\ hist[j][c] = None
    BY DEF EchoInit, SampleNumbers, Taps
  <2>2. ASSUME NEW c \in Channels, NEW j \in 0 .. Taps - 1
        PROVE  hist[j + Taps][c] = hist[j][c] /\ hist[j][c] \in Sample(Behind(c, j))
    BY <2>1 DEF Sample
  <2>3. clock = 31
    BY DEF EchoInit
  <2> QED
    BY <2>2, <2>3 DEF HistInv
<1>4. UsedInv /\ AddressInv
  BY DEF UsedInv, AddressInv, EchoInit
<1>5. SweptInv
  BY DEF SweptInv, EchoInit
<1> QED
  BY <1>2, <1>3, <1>4, <1>5 DEF EchoInv

-----------------------------------------------------------------------------
\* The clocks of the filter.
LEMMA Clock22Keeps == EchoInv /\ Clock22 => EchoInv'
<1> SUFFICES ASSUME EchoInv, Clock22 PROVE EchoInv'
  OBVIOUS
<1> USE DEF EchoInv
<1>1. /\ clock = 22 /\ clock' = 23 /\ index' = (index + 1) % Taps
      /\ hist' = ReadInto(hist, index', 0) /\ used' = With(used, hist', index', {0})
      /\ latch' = [latch EXCEPT !.address = latch.page * PageFrames + ring.offset]
      /\ UNCHANGED <<esa, edl, disabled, ring, number, age, steady>>
  BY DEF Clock22, Filter, Registers
<1>2. index \in 0 .. Taps - 1 /\ number \in 0 .. SampleNumbers - 1 /\ number \in Int
  BY DEF EchoTypes, SampleNumbers, Taps
<1>3. index' \in 0 .. Taps - 1 /\ index' = IF index = Taps - 1 THEN 0 ELSE index + 1
  BY <1>1, <1>2 DEF Taps
<1>4. /\ hist' \in [0 .. SampleNumbers - 1 -> [Channels -> Int]]
      /\ hist'[index'][0] = number /\ hist'[index' + Taps][0] = number
      /\ \A j \in 0 .. Taps - 1, c \in Channels :
           j # index' \/ c # 0 =>
             hist'[j][c] = hist[j][c] /\ hist'[j + Taps][c] = hist[j + Taps][c]
  <2>1. PICK i, ch : i = index' /\ ch = 0
    OBVIOUS
  <2>2. i \in 0 .. Taps - 1 /\ ch \in Channels /\ EchoTypes /\ hist' = ReadInto(hist, i, ch)
    BY <1>1, <1>3, <2>1 DEF Channels
  <2>3. /\ hist' \in [0 .. SampleNumbers - 1 -> [Channels -> Int]]
        /\ hist'[i][ch] = number /\ hist'[i + Taps][ch] = number
        /\ \A j \in 0 .. Taps - 1, c \in Channels :
             j # i \/ c # ch =>
               hist'[j][c] = hist[j][c] /\ hist'[j + Taps][c] = hist[j + Taps][c]
    BY <2>2, ReadIntoIs
  <2> QED
    BY <2>1, <2>3
<1>5. EchoTypes'
  <2>1. Base(latch.page) + ring.offset \in Addresses
    BY EchoSizes, AgoBounds DEF EchoTypes
  <2>2. latch' \in [page : Pages, disabled : BOOLEAN, address : Addresses]
    BY <1>1, <2>1 DEF EchoTypes, Base
  <2> QED
    BY <1>1, <1>3, <1>4, <2>2 DEF EchoTypes, Sweep
<1>6. ASSUME NEW c \in Channels, NEW j \in 0 .. Taps - 1
      PROVE  /\ hist'[j + Taps][c] = hist'[j][c]
             /\ j # index' => hist'[j][c] \in Sample(Since(index', j))
             /\ hist'[j][c] \in Sample(Behind(c, j))'
             /\ c = 0 => hist'[index'][c] = number
  <2>1. c = 0 \/ c = 1
    BY DEF Channels
  <2>2. hist[j + Taps][c] = hist[j][c] /\ hist[j][c] \in Sample(Since(index, j) + 1)
    BY <1>1, <1>2, TurnedIs DEF HistInv, Behind, Turned
  <2>3. Turned(j)' = Since(index', j)
    BY <1>3, TurnedIs DEF Turned
  <2>4. j # index' => Since(index', j) = Since(index, j) + 1 /\ Since(index', j) # 0
    BY <1>2, <1>3 DEF Since, Taps
  <2>5. j = index' => Since(index', j) = 0 /\ Since(index, j) + 1 = Taps
    BY <1>2, <1>3 DEF Since, Taps
  <2>6. Behind(c, j)' = IF c = 1 /\ j = index' THEN Taps ELSE Since(index', j)
    BY <1>1, <2>3, <2>4, <2>5 DEF Behind
  <2>7. hist'[j + Taps][c] = hist'[j][c] /\ (c = 0 => hist'[index'][c] = number)
    BY <1>4, <2>1, <2>2
  <2>8. CASE j # index'
    <3>1. hist'[j][c] = hist[j][c]
      BY <1>4, <2>1, <2>8
    <3>2. hist'[j][c] \in Sample(Since(index', j))
      BY <2>2, <2>4, <2>8, <3>1
    <3> QED
      BY <1>1, <2>6, <2>7, <2>8, <3>2 DEF Sample
  <2>9. CASE j = index' /\ c = 0
    <3>1. hist'[j][c] = number /\ Behind(c, j)' = 0
      BY <1>4, <2>1, <2>5, <2>6, <2>9
    <3>2. (number + SampleNumbers - 0) % SampleNumbers = number
      BY <1>2 DEF SampleNumbers, Taps
    <3> QED
      BY <1>1, <2>7, <2>9, <3>1, <3>2 DEF Sample
  <2>10. CASE j = index' /\ c = 1
    <3>1. hist'[j][c] = hist[j][c] /\ Behind(c, j)' = Taps
      BY <1>4, <2>1, <2>6, <2>10
    <3> QED
      BY <1>1, <2>2, <2>5, <2>7, <2>10, <3>1 DEF Sample
  <2> QED
    BY <2>8, <2>9, <2>10 DEF Channels
<1>7. HistInv'
  BY <1>1, <1>3, <1>6 DEF HistInv
<1>8. UsedInv'
  <2>1. ASSUME NEW c \in Channels
        PROVE  DOMAIN used'[c] = {0} /\ used'[c][0] = hist'[Slot(index', 0)][c]
    BY <1>1 DEF With, UsedInv, Filtered
  <2>2. ASSUME NEW c \in Channels
        PROVE  hist'[Slot(index', 0)][c] \in Sample(Taps - 1 - 0)
    <3>1. PICK h, i : h = hist' /\ i = index'
      OBVIOUS
    <3>2. /\ i \in 0 .. Taps - 1 /\ 0 \in 0 .. Taps - 2
          /\ \A j \in 0 .. Taps - 1 : h[j + Taps][c] = h[j][c]
          /\ \A j \in 0 .. Taps - 1 : j # i => h[j][c] \in Sample(Since(i, j))
      BY <1>3, <1>6, <3>1 DEF Taps
    <3>3. h[Slot(i, 0)][c] \in Sample(Taps - 1 - 0)
      BY <3>2, TapIs
    <3> QED
      BY <3>1, <3>3
  <2> QED
    BY <1>1, <2>1, <2>2 DEF UsedInv, Filtered, Sample
<1>9. AddressInv' /\ SweptInv'
  <2>1. latch'.page = latch.page /\ Turn' = Turn /\ latch'.address = Base(latch.page) + ring.offset
    BY <1>1 DEF Turn, Base, EchoTypes
  <2> QED
    BY <1>1, <2>1, SweptKept DEF AddressInv
<1> QED
  BY <1>5, <1>7, <1>8, <1>9

\* Once the history has turned, the taps have the samples their places say.
LEMMA TapsHold ==
  ASSUME EchoTypes, HistInv, clock \in {23, 24, 25}, NEW c \in Channels
  PROVE  /\ \A t \in 0 .. Taps - 2 : hist[Slot(index, t)][c] \in Sample(Taps - 1 - t)
         /\ clock # 23 => hist[Slot(index, Taps - 1)][c] = number
<1>1. index \in 0 .. Taps - 1
  BY DEF EchoTypes
<1>2. ASSUME NEW j \in 0 .. Taps - 1
      PROVE  /\ hist[j + Taps][c] = hist[j][c]
             /\ j # index => hist[j][c] \in Sample(Since(index, j))
  <2>1. Turned(j) = Since(index, j) /\ (j # index => Since(index, j) # 0)
    <3>1. Turned(j) = Since(index, j)
      BY <1>1, TurnedIs DEF Turned
    <3>2. j # index => Since(index, j) # 0
      BY <1>1 DEF Since, Taps
    <3> QED
      BY <3>1, <3>2
  <2>2. j # index => Behind(c, j) = Since(index, j)
    BY <2>1 DEF Behind
  <2> QED
    BY <2>2 DEF HistInv
<1>3. ASSUME NEW t \in 0 .. Taps - 2
      PROVE  hist[Slot(index, t)][c] \in Sample(Taps - 1 - t)
  <2>1. PICK h, i : h = hist /\ i = index
    OBVIOUS
  <2>2. /\ i \in 0 .. Taps - 1
        /\ \A j \in 0 .. Taps - 1 : h[j + Taps][c] = h[j][c]
        /\ \A j \in 0 .. Taps - 1 : j # i => h[j][c] \in Sample(Since(i, j))
    BY <1>1, <1>2, <2>1
  <2>3. h[Slot(i, t)][c] \in Sample(Taps - 1 - t)
    BY <2>2, TapIs
  <2> QED
    BY <2>1, <2>3
<1>4. clock # 23 => hist[Slot(index, Taps - 1)][c] = number
  <2>1. Slot(index, Taps - 1) = index + Taps
    BY <1>1 DEF Slot, Taps
  <2> QED
    BY <1>1, <1>2, <2>1 DEF HistInv
<1> QED
  BY <1>3, <1>4

LEMMA UsedGrows ==
  ASSUME NEW taps, EchoTypes, HistInv, UsedInv, clock \in {23, 24, 25}, number' = number,
         used' = With(used, hist, index, taps), Filtered' = Filtered \cup taps,
         taps \subseteq 0 .. Taps - 1, Taps - 1 \in taps => clock # 23,
         clock' = 28 => Taps - 1 \in taps
  PROVE  UsedInv'
<1> SUFFICES ASSUME NEW c \in Channels
             PROVE  /\ DOMAIN used'[c] = Filtered'
                    /\ \A t \in Filtered' : used'[c][t] \in Sample(Taps - 1 - t)
                    /\ clock' = 28 => used'[c][Taps - 1] = number
  BY DEF UsedInv, Sample
<1>1. /\ DOMAIN used[c] = Filtered
      /\ \A t \in Filtered : used[c][t] \in Sample(Taps - 1 - t)
  BY DEF UsedInv
<1>2. used'[c] = [t \in DOMAIN used[c] \cup taps |->
                   IF t \in taps THEN hist[Slot(index, t)][c] ELSE used[c][t]]
  BY DEF With
<1>3. ASSUME NEW t \in taps
      PROVE  /\ hist[Slot(index, t)][c] \in Sample(Taps - 1 - t)
             /\ t = Taps - 1 => hist[Slot(index, t)][c] = number
  <2>1. CASE t = Taps - 1
    <3>1. hist[Slot(index, t)][c] = number
      BY <2>1, TapsHold
    <3>2. (number + SampleNumbers - (Taps - 1 - t)) % SampleNumbers = number
      <4>1. Taps - 1 - t = 0
        BY <2>1 DEF Taps
      <4>2. (number + SampleNumbers - 0) % SampleNumbers = number
        BY DEF EchoTypes, SampleNumbers, Taps
      <4> QED
        BY <4>1, <4>2
    <3> QED
      BY <3>1, <3>2 DEF Sample
  <2>2. CASE t # Taps - 1
    <3>1. t \in 0 .. Taps - 2
      BY <2>2 DEF Taps
    <3> QED
      BY <2>2, <3>1, TapsHold
  <2> QED
    BY <2>1, <2>2
<1>4. DOMAIN used'[c] = Filtered'
  BY <1>1, <1>2
<1>5. ASSUME NEW t \in Filtered'
      PROVE  used'[c][t] \in Sample(Taps - 1 - t)
  BY <1>1, <1>2, <1>3, <1>5
<1>6. clock' = 28 => used'[c][Taps - 1] = number
  BY <1>1, <1>2, <1>3
<1> QED
  BY <1>4, <1>5, <1>6

LEMMA Clock23Keeps == EchoInv /\ Clock23 => EchoInv'
<1> SUFFICES ASSUME EchoInv, Clock23 PROVE EchoInv'
  OBVIOUS
<1> USE DEF EchoInv
<1>1. /\ clock = 23 /\ clock' = 24 /\ used' = With(used, hist, index, {1, 2})
      /\ hist' = ReadInto(hist, index, 1)
      /\ UNCHANGED <<esa, edl, disabled, ring, latch, index, number, age, steady>>
  BY DEF Clock23, Registers, RightRead
<1>2. index \in 0 .. Taps - 1 /\ number \in 0 .. SampleNumbers - 1
  BY DEF EchoTypes
<1>3. /\ hist' \in [0 .. SampleNumbers - 1 -> [Channels -> Int]]
      /\ hist'[index][1] = number /\ hist'[index + Taps][1] = number
      /\ \A j \in 0 .. Taps - 1, c \in Channels :
           j # index \/ c # 1 =>
             hist'[j][c] = hist[j][c] /\ hist'[j + Taps][c] = hist[j + Taps][c]
  <2>1. PICK i, ch : i = index /\ ch = 1
    OBVIOUS
  <2>2. i \in 0 .. Taps - 1 /\ ch \in Channels /\ EchoTypes /\ hist' = ReadInto(hist, i, ch)
    BY <1>1, <1>2, <2>1 DEF Channels
  <2> QED
    BY <2>1, <2>2, ReadIntoIs
<1>4. EchoTypes'
  BY <1>1, <1>3 DEF EchoTypes, Sweep
<1>5. ASSUME NEW c \in Channels, NEW j \in 0 .. Taps - 1
      PROVE  /\ hist'[j + Taps][c] = hist'[j][c] /\ hist'[j][c] \in Sample(Behind(c, j))'
             /\ hist'[index][c] = number
  <2>1. Turned(j)' = Turned(j) /\ (Turned(j) = 0 <=> j = index)
    <3>1. Turned(j) = Since(index, j)
      BY <1>2, TurnedIs DEF Turned
    <3>2. Since(index, j) = 0 <=> j = index
      BY <1>2 DEF Since, Taps
    <3> QED
      BY <1>1, <3>1, <3>2 DEF Turned
  <2>2. Behind(c, j)' = Turned(j)
    BY <1>1, <2>1 DEF Behind
  <2>3. hist[j + Taps][c] = hist[j][c] /\ hist[j][c] \in Sample(Behind(c, j))
    BY DEF HistInv
  <2>4. c = 0 \/ c = 1
    BY DEF Channels
  <2>5. hist'[index][c] = number
    <3>1. c = 0 => hist[index][c] = number
      BY <1>1 DEF HistInv
    <3> QED
      BY <1>2, <1>3, <2>4, <3>1
  <2>6. CASE j = index /\ c = 1
    <3>1. (number + SampleNumbers - 0) % SampleNumbers = number
      BY <1>2 DEF SampleNumbers, Taps
    <3>2. hist'[j][c] = number /\ hist'[j + Taps][c] = number /\ Behind(c, j)' = 0
      BY <1>3, <2>1, <2>2, <2>6
    <3> QED
      BY <1>1, <2>5, <3>1, <3>2 DEF Sample
  <2>7. CASE j # index \/ c # 1
    <3>1. Behind(c, j) = Turned(j)
      BY <1>1, <2>1, <2>7 DEF Behind
    <3>2. hist'[j][c] = hist[j][c] /\ hist'[j + Taps][c] = hist[j + Taps][c]
      BY <1>3, <2>7
    <3> QED
      BY <1>1, <2>2, <2>3, <2>5, <3>1, <3>2 DEF Sample
  <2> QED
    BY <2>6, <2>7
<1>6. HistInv'
  BY <1>1, <1>2, <1>5 DEF HistInv
<1>7. UsedInv'
  <2>1. Filtered = {0} /\ Filtered' = {0, 1, 2}
    BY <1>1 DEF Filtered
  <2>2. PICK taps : taps = {1, 2}
    OBVIOUS
  <2>3. Filtered' = Filtered \cup taps /\ taps \subseteq 0 .. Taps - 1 /\ Taps - 1 \notin taps
    BY <2>1, <2>2 DEF Taps
  <2>4. /\ used' = With(used, hist, index, taps) /\ number' = number
        /\ clock \in {23, 24, 25} /\ clock' # 28 /\ EchoTypes /\ HistInv /\ UsedInv
    BY <1>1, <2>2
  <2> QED
    BY <2>3, <2>4, UsedGrows
<1>8. AddressInv' /\ SweptInv'
  <2>1. latch'.page = latch.page /\ Turn' = Turn
    BY <1>1 DEF Turn
  <2> QED
    BY <1>1, <2>1, SweptKept DEF AddressInv, Base
<1> QED
  BY <1>4, <1>6, <1>7, <1>8

LEMMA Clock24Keeps == EchoInv /\ Clock24 => EchoInv'
<1> SUFFICES ASSUME EchoInv, Clock24 PROVE EchoInv'
  OBVIOUS
<1> USE DEF EchoInv
<1>1. /\ clock = 24 /\ clock' = 25 /\ used' = With(used, hist, index, {3, 4, 5})
      /\ UNCHANGED <<esa, edl, disabled, ring, latch, index, number, age, steady, hist>>
  BY DEF Clock24, Filter, Registers, With
<1>2. EchoTypes' /\ HistInv'
  BY <1>1, HistKept DEF EchoTypes, Sweep
<1>3. UsedInv'
  <2>1. Filtered = 0 .. 2 /\ Filtered' = 0 .. 5
    BY <1>1 DEF Filtered
  <2>2. /\ Filtered' = Filtered \cup {3, 4, 5} /\ {3, 4, 5} \subseteq 0 .. Taps - 1
        /\ Taps - 1 \notin {3, 4, 5}
    BY <2>1 DEF Taps
  <2> QED
    BY <1>1, <2>2, UsedGrows
<1>4. AddressInv' /\ SweptInv'
  <2>1. latch'.page = latch.page /\ Turn' = Turn
    BY <1>1 DEF Turn
  <2> QED
    BY <1>1, <2>1, SweptKept DEF AddressInv, Base
<1> QED
  BY <1>2, <1>3, <1>4

LEMMA Clock25Keeps == EchoInv /\ Clock25 => EchoInv'
<1> SUFFICES ASSUME EchoInv, Clock25 PROVE EchoInv'
  OBVIOUS
<1> USE DEF EchoInv
<1>1. /\ clock = 25 /\ clock' = 28 /\ used' = With(used, hist, index, {6, 7})
      /\ UNCHANGED <<esa, edl, disabled, ring, latch, index, number, age, steady, hist>>
  BY DEF Clock25, Filter, Registers, With
<1>2. EchoTypes' /\ HistInv'
  BY <1>1, HistKept DEF EchoTypes, Sweep
<1>3. UsedInv'
  <2>1. Filtered = 0 .. 5 /\ Filtered' = 0 .. Taps - 1
    BY <1>1 DEF Filtered
  <2>2. /\ Filtered' = Filtered \cup {6, 7} /\ {6, 7} \subseteq 0 .. Taps - 1
        /\ Taps - 1 \in {6, 7}
    BY <2>1 DEF Taps
  <2> QED
    BY <1>1, <2>2, UsedGrows
<1>4. AddressInv' /\ SweptInv'
  <2>1. latch'.page = latch.page /\ Turn' = Turn
    BY <1>1 DEF Turn
  <2> QED
    BY <1>1, <2>1, SweptKept DEF AddressInv, Base
<1> QED
  BY <1>2, <1>3, <1>4

-----------------------------------------------------------------------------
\* The clocks of the ring.
LEMMA Clock28Keeps == EchoInv /\ Clock28 => EchoInv'
<1> SUFFICES ASSUME EchoInv, Clock28 PROVE EchoInv'
  OBVIOUS
<1> USE DEF EchoInv
<1>1. /\ clock = 28 /\ clock' = 29 /\ latch' = [latch EXCEPT !.disabled = disabled]
      /\ UNCHANGED <<esa, edl, disabled, ring, index, number, age, steady, hist, used>>
  BY DEF Clock28, Registers
<1>2. /\ latch' \in [page : Pages, disabled : BOOLEAN, address : Addresses]
      /\ latch'.page = latch.page /\ latch'.address = latch.address /\ latch'.disabled = disabled
  BY <1>1 DEF EchoTypes
<1>3. EchoTypes' /\ HistInv' /\ UsedInv'
  <2>1. EchoTypes'
    BY <1>1, <1>2 DEF EchoTypes, Sweep
  <2>2. HistInv'
    BY <1>1, HistKept
  <2>3. UsedInv'
    BY <1>1 DEF UsedInv
  <2> QED
    BY <2>1, <2>2, <2>3
<1>4. AddressInv' /\ SweptInv'
  <2>1. Turn' = Turn
    BY <1>1 DEF Turn
  <2> QED
    BY <1>1, <1>2, <2>1, SweptKept DEF AddressInv, Base
<1> QED
  BY <1>3, <1>4

\* The frame of this sample becomes the one before, and those before it move back.
LEMMA RingMoves ==
  ASSUME EchoTypes, ring'.length = ring.length,
         ring'.offset = IF ring.offset + 1 >= ring.length THEN 0 ELSE ring.offset + 1
  PROVE  /\ Sweep' = Sweep /\ Ago(1)' = ring.offset
         /\ \A k \in 2 .. Sweep : /\ Ago(k)' = Ago(k - 1) /\ Ago(k - 1) # ring.offset
<1>1. Sweep \in Nat /\ Sweep > 0 /\ ring.offset \in Nat /\ ring.offset < Sweep
  BY AgoBounds, EchoSizes DEF EchoTypes
<1>2. Sweep' = Sweep
  BY DEF Sweep
<1>3. ring'.offset = IF ring.offset + 1 >= Sweep THEN 0 ELSE ring.offset + 1
  <2>1. ring.length \in Nat
    BY EchoSizes DEF EchoTypes
  <2>2. CASE ring.length = 0
    BY <1>1, <2>2 DEF Sweep
  <2>3. CASE ring.length # 0
    BY <2>3 DEF Sweep
  <2> QED
    BY <2>2, <2>3
<1>4. Ago(1)' = ring.offset
  BY <1>1, <1>2, <1>3 DEF Ago
<1>5. ASSUME NEW k \in 2 .. Sweep
      PROVE  Ago(k)' = Ago(k - 1) /\ Ago(k - 1) # ring.offset
  BY <1>1, <1>2, <1>3 DEF Ago
<1> QED
  BY <1>2, <1>4, <1>5

\* A write to the ring.
LEMMA Writes ==
  ASSUME EchoTypes, age' = WriteEcho(latch.address, latch.disabled)
  PROVE  /\ age' \in [Addresses -> 0 .. NeverWritten]
         /\ ~latch.disabled => age'[latch.address] = 0
         /\ \A f \in Addresses : f # latch.address => age'[f] = age[f]
<1>1. latch.address \in Addresses /\ age \in [Addresses -> 0 .. NeverWritten]
  BY DEF EchoTypes
<1>2. 0 \in 0 .. NeverWritten
  BY EchoSizes
<1>3. CASE latch.disabled
  BY <1>1, <1>3 DEF WriteEcho
<1>4. CASE ~latch.disabled
  BY <1>1, <1>2, <1>4 DEF WriteEcho
<1> QED
  BY <1>3, <1>4

LEMMA Clock29Keeps == EchoInv /\ Clock29 => EchoInv'
<1> SUFFICES ASSUME EchoInv, Clock29 PROVE EchoInv'
  OBVIOUS
<1> USE DEF EchoInv
<1>1. /\ clock = 29 /\ clock' = 30
      /\ ring' = [offset |-> IF ring.offset + 1 >= Length THEN 0 ELSE ring.offset + 1,
                  length |-> Length]
      /\ age' = WriteEcho(latch.address, latch.disabled)
      /\ latch' = [latch EXCEPT !.page = esa, !.disabled = disabled]
      /\ steady' = IF Length # ring.length \/ esa # latch.page THEN 0 ELSE steady
      /\ UNCHANGED <<esa, edl, disabled, index, hist, number, used>>
  BY DEF Clock29, Registers
<1>2. /\ latch' \in [page : Pages, disabled : BOOLEAN, address : Addresses]
      /\ latch'.page = esa /\ latch'.address = latch.address /\ latch'.disabled = disabled
  BY <1>1 DEF EchoTypes
<1>3. MaxLength \in Nat /\ NeverWritten \in Nat
  BY EchoSizes
<1>4. Length \in 0 .. MaxLength
  BY EchoSizes DEF Length, EchoTypes
<1>5. ring' \in [offset : Nat, length : 0 .. MaxLength] /\ ring'.offset < Sweep'
  <2>1. ring.offset \in Nat
    BY DEF EchoTypes
  <2>2. ring'.length = Length /\ ring'.offset \in Nat
        /\ ring'.offset = IF ring.offset + 1 >= Length THEN 0 ELSE ring.offset + 1
    BY <1>1, <2>1
  <2>3. ring'.offset < IF ring'.length = 0 THEN 1 ELSE ring'.length
    BY <1>3, <1>4, <2>1, <2>2
  <2> QED
    BY <1>1, <1>4, <2>1, <2>2, <2>3 DEF Sweep
<1>6. EchoTypes'
  <2>1. steady' \in 0 .. NeverWritten
    BY <1>1, <1>3 DEF EchoTypes
  <2> QED
    BY <1>1, <1>2, <1>5, <2>1, Writes DEF EchoTypes
<1>7. HistInv' /\ UsedInv'
  <2>1. HistInv'
    BY <1>1, HistKept
  <2>2. UsedInv'
    BY <1>1 DEF UsedInv
  <2> QED
    BY <2>1, <2>2
<1>8. CASE steady' = 0
  <2>1. AddressInv'
    BY <1>1, <1>8 DEF AddressInv
  <2>2. SweptInv'
    <3>1. Turn' = 1 /\ (\A k \in 1 .. Sweep' : ~(k < steady' + Turn'))
      BY <1>1, <1>8 DEF Turn
    <3> QED
      BY <3>1 DEF SweptInv
  <2> QED
    BY <1>6, <1>7, <2>1, <2>2
<1>9. CASE steady' # 0
  <2>1. /\ steady' = steady /\ steady > 0 /\ Length = ring.length /\ latch'.page = latch.page
    BY <1>1, <1>2, <1>9 DEF EchoTypes
  <2>2. ring'.length = ring.length
        /\ ring'.offset = IF ring.offset + 1 >= ring.length THEN 0 ELSE ring.offset + 1
    BY <1>1, <2>1
  <2>3. /\ Sweep' = Sweep /\ Ago(1)' = ring.offset
        /\ \A k \in 2 .. Sweep : Ago(k)' = Ago(k - 1) /\ Ago(k - 1) # ring.offset
    BY <2>2, RingMoves
  <2>4. latch.address = Base(latch.page) + ring.offset /\ latch.disabled = disabled
    BY <1>1, <2>1 DEF AddressInv
  <2>5. AddressInv'
    BY <1>1, <1>2, <2>1, <2>3, <2>4 DEF AddressInv, Base
  <2>6. SweptInv'
    <3> SUFFICES ASSUME ~disabled, NEW k \in 1 .. Sweep, k <= steady
                 PROVE  age'[Base(latch.page) + Ago(k)'] = k - 1
      BY <1>1, <2>1, <2>3, EchoSizes DEF SweptInv, Turn, Base, EchoTypes
    <3>1. CASE k = 1
      BY <2>3, <2>4, <3>1, <1>1, Writes
    <3>2. CASE k # 1
      <4>1. k \in 2 .. Sweep /\ k - 1 \in 1 .. Sweep /\ k - 1 < steady
        BY <3>2, AgoBounds DEF EchoTypes
      <4>2. Ago(k)' = Ago(k - 1) /\ Ago(k - 1) # ring.offset
        BY <2>3, <4>1
      <4>3. age[Base(latch.page) + Ago(k - 1)] = k - 1
        <5>1. Turn = 0
          BY <1>1 DEF Turn
        <5>2. k - 1 < steady + Turn
          BY <4>1, <5>1 DEF EchoTypes
        <5> QED
          BY <4>1, <5>1, <5>2 DEF SweptInv
      <4>4. /\ Base(latch.page) + Ago(k - 1) \in Addresses
            /\ Base(latch.page) + Ago(k - 1) # latch.address
        <5>1. Ago(k - 1) \in 0 .. MaxLength /\ ring.offset \in 0 .. MaxLength
          BY <4>1, AgoBounds
        <5>2. latch.page \in Pages
          BY DEF EchoTypes
        <5>3. Base(latch.page) \in Nat /\ Base(latch.page) + Ago(k - 1) \in Addresses
          BY <5>1, <5>2, EchoSizes
        <5>4. Base(latch.page) + Ago(k - 1) # Base(latch.page) + ring.offset
          BY <4>2, <5>1, <5>3, EchoSizes
        <5> QED
          BY <2>4, <5>3, <5>4
      <4> QED
        BY <1>1, <4>2, <4>3, <4>4, Writes
    <3> QED
      BY <3>1, <3>2
  <2> QED
    BY <1>6, <1>7, <2>5, <2>6
<1> QED
  BY <1>8, <1>9

LEMMA Clock30Keeps == EchoInv /\ Clock30 => EchoInv'
<1> SUFFICES ASSUME EchoInv, Clock30 PROVE EchoInv'
  OBVIOUS
<1> USE DEF EchoInv
<1>1. /\ clock = 30 /\ clock' = 31 /\ age' = WriteEcho(latch.address, latch.disabled)
      /\ UNCHANGED <<esa, edl, disabled, latch, ring, index, hist, number, used, steady>>
  BY DEF Clock30, Registers
<1>2. EchoTypes'
  BY <1>1, Writes DEF EchoTypes, Sweep
<1>3. HistInv' /\ UsedInv' /\ AddressInv'
  <2>1. HistInv'
    BY <1>1, HistKept
  <2>2. UsedInv' /\ AddressInv'
    BY <1>1 DEF UsedInv, AddressInv
  <2> QED
    BY <2>1, <2>2
<1>4. SweptInv'
  <2>1. Sweep' = Sweep /\ Turn = 1 /\ Turn' = 1
    BY <1>1 DEF Sweep, Turn
  <2>2. \A k : Ago(k)' = Ago(k)
    BY <1>1, <2>1 DEF Ago
  <2>3. steady \in Nat /\ Sweep \in Nat
    <3>1. steady \in Nat
      BY EchoSizes DEF EchoTypes
    <3> QED
      BY <3>1, AgoBounds
  <2> SUFFICES ASSUME ~disabled, NEW k \in 1 .. Sweep, k < steady + 1
               PROVE  age'[Base(latch.page) + Ago(k)] = k - 1
    BY <1>1, <2>1, <2>2 DEF SweptInv, Base
  <2>4. steady > 0 /\ latch.address = Base(latch.page) + Ago(1) /\ ~latch.disabled
    BY <1>1, <2>3 DEF AddressInv
  <2>5. CASE k = 1
    BY <1>1, <2>4, <2>5, Writes
  <2>6. CASE k # 1
    <3>1. age[Base(latch.page) + Ago(k)] = k - 1
      BY <2>1 DEF SweptInv
    <3>2. Ago(k) \in 0 .. MaxLength /\ Ago(1) \in 0 .. MaxLength
      BY <2>3, AgoBounds
    <3>3. Ago(k) # Ago(1)
      <4>1. ring.offset \in Nat /\ ring.offset < Sweep
        BY DEF EchoTypes
      <4> QED
        BY <2>3, <2>6, <4>1 DEF Ago
    <3>4. latch.page \in Pages
      BY DEF EchoTypes
    <3>5. Base(latch.page) \in Nat /\ Base(latch.page) + Ago(k) \in Addresses
      BY <3>2, <3>4, EchoSizes
    <3>6. Base(latch.page) + Ago(k) # Base(latch.page) + Ago(1)
      BY <3>2, <3>3, <3>5, EchoSizes
    <3> QED
      BY <1>1, <2>4, <3>1, <3>5, <3>6, Writes
  <2> QED
    BY <2>5, <2>6
<1> QED
  BY <1>2, <1>3, <1>4

LEMMA Clock31Keeps == EchoInv /\ Clock31 => EchoInv'
<1> SUFFICES ASSUME EchoInv, Clock31 PROVE EchoInv'
  OBVIOUS
<1> USE DEF EchoInv
<1>1. /\ clock = 31 /\ clock' = 22 /\ number' = (number + 1) % SampleNumbers
      /\ used' = [c \in Channels |-> [t \in {} |-> 0]]
      /\ age' = [f \in Addresses |-> Older(age[f])] /\ steady' = Older(steady)
      /\ UNCHANGED <<esa, edl, disabled, latch, ring, index, hist>>
  BY DEF Clock31, Registers
<1>2. MaxLength \in Nat /\ NeverWritten = MaxLength + 2
  BY EchoSizes
<1>3. /\ number' \in 0 .. SampleNumbers - 1
      /\ \A d \in 0 .. Taps - 1 : (number' + SampleNumbers - (d + 1)) % SampleNumbers
                                     = (number + SampleNumbers - d) % SampleNumbers
  BY <1>1 DEF EchoTypes, SampleNumbers, Taps
<1>4. \A n \in 0 .. NeverWritten : Older(n) \in 0 .. NeverWritten
  BY <1>2 DEF Older
<1>5. EchoTypes'
  BY <1>1, <1>3, <1>4 DEF EchoTypes, Sweep
<1>6. HistInv'
  <2>1. ASSUME NEW c \in Channels, NEW j \in 0 .. Taps - 1
        PROVE  hist[j + Taps][c] = hist[j][c] /\ hist[j][c] \in Sample(Behind(c, j))'
    <3>1. Turned(j) \in 0 .. Taps - 1 /\ Turned(j)' = Turned(j)
      BY <1>1 DEF Turned, EchoTypes, Taps
    <3>2. Behind(c, j) = Turned(j) /\ Behind(c, j)' = Turned(j) + 1
      BY <1>1, <3>1 DEF Behind
    <3>3. hist[j + Taps][c] = hist[j][c] /\ hist[j][c] \in Sample(Turned(j))
      BY <3>2 DEF HistInv
    <3> QED
      BY <1>3, <3>1, <3>2, <3>3 DEF Sample
  <2> QED
    BY <1>1, <2>1 DEF HistInv
<1>7. UsedInv' /\ AddressInv'
  BY <1>1 DEF UsedInv, AddressInv, Filtered
<1>8. SweptInv'
  <2>1. Sweep' = Sweep /\ Turn = 1 /\ Turn' = 0
    BY <1>1 DEF Sweep, Turn
  <2>2. \A k : Ago(k)' = Ago(k)
    BY <1>1, <2>1 DEF Ago
  <2>3. steady \in Nat /\ steady' \in Nat /\ Sweep \in Nat /\ Sweep <= MaxLength + 1
    <3>1. steady \in Nat
      BY <1>2 DEF EchoTypes
    <3> QED
      BY <1>1, <3>1, AgoBounds DEF Older
  <2> SUFFICES ASSUME ~disabled, NEW k \in 1 .. Sweep, k < steady'
               PROVE  age'[Base(latch.page) + Ago(k)] = k
    BY <1>1, <2>1, <2>2, <2>3 DEF SweptInv, Base
  <2>4. k < steady + 1
    BY <1>1, <1>2, <2>3 DEF Older
  <2>5. age[Base(latch.page) + Ago(k)] = k - 1
    BY <2>1, <2>4 DEF SweptInv
  <2>6. Base(latch.page) + Ago(k) \in Addresses
    <3>1. Ago(k) \in 0 .. MaxLength /\ latch.page \in Pages
      BY AgoBounds DEF EchoTypes
    <3> QED
      BY <3>1, EchoSizes
  <2>7. Older(k - 1) = k
    BY <1>2, <2>3 DEF Older
  <2> QED
    BY <1>1, <2>5, <2>6, <2>7
<1> QED
  BY <1>5, <1>6, <1>7, <1>8

\* The registers: of what the invariant says of them only FLG matters at once.
LEMMA RegistersKeep ==
  ASSUME EchoInv, Untouched, esa' \in Pages, edl' \in Delays, disabled' \in BOOLEAN,
         \/ UNCHANGED <<disabled, steady>>
         \/ steady' = 0
  PROVE  EchoInv'
<1> USE DEF EchoInv
<1>1. UNCHANGED <<clock, latch, ring, index, hist, number, used, age>>
  BY DEF Untouched
<1>2. steady' \in 0 .. NeverWritten
  <2>1. 0 \in 0 .. NeverWritten
    BY EchoSizes
  <2>2. steady \in 0 .. NeverWritten
    BY DEF EchoTypes
  <2> QED
    BY <2>1, <2>2
<1>3. EchoTypes'
  BY <1>1, <1>2 DEF EchoTypes, Sweep
<1>4. HistInv' /\ UsedInv'
  <2>1. HistInv'
    BY <1>1, HistKept
  <2>2. UsedInv'
    BY <1>1 DEF UsedInv, Filtered, Sample
  <2> QED
    BY <2>1, <2>2
<1>5. CASE UNCHANGED <<disabled, steady>>
  <2>1. Turn' = Turn /\ latch'.page = latch.page
    BY <1>1 DEF Turn
  <2>2. SweptInv' /\ AddressInv'
    BY <1>1, <1>5, <2>1, SweptKept, AddressKept
  <2> QED
    BY <1>3, <1>4, <2>2
<1>6. CASE steady' = 0
  <2>1. AddressInv'
    BY <1>1, <1>6 DEF AddressInv, Base
  <2>2. \A k \in 1 .. Sweep' : ~(k < steady' + Turn')
    BY <1>6 DEF Turn
  <2>3. SweptInv'
    BY <2>2 DEF SweptInv
  <2> QED
    BY <1>3, <1>4, <2>1, <2>3
<1> QED
  BY <1>5, <1>6

LEMMA EchoStep == EchoInv /\ [EchoNext]_echoVars => EchoInv'
<1> SUFFICES ASSUME EchoInv, [EchoNext]_echoVars PROVE EchoInv'
  OBVIOUS
<1>1. CASE Clock22
  BY <1>1, Clock22Keeps
<1>2. CASE Clock23
  BY <1>2, Clock23Keeps
<1>3. CASE Clock24
  BY <1>3, Clock24Keeps
<1>4. CASE Clock25
  BY <1>4, Clock25Keeps
<1>5. CASE Clock28
  BY <1>5, Clock28Keeps
<1>6. CASE Clock29
  BY <1>6, Clock29Keeps
<1>7. CASE Clock30
  BY <1>7, Clock30Keeps
<1>8. CASE Clock31
  BY <1>8, Clock31Keeps
<1>9. ASSUME NEW page \in Pages, WriteEsa(page) PROVE EchoInv'
  BY <1>9, RegistersKeep DEF WriteEsa, EchoInv, EchoTypes
<1>10. ASSUME NEW delay \in Delays, WriteEdl(delay) PROVE EchoInv'
  BY <1>10, RegistersKeep DEF WriteEdl, EchoInv, EchoTypes
<1>11. ASSUME NEW off \in BOOLEAN, WriteFlg(off) PROVE EchoInv'
  BY <1>11, RegistersKeep DEF WriteFlg, EchoInv, EchoTypes
<1>12. CASE UNCHANGED echoVars
  BY <1>12, RegistersKeep DEF echoVars, Untouched, EchoInv, EchoTypes
<1> QED
  BY <1>1, <1>2, <1>3, <1>4, <1>5, <1>6, <1>7, <1>8, <1>9, <1>10, <1>11, <1>12
  DEF EchoNext, Tick

\* What the invariant is for.
LEMMA EchoInvGives == EchoInv => EchoExact
<1> SUFFICES ASSUME EchoInv PROVE EchoExact
  OBVIOUS
<1> USE DEF EchoInv
<1>1. TapsInOrder
  BY DEF TapsInOrder, UsedInv, Filtered, Sample
<1>2. EchoDelay
  <2> SUFFICES ASSUME clock = 23, ~disabled, steady \in Sweep + 1 .. NeverWritten - 1
               PROVE  age[latch.address] = Sweep
    BY DEF EchoDelay
  <2>1. Sweep \in 1 .. Sweep /\ Sweep < steady + 0
    BY AgoBounds, EchoSizes
  <2>2. Ago(Sweep) = ring.offset /\ Turn = 0
    <3>1. Sweep \in Nat /\ ring.offset \in Nat /\ ring.offset < Sweep
      BY AgoBounds DEF EchoTypes
    <3> QED
      BY <3>1 DEF Ago, Turn
  <2>3. latch.address = Base(latch.page) + ring.offset
    BY DEF AddressInv
  <2>4. age[Base(latch.page) + Ago(Sweep)] = Sweep - 0
    BY <2>1, <2>2 DEF SweptInv
  <2> QED
    BY <2>1, <2>2, <2>3, <2>4
<1> QED
  BY <1>1, <1>2 DEF EchoExact

\* The echo comes back when it should, and the filter takes its taps in order, for any
\* length of the buffer and whatever the program writes (Dsp::clockEcho).
THEOREM EchoesAreExact == EchoSpec => []EchoExact
<1>1. EchoSpec => []EchoInv
  BY EchoInvInit, EchoStep, PTL DEF EchoSpec
<1> QED
  BY <1>1, EchoInvGives, PTL

(***************************************************************************)
(* Colours of three channels: what the packed arithmetic of Ppu::Blend     *)
(* does to each channel, for all pairs of colours.                         *)
(***************************************************************************)
Channel == 0 .. 31

TwoChannels == 0 .. 63

\* Every colour is three channels.
LEMMA ColorIsPacked ==
  ASSUME NEW c \in Bgr555
  PROVE  \E r \in Channel, g \in Channel, b \in Channel :
           c = r + 32 * g + 1024 * b /\ ChannelsOf(c) = <<r, g, b>>
<1>1. c \in Int /\ 0 <= c /\ c < 32768
  <2>2. c \in Bgr555
    OBVIOUS
  <2>1. c \in 0 .. 32767
    BY ONLY <2>2 DEF Bgr555
  <2> QED
    BY ONLY <2>1, SMTT(30)
<1>2. PICK k \in 0 .. 1023 : k = c \div 32
  BY <1>1
<1>3. PICK r \in 0 .. 31 : r = c % 32 /\ c = r + 32 * k
  BY <1>1, <1>2
<1>4. PICK g \in 0 .. 31 : g = k % 32
  BY <1>2
<1>5. PICK b \in 0 .. 31 : b = k \div 32 /\ k = g + 32 * b
  <2>1. PICK b \in 0 .. 31 : b = k \div 32
    BY <1>2
  <2>2. k = g + 32 * b
    BY <1>2, <1>4, <2>1
  <2> QED
    BY <2>1, <2>2
<1>6. c \div 1024 = b
  BY <1>3, <1>5
<1>7. c = r + 32 * g + 1024 * b /\ ChannelsOf(c) = <<r, g, b>>
  BY <1>2, <1>3, <1>4, <1>5, <1>6 DEF ChannelsOf
<1>8. r \in Channel /\ g \in Channel /\ b \in Channel
  BY ONLY r \in 0 .. 31, g \in 0 .. 31, b \in 0 .. 31 DEF Channel
<1> QED
  BY ONLY <1>7, <1>8

LEMMA PackedIs ==
  ASSUME NEW r \in Channel, NEW g \in Channel, NEW b \in Channel,
         NEW c \in Int, c = r + 32 * g + 1024 * b
  PROVE  c \in Bgr555 /\ ChannelsOf(c) = <<r, g, b>>
<1>9. r \in 0 .. 31 /\ g \in 0 .. 31 /\ b \in 0 .. 31
  BY DEF Channel
<1>1. r \in 0 .. 31 /\ g \in 0 .. 31 /\ b \in 0 .. 31 /\ c \in Bgr555
  <2>1. 0 <= c /\ c <= 32767
    BY <1>9
  <2> QED
    BY ONLY <1>9, <2>1, c \in Int, SMTT(30) DEF Bgr555
<1>2. PICK n \in Nat : n = g + 32 * b
  BY <1>1
<1>3. c = r + 32 * n
  BY <1>9, <1>2
<1>4. c % 32 = r /\ c \div 32 = n
  BY <1>1, <1>2, <1>3
<1>5. n % 32 = g
  BY <1>1, <1>2
<1>6. PICK low \in 0 .. 1023 : low = r + 32 * g
  BY <1>1
<1>7. c = low + 1024 * b
  BY <1>6
<1>8. c \div 1024 = b
  BY <1>1, <1>6, <1>7
<1> QED
  BY <1>1, <1>4, <1>5, <1>8 DEF ChannelsOf

\* The carries out of three channels, of which all but the lowest are even.
LEMMA CarriesAre ==
  ASSUME NEW u \in TwoChannels, NEW e \in Channel, NEW f \in Channel,
         NEW v \in Int, v = u + 32 * (2 * e) + 1024 * (2 * f)
  PROVE  CarriesOf(v) = <<u \div 32, e \div 16, f \div 16>>
<1>8. u \in 0 .. 63 /\ e \in 0 .. 31 /\ f \in 0 .. 31
  BY DEF Channel, TwoChannels
<1>1. PICK p \in {0, 1} : p = u \div 32
  BY <1>8
<1>2. PICK q \in {0, 1} : q = e \div 16
  BY <1>8
<1>3. PICK r \in {0, 1} : r = f \div 16
  BY <1>8
<1>4. v \div 32 = p + 2 * e + 64 * f
  BY <1>8, <1>1
<1>5. v \div 1024 = q + 2 * f
  BY <1>8, <1>2
<1>6. v \div 32768 = r
  BY <1>8, <1>3
<1>7. (p + 2 * e + 64 * f) % 2 = p /\ (q + 2 * f) % 2 = q /\ r % 2 = r
  BY <1>8
<1> QED
  BY <1>1, <1>2, <1>3, <1>4, <1>5, <1>6, <1>7 DEF CarriesOf

LEMMA CarriesOfColor ==
  ASSUME NEW r \in Channel, NEW g \in Channel, NEW b \in Channel,
         NEW c \in Int, c = r + 32 * g + 1024 * b
  PROVE  CarriesOf(c) = <<g % 2, b % 2, 0>>
<1>1. r \in 0 .. 31 /\ g \in 0 .. 31 /\ b \in 0 .. 31
  BY DEF Channel
<1>2. c \div 32 = g + 32 * b /\ c \div 1024 = b /\ c \div 32768 = 0
  BY <1>1
<1>3. (g + 32 * b) % 2 = g % 2
  BY <1>1
<1> QED
  BY <1>2, <1>3 DEF CarriesOf


LEMMA DifferIs ==
  ASSUME NEW a1 \in Int, NEW a2 \in Int, NEW a3 \in Int, NEW b1 \in Int, NEW b2 \in Int, NEW b3 \in Int
  PROVE  Packed(Differ(<<a1, a2, a3>>, <<b1, b2, b3>>))
         = ((a1 + b1) % 2) + 32 * ((a2 + b2) % 2) + 1024 * ((a3 + b3) % 2)
<1>1. LET v == Differ(<<a1, a2, a3>>, <<b1, b2, b3>>) IN
         v[1] = (a1 + b1) % 2 /\ v[2] = (a2 + b2) % 2 /\ v[3] = (a3 + b3) % 2
  BY DEF Differ
<1> QED
  BY <1>1 DEF Packed

\* Two channels and the half of their sum.
LEMMA Halves ==
  ASSUME NEW a \in Channel, NEW b \in Channel
  PROVE  \E d \in 0 .. 31 : d = (a + b) \div 2 /\ a + b = 2 * d + ((a + b) % 2)
                            /\ (d >= 16 <=> a + b > 31)
BY DEF Channel

Bounded(a, b) == IF a + b > 31 THEN 31 ELSE a + b

\* The sum and the average of two colours, with the carries taken out of the sum of the words.
LEMMA SumIsExact ==
  ASSUME NEW x, NEW y,
         NEW r \in Channel, NEW g \in Channel, NEW b \in Channel,
         NEW s \in Channel, NEW h \in Channel, NEW c \in Channel,
         x = r + 32 * g + 1024 * b, ChannelsOf(x) = <<r, g, b>>,
         y = s + 32 * h + 1024 * c, ChannelsOf(y) = <<s, h, c>>
  PROVE  /\ ChannelsOf(BlendSum(x, y)) = <<Bounded(r, s), Bounded(g, h), Bounded(b, c)>>
         /\ ChannelsOf(BlendAverage(x, y)) = <<(r + s) \div 2, (g + h) \div 2, (b + c) \div 2>>
<1>1. PICK d \in 0 .. 31 : d = (r + s) \div 2 /\ r + s = 2 * d + ((r + s) % 2) /\ (d >= 16 <=> r + s > 31)
  BY Halves
<1>2. PICK e \in 0 .. 31 : e = (g + h) \div 2 /\ g + h = 2 * e + ((g + h) % 2) /\ (e >= 16 <=> g + h > 31)
  BY Halves
<1>3. PICK f \in 0 .. 31 : f = (b + c) \div 2 /\ b + c = 2 * f + ((b + c) % 2) /\ (f >= 16 <=> b + c > 31)
  BY Halves
<1> DEFINE odd == Packed(Differ(ChannelsOf(x), ChannelsOf(y)))
<1>4. odd = ((r + s) % 2) + 32 * ((g + h) % 2) + 1024 * ((b + c) % 2)
  <2>1. r \in Int /\ g \in Int /\ b \in Int /\ s \in Int /\ h \in Int /\ c \in Int
    BY DEF Channel
  <2> QED
    BY <2>1, DifferIs
<1> HIDE DEF odd
<1>5. PICK rs \in {0, 1}, gh \in {0, 1}, bc \in {0, 1} :
        rs = (r + s) % 2 /\ gh = (g + h) % 2 /\ bc = (b + c) % 2
  BY DEF Channel
<1>9. odd \in Int /\ x \in Int /\ y \in Int
  <2>1. odd = rs + 32 * gh + 1024 * bc
    BY <1>4, <1>5
  <2>2. odd \in Int
    BY ONLY <2>1, rs \in {0, 1}, gh \in {0, 1}, bc \in {0, 1}
  <2>3. x \in Int /\ y \in Int
    BY DEF Channel
  <2> QED
    BY <2>2, <2>3
<1>6. x + y - odd = 2 * d + 32 * (2 * e) + 1024 * (2 * f)
  <2>1. r + s = 2 * d + rs /\ g + h = 2 * e + gh /\ b + c = 2 * f + bc
    BY <1>1, <1>2, <1>3, <1>5
  <2>2. odd = rs + 32 * gh + 1024 * bc
    BY <1>4, <1>5
  <2> QED
    BY <2>1, <2>2 DEF Channel
<1>7. ChannelsOf(BlendAverage(x, y)) = <<(r + s) \div 2, (g + h) \div 2, (b + c) \div 2>>
  <2>1. BlendAverage(x, y) = (x + y - odd) \div 2
    BY DEF BlendAverage, odd
  <2>2. (x + y - odd) \div 2 = d + 32 * e + 1024 * f
    BY <1>6
  <2>3. d \in Channel /\ e \in Channel /\ f \in Channel
    BY DEF Channel
  <2>4. PICK w \in Int : w = d + 32 * e + 1024 * f
    OBVIOUS
  <2>5. ChannelsOf(w) = <<d, e, f>>
    BY ONLY <2>3, w \in Int, <2>4, PackedIs
  <2>6. BlendAverage(x, y) = w
    BY <2>1, <2>2, <2>4
  <2> QED
    BY ONLY <1>1, <1>2, <1>3, <2>5, <2>6
<1>8. ChannelsOf(BlendSum(x, y)) = <<Bounded(r, s), Bounded(g, h), Bounded(b, c)>>
  <2>1. PICK p \in {0, 1} : p = IF r + s > 31 THEN 1 ELSE 0
    BY DEF Channel
  <2>2. PICK q \in {0, 1} : q = IF g + h > 31 THEN 1 ELSE 0
    BY DEF Channel
  <2>3. PICK t \in {0, 1} : t = IF b + c > 31 THEN 1 ELSE 0
    BY DEF Channel
  <2> DEFINE carries == CarriesOf(x + y - odd)
  <2>4. carries = <<p, q, t>>
    <3>1. PICK u \in TwoChannels : u = 2 * d
      BY DEF TwoChannels
    <3>2. PICK w \in Int : w = u + 32 * (2 * e) + 1024 * (2 * f)
      BY DEF TwoChannels
    <3>3. CarriesOf(w) = <<u \div 32, e \div 16, f \div 16>>
      <4>1. e \in Channel /\ f \in Channel
        BY DEF Channel
      <4> QED
        BY ONLY <4>1, u \in TwoChannels, w \in Int, <3>2, CarriesAre
    <3>4. carries = CarriesOf(w)
      BY <1>6, <3>1, <3>2
    <3>5. u \div 32 = p /\ e \div 16 = q /\ f \div 16 = t
      BY <1>1, <1>2, <1>3, <2>1, <2>2, <2>3, <3>1 DEF TwoChannels
    <3> QED
      BY <3>3, <3>4, <3>5 DEF TwoChannels
  <2> HIDE DEF carries
  <2>5. Packed(carries) = p + 32 * q + 1024 * t
    BY <2>4 DEF Packed
  <2> DEFINE v == x + y - 32 * Packed(carries)
  <2>6. BlendSum(x, y) = Filled(v, carries)
    BY DEF BlendSum, carries, odd
  <2>7. PICK k \in Channel : k = r + s - 32 * p
    BY <2>1 DEF Channel
  <2>12. PICK m \in Channel : m = g + h - 32 * q
    BY <2>2 DEF Channel
  <2>13. PICK n \in Channel : n = b + c - 32 * t
    BY <2>3 DEF Channel
  <2>8. v = k + 32 * m + 1024 * n
    BY <2>5, <2>7, <2>12, <2>13 DEF Channel
  <2>17. v \in Int
    BY ONLY k \in Channel, m \in Channel, n \in Channel, <2>8 DEF Channel
  <2> HIDE DEF v
  <2>9. ChannelsOf(v) = <<k, m, n>>
    BY ONLY k \in Channel, m \in Channel, n \in Channel, <2>8, <2>17, PackedIs
  <2>10. PICK i \in Channel : i = Bounded(r, s)
    BY DEF Bounded, Channel
  <2>14. PICK j \in Channel : j = Bounded(g, h)
    BY DEF Bounded, Channel
  <2>15. PICK l \in Channel : l = Bounded(b, c)
    BY DEF Bounded, Channel
  <2>11. Filled(v, carries) = i + 32 * j + 1024 * l
    <3>1. /\ (IF carries[1] = 1 THEN 31 ELSE ChannelsOf(v)[1]) = i
          /\ (IF carries[2] = 1 THEN 31 ELSE ChannelsOf(v)[2]) = j
          /\ (IF carries[3] = 1 THEN 31 ELSE ChannelsOf(v)[3]) = l
      BY <2>1, <2>2, <2>3, <2>4, <2>7, <2>12, <2>13, <2>9, <2>10, <2>14, <2>15 DEF Bounded, Channel
    <3> QED
      BY <3>1 DEF Filled, Packed
  <2>16. ChannelsOf(BlendSum(x, y)) = <<i, j, l>>
    <3>1. BlendSum(x, y) = i + 32 * j + 1024 * l
      BY ONLY <2>6, <2>11
    <3>2. BlendSum(x, y) \in Int
      BY ONLY i \in Channel, j \in Channel, l \in Channel, <3>1 DEF Channel
    <3> QED
      BY ONLY i \in Channel, j \in Channel, l \in Channel, <3>1, <3>2, PackedIs
  <2> QED
    BY ONLY <2>10, <2>14, <2>15, <2>16
<1> QED
  BY <1>7, <1>8

\* A channel's difference, borrowing from the bit above it.
LEMMA Borrows ==
  ASSUME NEW a \in Channel, NEW b \in Channel
  PROVE  \E d \in Channel : a - b + 32 = 2 * d + ((a + b) % 2) /\ (d >= 16 <=> a >= b)
<1>1. a \in 0 .. 31 /\ b \in 0 .. 31
  BY DEF Channel
<1>2. PICK p \in {0, 1} : p = (a + b) % 2
  BY <1>1
<1>3. PICK n \in Int : a + b = 2 * n + p
  BY <1>1, <1>2
<1>4. PICK d \in Int : d = n - b + 16
  BY <1>1
<1>5. a - b + 32 = 2 * d + p
  BY <1>1, <1>3, <1>4
<1>6. d \in Channel /\ (d >= 16 <=> a >= b)
  BY <1>1, <1>5 DEF Channel
<1> QED
  BY <1>2, <1>5, <1>6

Difference(a, b) == IF a >= b THEN a - b ELSE 0

\* The difference of two colours, with the borrows put back.
LEMMA DifferenceIsExact ==
  ASSUME NEW x, NEW y,
         NEW r \in Channel, NEW g \in Channel, NEW b \in Channel,
         NEW s \in Channel, NEW h \in Channel, NEW c \in Channel,
         x = r + 32 * g + 1024 * b, ChannelsOf(x) = <<r, g, b>>,
         y = s + 32 * h + 1024 * c, ChannelsOf(y) = <<s, h, c>>
  PROVE  \E i \in Channel, j \in Channel, l \in Channel :
           /\ i = Difference(r, s) /\ j = Difference(g, h) /\ l = Difference(b, c)
           /\ BlendDifference(x, y) = i + 32 * j + 1024 * l
<1>1. /\ r \in Int /\ g \in Int /\ b \in Int /\ s \in Int /\ h \in Int /\ c \in Int
      /\ x \in Int /\ y \in Int
  BY DEF Channel
<1>2. PICK u \in TwoChannels : u = r - s + 32
  BY DEF Channel, TwoChannels
<1>3. PICK e \in Channel : g - h + 32 = 2 * e + ((g + h) % 2) /\ (e >= 16 <=> g >= h)
  BY Borrows
<1>4. PICK f \in Channel : b - c + 32 = 2 * f + ((b + c) % 2) /\ (f >= 16 <=> b >= c)
  BY Borrows
<1>5. PICK gh \in {0, 1} : gh = (g + h) % 2
  BY <1>1
<1>6. PICK bc \in {0, 1} : bc = (b + c) % 2
  BY <1>1
<1> DEFINE lent == Packed(Differ(CarriesOf(x), CarriesOf(y)))
<1>7. lent = gh + 32 * bc
  <2>1. CarriesOf(x) = <<g % 2, b % 2, 0>>
    BY ONLY <1>1, r \in Channel, g \in Channel, b \in Channel, x = r + 32 * g + 1024 * b, CarriesOfColor
  <2>2. CarriesOf(y) = <<h % 2, c % 2, 0>>
    BY ONLY <1>1, s \in Channel, h \in Channel, c \in Channel, y = s + 32 * h + 1024 * c, CarriesOfColor
  <2>3. PICK a1 \in Int : a1 = g % 2
    BY <1>1
  <2>4. PICK a2 \in Int : a2 = b % 2
    BY <1>1
  <2>5. PICK b1 \in Int : b1 = h % 2
    BY <1>1
  <2>6. PICK b2 \in Int : b2 = c % 2
    BY <1>1
  <2>7. PICK z \in Int : z = 0
    OBVIOUS
  <2>8. Packed(Differ(<<a1, a2, z>>, <<b1, b2, z>>))
        = ((a1 + b1) % 2) + 32 * ((a2 + b2) % 2) + 1024 * ((z + z) % 2)
    BY ONLY a1 \in Int, a2 \in Int, b1 \in Int, b2 \in Int, z \in Int, DifferIs
  <2>9. (a1 + b1) % 2 = gh
    BY <1>1, <1>5, <2>3, <2>5
  <2>10. (a2 + b2) % 2 = bc
    BY <1>1, <1>6, <2>4, <2>6
  <2>11. (z + z) % 2 = 0
    BY <2>7
  <2>12. lent = Packed(Differ(<<a1, a2, z>>, <<b1, b2, z>>))
    BY <1>1, <2>1, <2>2, <2>3, <2>4, <2>5, <2>6, <2>7
  <2> QED
    BY <2>8, <2>9, <2>10, <2>11, <2>12
<1> DEFINE carries == CarriesOf(x - y + Carries - 32 * lent)
           v == x - y + Carries - 32 * Packed(carries)
<1>8. BlendDifference(x, y) = Kept(v, carries)
  BY DEF BlendDifference
<1>9. PICK p \in {0, 1} : p = IF r >= s THEN 1 ELSE 0
  BY <1>1
<1>10. PICK q \in {0, 1} : q = IF g >= h THEN 1 ELSE 0
  BY <1>1
<1>11. PICK t \in {0, 1} : t = IF b >= c THEN 1 ELSE 0
  BY <1>1
<1>12. carries = <<p, q, t>>
  <2>1. PICK w \in Int : w = u + 32 * (2 * e) + 1024 * (2 * f)
    BY DEF Channel, TwoChannels
  <2>2. CarriesOf(w) = <<u \div 32, e \div 16, f \div 16>>
    BY ONLY e \in Channel, f \in Channel, u \in TwoChannels, w \in Int, <2>1, CarriesAre
  <2>3. g - h + 32 = 2 * e + gh /\ b - c + 32 = 2 * f + bc
    BY <1>3, <1>4, <1>5, <1>6
  <2>4. x - y + Carries - 32 * lent = w
    <3>1. x - y = (r - s) + 32 * (g - h) + 1024 * (b - c)
      BY <1>1
    <3> QED
      BY <1>1, <1>2, <1>7, <2>1, <2>3, <3>1 DEF Carries, Channel, TwoChannels
  <2>5. u \div 32 = p
    BY <1>1, <1>2, <1>9 DEF TwoChannels
  <2>6. e \div 16 = q /\ f \div 16 = t
    BY <1>3, <1>4, <1>10, <1>11 DEF Channel
  <2> QED
    BY <2>2, <2>4, <2>5, <2>6
<1> HIDE DEF carries
<1>13. Packed(carries) = p + 32 * q + 1024 * t
  BY <1>12 DEF Packed
<1>14. PICK k \in Channel : k = r - s + 32 - 32 * p
  BY <1>9 DEF Channel
<1>15. PICK m \in Channel : m = g - h + 32 - 32 * q
  BY <1>10 DEF Channel
<1>16. PICK n \in Channel : n = b - c + 32 - 32 * t
  BY <1>11 DEF Channel
<1>17. v \in Int /\ v = k + 32 * m + 1024 * n
  BY <1>1, <1>13, <1>14, <1>15, <1>16 DEF Carries, Channel
<1> HIDE DEF v
<1>18. ChannelsOf(v) = <<k, m, n>>
  BY ONLY k \in Channel, m \in Channel, n \in Channel, <1>17, PackedIs
<1>19. PICK i \in Channel : i = Difference(r, s)
  BY DEF Difference, Channel
<1>20. PICK j \in Channel : j = Difference(g, h)
  BY DEF Difference, Channel
<1>21. PICK l \in Channel : l = Difference(b, c)
  BY DEF Difference, Channel
<1>22. Kept(v, carries) = i + 32 * j + 1024 * l
  <2>1. /\ (IF carries[1] = 1 THEN ChannelsOf(v)[1] ELSE 0) = i
        /\ (IF carries[2] = 1 THEN ChannelsOf(v)[2] ELSE 0) = j
        /\ (IF carries[3] = 1 THEN ChannelsOf(v)[3] ELSE 0) = l
    BY <1>1, <1>9, <1>10, <1>11, <1>12, <1>14, <1>15, <1>16, <1>18, <1>19, <1>20, <1>21 DEF Difference
  <2> QED
    BY <2>1 DEF Kept, Packed
<1> QED
  BY <1>8, <1>19, <1>20, <1>21, <1>22

\* Halving a colour halves its channels.
LEMMA HalvedIs ==
  ASSUME NEW k \in Channel, NEW m \in Channel, NEW n \in Channel,
         NEW v \in Int, v = k + 32 * m + 1024 * n
  PROVE  ChannelsOf(Halved(v)) = <<k \div 2, m \div 2, n \div 2>>
<1>1. ChannelsOf(v) = <<k, m, n>>
  BY ONLY k \in Channel, m \in Channel, n \in Channel, v \in Int, v = k + 32 * m + 1024 * n, PackedIs
<1>2. PICK d \in Channel : d = k \div 2 /\ k - (k % 2) = 2 * d
  BY DEF Channel
<1>3. PICK e \in Channel : e = m \div 2 /\ m - (m % 2) = 2 * e
  BY DEF Channel
<1>4. PICK f \in Channel : f = n \div 2 /\ n - (n % 2) = 2 * f
  BY DEF Channel
<1> DEFINE even == [i \in 1 .. 3 |-> ChannelsOf(v)[i] - (ChannelsOf(v)[i] % 2)]
<1>5. even[1] = 2 * d /\ even[2] = 2 * e /\ even[3] = 2 * f
  BY <1>1, <1>2, <1>3, <1>4
<1>6. Halved(v) = Packed(even) \div 2
  BY DEF Halved
<1> HIDE DEF even
<1>7. Packed(even) = 2 * d + 32 * (2 * e) + 1024 * (2 * f)
  BY <1>5 DEF Packed
<1>8. PICK w \in Int : w = d + 32 * e + 1024 * f
  BY DEF Channel
<1>9. Halved(v) = w
  BY <1>6, <1>7, <1>8 DEF Channel
<1>10. ChannelsOf(w) = <<d, e, f>>
  BY ONLY d \in Channel, e \in Channel, f \in Channel, w \in Int, <1>8, PackedIs
<1> QED
  BY <1>2, <1>3, <1>4, <1>9, <1>10

LEMMA Clamp ==
  ASSUME NEW a \in Channel, NEW b \in Channel
  PROVE  Clamped(a + b) = Bounded(a, b) /\ Clamped(a - b) = Difference(a, b)
BY DEF Channel, Clamped, Bounded, Difference

BlendOf(a, b, subtract, halve) ==
  IF subtract THEN Clamped(a - b) \div (IF halve THEN 2 ELSE 1)
  ELSE IF halve THEN (a + b) \div 2 ELSE Clamped(a + b)

\* The blend of two colours, channel by channel.
LEMMA BlendIsExact ==
  ASSUME NEW x \in Bgr555, NEW y \in Bgr555, NEW subtract \in BOOLEAN, NEW halve \in BOOLEAN
  PROVE  \A i \in 1 .. 3 : ChannelsOf(Blend(x, y, subtract, halve))[i]
                           = BlendOf(ChannelsOf(x)[i], ChannelsOf(y)[i], subtract, halve)
<1>1. PICK r \in Channel, g \in Channel, b \in Channel :
        x = r + 32 * g + 1024 * b /\ ChannelsOf(x) = <<r, g, b>>
  BY ColorIsPacked
<1>2. PICK s \in Channel, h \in Channel, c \in Channel :
        y = s + 32 * h + 1024 * c /\ ChannelsOf(y) = <<s, h, c>>
  BY ColorIsPacked
<1> DEFINE each == <<BlendOf(r, s, subtract, halve), BlendOf(g, h, subtract, halve),
                     BlendOf(b, c, subtract, halve)>>
<1>3. SUFFICES ChannelsOf(Blend(x, y, subtract, halve)) = each
  <2>1. ASSUME NEW i \in 1 .. 3
        PROVE  each[i] = BlendOf(ChannelsOf(x)[i], ChannelsOf(y)[i], subtract, halve)
    <3>1. i = 1 \/ i = 2 \/ i = 3
      OBVIOUS
    <3> QED
      BY <1>1, <1>2, <3>1
  <2> QED
    BY <2>1
<1>4. /\ ChannelsOf(BlendSum(x, y)) = <<Bounded(r, s), Bounded(g, h), Bounded(b, c)>>
      /\ ChannelsOf(BlendAverage(x, y)) = <<(r + s) \div 2, (g + h) \div 2, (b + c) \div 2>>
  BY ONLY r \in Channel, g \in Channel, b \in Channel, s \in Channel, h \in Channel, c \in Channel,
          <1>1, <1>2, SumIsExact
<1>5. PICK i \in Channel, j \in Channel, l \in Channel :
        /\ i = Difference(r, s) /\ j = Difference(g, h) /\ l = Difference(b, c)
        /\ BlendDifference(x, y) = i + 32 * j + 1024 * l
  BY ONLY r \in Channel, g \in Channel, b \in Channel, s \in Channel, h \in Channel, c \in Channel,
          <1>1, <1>2, DifferenceIsExact
<1>6. PICK w \in Int : w = BlendDifference(x, y)
  BY <1>5 DEF Channel
<1>7. w = i + 32 * j + 1024 * l
  BY <1>5, <1>6
<1>8. ChannelsOf(w) = <<i, j, l>>
  BY ONLY i \in Channel, j \in Channel, l \in Channel, w \in Int, <1>7, PackedIs
<1>9. ChannelsOf(Halved(w)) = <<i \div 2, j \div 2, l \div 2>>
  BY ONLY i \in Channel, j \in Channel, l \in Channel, w \in Int, <1>7, HalvedIs
<1>10. /\ Clamped(r + s) = Bounded(r, s) /\ Clamped(g + h) = Bounded(g, h) /\ Clamped(b + c) = Bounded(b, c)
       /\ Clamped(r - s) = i /\ Clamped(g - h) = j /\ Clamped(b - c) = l
  BY <1>5, Clamp
<1>11. CASE ~subtract /\ ~halve
  BY <1>4, <1>10, <1>11 DEF Blend, BlendOf
<1>12. CASE ~subtract /\ halve
  BY <1>4, <1>12 DEF Blend, BlendOf
<1>13. CASE subtract /\ ~halve
  <2>1. i \div 1 = i /\ j \div 1 = j /\ l \div 1 = l
    BY DEF Channel
  <2> QED
    BY <1>6, <1>8, <1>10, <1>13, <2>1 DEF Blend, BlendOf
<1>14. CASE subtract /\ halve
  BY <1>6, <1>9, <1>10, <1>14 DEF Blend, BlendOf
<1> QED
  BY <1>11, <1>12, <1>13, <1>14

LEMMA ZeroIsColor == 0 \in Bgr555
BY SMTT(30) DEF Bgr555

(***************************************************************************)
(* The priorities of a mode.                                               *)
(***************************************************************************)
PrioritiesOf(p) == {p[i] : i \in DOMAIN p}

LEMMA PriorityRanges ==
  /\ PrioritiesOf(Inactive) = {}
  /\ \A a, b : PrioritiesOf(<<a, b>>) = {a, b}
  /\ \A a, b, c, d : PrioritiesOf(<<a, b, c, d>>) = {a, b, c, d}
<1>1. PrioritiesOf(Inactive) = {}
  BY DEF PrioritiesOf, Inactive
<1>2. ASSUME NEW a, NEW b PROVE PrioritiesOf(<<a, b>>) = {a, b}
  <2>1. DOMAIN <<a, b>> = {1, 2} /\ <<a, b>>[1] = a /\ <<a, b>>[2] = b
    OBVIOUS
  <2> QED
    BY <2>1 DEF PrioritiesOf
<1>3. ASSUME NEW a, NEW b, NEW c, NEW d PROVE PrioritiesOf(<<a, b, c, d>>) = {a, b, c, d}
  <2>1. /\ DOMAIN <<a, b, c, d>> = {1, 2, 3, 4} /\ <<a, b, c, d>>[1] = a /\ <<a, b, c, d>>[2] = b
        /\ <<a, b, c, d>>[3] = c /\ <<a, b, c, d>>[4] = d
    OBVIOUS
  <2> QED
    BY <2>1 DEF PrioritiesOf
<1> QED
  BY <1>1, <1>2, <1>3

\* Layers that share no priority.
Apart(p) ==
  /\ \A l \in Layers : PrioritiesOf(p[l]) \subseteq Nat \ {0}
  /\ \A l, m \in Layers : l # m => PrioritiesOf(p[l]) \cap PrioritiesOf(p[m]) = {}

LEMMA ApartIfSets ==
  ASSUME NEW a, NEW b, NEW c, NEW d, NEW o,
         \A s \in {PrioritiesOf(a), PrioritiesOf(b), PrioritiesOf(c), PrioritiesOf(d), PrioritiesOf(o)} :
           s \subseteq Nat \ {0},
         PrioritiesOf(a) \cap PrioritiesOf(b) = {}, PrioritiesOf(a) \cap PrioritiesOf(c) = {},
         PrioritiesOf(a) \cap PrioritiesOf(d) = {}, PrioritiesOf(a) \cap PrioritiesOf(o) = {},
         PrioritiesOf(b) \cap PrioritiesOf(c) = {}, PrioritiesOf(b) \cap PrioritiesOf(d) = {},
         PrioritiesOf(b) \cap PrioritiesOf(o) = {}, PrioritiesOf(c) \cap PrioritiesOf(d) = {},
         PrioritiesOf(c) \cap PrioritiesOf(o) = {}, PrioritiesOf(d) \cap PrioritiesOf(o) = {}
  PROVE  Apart(P(a, b, c, d, o))
<1>1. /\ P(a, b, c, d, o)["BG1"] = a /\ P(a, b, c, d, o)["BG2"] = b /\ P(a, b, c, d, o)["BG3"] = c
      /\ P(a, b, c, d, o)["BG4"] = d /\ P(a, b, c, d, o)["OBJ"] = o
  BY DEF P
<1>2. \A l \in Layers : l = "BG1" \/ l = "BG2" \/ l = "BG3" \/ l = "BG4" \/ l = "OBJ"
  BY DEF Layers, Backgrounds
<1>3. \A l \in Layers : PrioritiesOf(P(a, b, c, d, o)[l]) \subseteq Nat \ {0}
  BY <1>1, <1>2
<1>4. ASSUME NEW l \in Layers, NEW m \in Layers, l # m
      PROVE  PrioritiesOf(P(a, b, c, d, o)[l]) \cap PrioritiesOf(P(a, b, c, d, o)[m]) = {}
  BY <1>1, <1>2, <1>4
<1> QED
  BY <1>3, <1>4 DEF Apart

LEMMA PrioritiesApart ==
  ASSUME NEW mode \in 0 .. 7, NEW raised \in BOOLEAN, NEW extbg \in BOOLEAN
  PROVE  Apart(Priorities(mode, raised, extbg))
<1> USE PriorityRanges
<1>1. CASE mode = 0
  <2>1. Apart(P(<<8, 11>>, <<7, 10>>, <<2, 5>>, <<1, 4>>, <<3, 6, 9, 12>>))
    BY ApartIfSets
  <2> QED
    BY <1>1, <2>1 DEF Priorities
<1>2. CASE mode = 1 /\ raised
  <2>1. Apart(P(<<5, 8>>, <<4, 7>>, <<1, 10>>, Inactive, <<2, 3, 6, 9>>))
    BY ApartIfSets
  <2> QED
    BY <1>2, <2>1 DEF Priorities, RaisedPriorities
<1>3. CASE mode = 1 /\ ~raised
  <2>1. Apart(P(<<6, 9>>, <<5, 8>>, <<1, 3>>, Inactive, <<2, 4, 7, 10>>))
    BY ApartIfSets
  <2> QED
    BY <1>3, <2>1 DEF Priorities
<1>4. CASE mode \in 2 .. 5
  <2>1. Apart(P(<<3, 7>>, <<1, 5>>, Inactive, Inactive, <<2, 4, 6, 8>>))
    BY ApartIfSets
  <2> QED
    BY <1>4, <2>1 DEF Priorities
<1>5. CASE mode = 6
  <2>1. Apart(P(<<2, 5>>, Inactive, Inactive, Inactive, <<1, 3, 4, 6>>))
    BY ApartIfSets
  <2> QED
    BY <1>5, <2>1 DEF Priorities
<1>6. CASE mode = 7 /\ ~extbg
  <2>1. Apart(P(<<2, 2>>, Inactive, Inactive, Inactive, <<1, 3, 4, 5>>))
    BY ApartIfSets
  <2> QED
    BY <1>6, <2>1 DEF Priorities
<1>7. CASE mode = 7 /\ extbg
  <2>1. Apart(P(<<3, 3>>, <<1, 5>>, Inactive, Inactive, <<2, 4, 6, 7>>))
    BY ApartIfSets
  <2> QED
    BY <1>7, <2>1 DEF Priorities
<1> QED
  BY <1>1, <1>2, <1>3, <1>4, <1>5, <1>6, <1>7

(***************************************************************************)
(* The layers in front.                                                    *)
(***************************************************************************)
Dot == [priority : Nat \ {0}, source : Sources]

LEMMA DotsAre ==
  ASSUME setup \in Setups, NEW l \in Layers
  PROVE  \A d \in DotsOf(l) :
           d \in Dot /\ d.priority \in PrioritiesOf(Priorities(setup.mode, setup.raised, setup.extbg)[l])
<1> DEFINE p == Priorities(setup.mode, setup.raised, setup.extbg)
<1>1. PrioritiesOf(p[l]) \subseteq Nat \ {0}
  BY PpuPixelAssumption, PrioritiesApart DEF Apart
<1>2. DotsOf(l) = [priority : PrioritiesOf(p[l]), source : IF l = "OBJ" THEN {"OBJ1", "OBJ2"} ELSE {l}]
  BY DEF DotsOf, PrioritiesOf
<1>3. (IF l = "OBJ" THEN {"OBJ1", "OBJ2"} ELSE {l}) \subseteq Sources
  BY DEF Sources, Layers
<1>4. PICK numbers : numbers = PrioritiesOf(p[l])
  OBVIOUS
<1>5. PICK sources : sources = IF l = "OBJ" THEN {"OBJ1", "OBJ2"} ELSE {l}
  OBVIOUS
<1>6. /\ numbers \subseteq Nat \ {0} /\ sources \subseteq Sources
      /\ DotsOf(l) = [priority : numbers, source : sources]
  BY <1>1, <1>2, <1>3, <1>4, <1>5
<1>7. ASSUME NEW d \in DotsOf(l)
      PROVE  d \in Dot /\ d.priority \in numbers
  <2>1. d.priority \in numbers /\ d.source \in sources /\ d = [priority |-> d.priority, source |-> d.source]
    BY <1>6
  <2>2. d.priority \in Nat \ {0} /\ d.source \in Sources
    BY <1>6, <2>1
  <2> QED
    BY ONLY <2>1, <2>2 DEF Dot
<1> QED
  BY <1>4, <1>7

\* Dots of two layers have two priorities.
LEMMA DotsApart ==
  ASSUME setup \in Setups, NEW l \in Layers, NEW m \in Layers, l # m,
         NEW d \in DotsOf(l), NEW e \in DotsOf(m)
  PROVE  d.priority # e.priority
<1> DEFINE p == Priorities(setup.mode, setup.raised, setup.extbg)
<1>1. PrioritiesOf(p[l]) \cap PrioritiesOf(p[m]) = {}
  BY PpuPixelAssumption, PrioritiesApart DEF Apart
<1>2. d.priority \in PrioritiesOf(p[l]) /\ e.priority \in PrioritiesOf(p[m])
  BY DotsAre
<1> QED
  BY <1>1, <1>2

Screen == [source : Sources, priority : Nat, color : Bgr555]

\* The screen shows the foremost of the dots plotted on it.
Shows(screen, plotted) ==
  IF plotted = {} THEN screen.source = "COL" /\ screen.priority = 0
  ELSE \E d \in plotted : /\ screen.source = d.source /\ screen.priority = d.priority
                          /\ \A e \in plotted : e.priority <= d.priority

\* Plotting a dot keeps the foremost one on the screen.
LEMMA PlotShows ==
  ASSUME NEW screen \in Screen, NEW plotted \in SUBSET Dot, Shows(screen, plotted),
         NEW dot \in Dot, NEW color \in Bgr555
  PROVE  PlotDot(screen, dot, color) \in Screen /\ Shows(PlotDot(screen, dot, color), plotted \cup {dot})
<1>1. /\ dot.priority \in Nat \ {0} /\ dot.source \in Sources /\ screen.priority \in Nat
      /\ \A d \in plotted : d.priority \in Nat
  BY DEF Dot, Screen
<1>2. CASE dot.priority > screen.priority
  <2>1. PlotDot(screen, dot, color) = [source |-> dot.source, priority |-> dot.priority, color |-> color]
    BY <1>2 DEF PlotDot
  <2>2. PlotDot(screen, dot, color) \in Screen
    BY <1>1, <2>1 DEF Screen
  <2>3. \A e \in plotted \cup {dot} : e.priority <= dot.priority
    BY <1>1, <1>2 DEF Shows
  <2> QED
    BY <2>1, <2>2, <2>3 DEF Shows
<1>3. CASE ~(dot.priority > screen.priority)
  <2>1. PlotDot(screen, dot, color) = screen
    BY <1>3 DEF PlotDot
  <2>2. plotted # {}
    BY <1>1, <1>3 DEF Shows
  <2>3. PICK d \in plotted : /\ screen.source = d.source /\ screen.priority = d.priority
                             /\ \A e \in plotted : e.priority <= d.priority
    BY <2>2 DEF Shows
  <2>4. \A e \in plotted \cup {dot} : e.priority <= d.priority
    BY <1>1, <1>3, <2>3
  <2> QED
    BY <2>1, <2>3, <2>4 DEF Shows
<1> QED
  BY <1>2, <1>3

Main == {d.dot : d \in {e \in dots : e.onMain}}
Sub == {d.dot : d \in {e \in dots : e.onSub}}

Drawn == [dot : Dot, onMain : BOOLEAN, onSub : BOOLEAN]

\* What has been drawn: each layer at most once, and none that is still to be drawn.
DrawnOnce ==
  /\ undrawn \in Seq(Layers)
  /\ \A i, j \in DOMAIN undrawn : undrawn[i] = undrawn[j] => i = j
  /\ dots \subseteq Drawn
  /\ \A d \in dots : \E l \in Layers : d.dot \in DotsOf(l) /\ \A i \in DOMAIN undrawn : undrawn[i] # l
  /\ \A d, e \in dots : \A l \in Layers : d.dot \in DotsOf(l) /\ e.dot \in DotsOf(l) => d = e

PixelIInv ==
  /\ setup \in Setups
  /\ DrawnOnce
  /\ above \in Screen /\ below \in Screen
  /\ Shows(above, Main) /\ Shows(below, Sub)
  /\ BlendExact

LEMMA FrontIsShown ==
  ASSUME NEW screen, NEW plotted \in SUBSET Dot, Shows(screen, plotted),
         \A d, e \in plotted : d # e => d.priority # e.priority
  PROVE  screen.source = Shown(screen, plotted)
<1>1. CASE plotted = {}
  BY <1>1 DEF Shows, Shown
<1>2. CASE plotted # {}
  <2>1. PICK d \in plotted : /\ screen.source = d.source
                             /\ \A e \in plotted : e.priority <= d.priority
    BY <1>2 DEF Shows
  <2>2. Front(plotted) \in plotted /\ \A e \in plotted : e.priority <= Front(plotted).priority
    BY <2>1 DEF Front
  <2>3. \A e \in plotted : e.priority \in Nat
    BY DEF Dot
  <2>4. Front(plotted).priority = d.priority
    BY <2>1, <2>2, <2>3
  <2>5. Front(plotted) = d
    BY <2>2, <2>4
  <2> QED
    BY <1>2, <2>1, <2>5 DEF Shown
<1> QED
  BY <1>1, <1>2

LEMMA PixelIInvHolds == PixelIInv => PixelExact
<1> SUFFICES ASSUME PixelIInv PROVE FrontLayer
  BY DEF PixelIInv, PixelExact
<1>1. Main \subseteq Dot /\ Sub \subseteq Dot
  BY DEF PixelIInv, DrawnOnce, Drawn, Main, Sub
<1>2. ASSUME NEW d \in Main \cup Sub, NEW e \in Main \cup Sub, d # e
      PROVE  d.priority # e.priority
  <2>1. PICK a \in dots : a.dot = d
    BY DEF Main, Sub
  <2>2. PICK b \in dots : b.dot = e
    BY DEF Main, Sub
  <2>3. PICK l \in Layers : d \in DotsOf(l)
    BY <2>1 DEF PixelIInv, DrawnOnce
  <2>4. PICK m \in Layers : e \in DotsOf(m)
    BY <2>2 DEF PixelIInv, DrawnOnce
  <2>5. l # m
    BY <1>2, <2>1, <2>2, <2>3, <2>4 DEF PixelIInv, DrawnOnce
  <2> QED
    BY <2>3, <2>4, <2>5, DotsApart DEF PixelIInv
<1>3. above.source = Shown(above, Main) /\ below.source = Shown(below, Sub)
  BY <1>1, <1>2, FrontIsShown DEF PixelIInv
<1> QED
  BY <1>2, <1>3 DEF FrontLayer, Main, Sub

LEMMA PixelIInvInit == PixelInit => PixelIInv
<1> SUFFICES ASSUME PixelInit PROVE PixelIInv
  OBVIOUS
<1>1. setup \in Setups /\ dots = {} /\ ~blended.math
  BY DEF PixelInit, Unblended
<1>2. undrawn \in Seq(Layers) /\ \A i, j \in DOMAIN undrawn : undrawn[i] = undrawn[j] => i = j
  <2>1. CASE setup.extbg
    <3>1. undrawn = <<"BG1", "BG3", "BG4", "OBJ", "BG2">>
      BY <2>1 DEF PixelInit, Order
    <3> QED
      BY <3>1 DEF Layers, Backgrounds
  <2>2. CASE ~setup.extbg
    <3>1. undrawn = <<"BG1", "BG2", "BG3", "BG4", "OBJ">>
      BY <2>2 DEF PixelInit, Order
    <3> QED
      BY <3>1 DEF Layers, Backgrounds
  <2> QED
    BY <2>1, <2>2
<1>3. above \in Screen /\ below \in Screen
  <2>1. LayerColor["COL"] \in Bgr555 /\ setup.fixed \in Bgr555 /\ "COL" \in Sources
    BY <1>1, PpuPixelAssumption DEF Sources
  <2> QED
    BY <2>1 DEF PixelInit, Screen
<1>4. Main = {} /\ Sub = {}
  BY <1>1 DEF Main, Sub
<1>5. Shows(above, Main) /\ Shows(below, Sub)
  BY <1>4 DEF Shows, PixelInit
<1> QED
  BY <1>1, <1>2, <1>3, <1>5 DEF PixelIInv, DrawnOnce, BlendExact

\* What a layer's turn leaves to be drawn.
LEMMA TailOnce ==
  ASSUME undrawn \in Seq(Layers), undrawn # <<>>,
         \A i, j \in DOMAIN undrawn : undrawn[i] = undrawn[j] => i = j
  PROVE  /\ Head(undrawn) \in Layers /\ Tail(undrawn) \in Seq(Layers)
         /\ \A i, j \in DOMAIN Tail(undrawn) : Tail(undrawn)[i] = Tail(undrawn)[j] => i = j
         /\ \A i \in DOMAIN Tail(undrawn) : /\ Tail(undrawn)[i] # Head(undrawn)
                                            /\ \E j \in DOMAIN undrawn : Tail(undrawn)[i] = undrawn[j]
<1>1. /\ Len(undrawn) \in Nat /\ Len(undrawn) >= 1 /\ DOMAIN undrawn = 1 .. Len(undrawn)
      /\ Head(undrawn) = undrawn[1] /\ Head(undrawn) \in Layers
  OBVIOUS
<1>2. /\ Tail(undrawn) \in Seq(Layers) /\ Len(Tail(undrawn)) = Len(undrawn) - 1
      /\ DOMAIN Tail(undrawn) = 1 .. Len(undrawn) - 1
      /\ \A i \in 1 .. Len(undrawn) - 1 : Tail(undrawn)[i] = undrawn[i + 1]
  BY <1>1, HeadTailProperties
<1>3. \A i \in 1 .. Len(undrawn) - 1 : i + 1 \in DOMAIN undrawn /\ i + 1 # 1
  BY <1>1
<1>4. 1 \in DOMAIN undrawn
  BY <1>1
<1>5. \A i, j \in DOMAIN Tail(undrawn) : Tail(undrawn)[i] = Tail(undrawn)[j] => i = j
  BY <1>1, <1>2, <1>3
<1> QED
  BY <1>1, <1>2, <1>3, <1>4, <1>5

LEMMA DrawKeepsOnce ==
  ASSUME PixelIInv, Draw, NEW added, dots' = dots \cup added,
         \A d \in added : d \in Drawn /\ d.dot \in DotsOf(Head(undrawn)),
         \A d, e \in added : d = e
  PROVE  DrawnOnce'
<1>1. /\ undrawn # <<>> /\ undrawn' = Tail(undrawn) /\ setup' = setup
      /\ setup \in Setups /\ DrawnOnce
  BY DEF PixelIInv, Draw
<1>2. \A l : DotsOf(l)' = DotsOf(l)
  BY <1>1 DEF DotsOf
<1> DEFINE layer == Head(undrawn)
<1>3. /\ layer \in Layers /\ undrawn' \in Seq(Layers)
      /\ \A i, j \in DOMAIN undrawn' : undrawn'[i] = undrawn'[j] => i = j
      /\ \A i \in DOMAIN undrawn' : undrawn'[i] # layer /\ \E j \in DOMAIN undrawn : undrawn'[i] = undrawn[j]
  BY <1>1, TailOnce DEF DrawnOnce
<1>4. 1 \in DOMAIN undrawn /\ undrawn[1] = layer
  BY <1>1 DEF DrawnOnce
<1> HIDE DEF layer
<1>5. dots' \subseteq Drawn
  BY <1>1 DEF DrawnOnce
<1>6. ASSUME NEW d \in dots'
      PROVE  \E l \in Layers : d.dot \in DotsOf(l) /\ \A i \in DOMAIN undrawn' : undrawn'[i] # l
  <2>1. CASE d \in dots
    BY <1>1, <1>3, <2>1 DEF DrawnOnce
  <2>2. CASE d \in added
    BY <1>3, <2>2 DEF layer
  <2> QED
    BY <2>1, <2>2
<1>7. ASSUME NEW d \in dots, NEW e \in added, NEW l \in Layers, d.dot \in DotsOf(l), e.dot \in DotsOf(l)
      PROVE  FALSE
  <2>1. PICK m \in Layers : d.dot \in DotsOf(m) /\ \A i \in DOMAIN undrawn : undrawn[i] # m
    BY <1>1 DEF DrawnOnce
  <2>2. m # layer
    BY <1>4, <2>1
  <2>3. e.dot \in DotsOf(layer)
    BY DEF layer
  <2>4. m = l
    BY <1>1, <1>7, <2>1, DotsApart
  <2>5. l = layer
    BY <1>1, <1>3, <1>7, <2>3, DotsApart
  <2> QED
    BY <2>2, <2>4, <2>5
<1>8. ASSUME NEW d \in dots', NEW e \in dots', NEW l \in Layers, d.dot \in DotsOf(l), e.dot \in DotsOf(l)
      PROVE  d = e
  <2>1. CASE d \in dots /\ e \in dots
    BY <1>1, <1>8, <2>1 DEF DrawnOnce
  <2>2. CASE d \in added /\ e \in added
    BY <2>2
  <2> QED
    BY <1>7, <1>8, <2>1, <2>2
<1> QED
  BY <1>2, <1>3, <1>5, <1>6, <1>8 DEF DrawnOnce

LEMMA PixelIInvStep == PixelIInv /\ [PixelNext]_pixelVars => PixelIInv'
<1> SUFFICES ASSUME PixelIInv, [PixelNext]_pixelVars PROVE PixelIInv'
  OBVIOUS
<1>1. CASE UNCHANGED pixelVars
  BY <1>1 DEF pixelVars, PixelIInv, DrawnOnce, DotsOf, Main, Sub, BlendExact
<1>2. CASE Draw
  <2>1. /\ undrawn # <<>> /\ undrawn' = Tail(undrawn) /\ setup' = setup /\ blended' = blended
        /\ setup \in Setups /\ DrawnOnce /\ above \in Screen /\ below \in Screen
        /\ Shows(above, Main) /\ Shows(below, Sub) /\ BlendExact
    BY <1>2 DEF PixelIInv, Draw
  <2>2. setup' \in Setups /\ BlendExact'
    BY <2>1 DEF BlendExact
  <2>3. CASE UNCHANGED <<above, below, dots>>
    <3>1. Main' = Main /\ Sub' = Sub /\ above' = above /\ below' = below
      BY <2>3 DEF Main, Sub
    <3>2. PICK none : none = {}
      OBVIOUS
    <3>3. dots' = dots \cup none
      BY <2>3, <3>2
    <3>4. DrawnOnce'
      BY <1>2, <3>2, <3>3, DrawKeepsOnce
    <3> QED
      BY <2>1, <2>2, <3>1, <3>4 DEF PixelIInv
  <2>4. CASE \E dot \in DotsOf(Head(undrawn)), onMain \in BOOLEAN, onSub \in BOOLEAN :
               /\ above' = IF onMain THEN PlotDot(above, dot, LayerColor[dot.source]) ELSE above
               /\ below' = IF onSub THEN PlotDot(below, dot, LayerColor[dot.source]) ELSE below
               /\ dots' = dots \cup {[dot |-> dot, onMain |-> onMain, onSub |-> onSub]}
    <3>1. PICK dot \in DotsOf(Head(undrawn)), onMain \in BOOLEAN, onSub \in BOOLEAN :
               /\ above' = IF onMain THEN PlotDot(above, dot, LayerColor[dot.source]) ELSE above
               /\ below' = IF onSub THEN PlotDot(below, dot, LayerColor[dot.source]) ELSE below
               /\ dots' = dots \cup {[dot |-> dot, onMain |-> onMain, onSub |-> onSub]}
      BY <2>4
    <3>2. Head(undrawn) \in Layers
      BY <2>1, TailOnce DEF DrawnOnce
    <3>3. dot \in Dot
      BY <2>1, <3>2, DotsAre
    <3>4. PICK color \in Bgr555 : color = LayerColor[dot.source]
      BY <3>3, PpuPixelAssumption DEF Dot
    <3>5. PICK drawn \in Drawn : drawn = [dot |-> dot, onMain |-> onMain, onSub |-> onSub]
      BY <3>3 DEF Drawn
    <3>6. DrawnOnce'
      <4>1. PICK added : added = {drawn}
        OBVIOUS
      <4>2. dots' = dots \cup added
        BY <3>1, <3>5, <4>1
      <4>3. drawn.dot \in DotsOf(Head(undrawn))
        BY <3>5
      <4> QED
        BY <1>2, <4>1, <4>2, <4>3, DrawKeepsOnce
    <3>7. Main \in SUBSET Dot /\ Sub \in SUBSET Dot
      BY <2>1 DEF DrawnOnce, Drawn, Main, Sub
    <3>8. Main' = (IF onMain THEN Main \cup {dot} ELSE Main) /\ Sub' = (IF onSub THEN Sub \cup {dot} ELSE Sub)
      <4>1. dots' = dots \cup {drawn} /\ drawn.dot = dot /\ drawn.onMain = onMain /\ drawn.onSub = onSub
        BY <3>1, <3>5
      <4> QED
        BY <4>1 DEF Main, Sub
    <3>9. /\ above' = IF onMain THEN PlotDot(above, dot, color) ELSE above
          /\ below' = IF onSub THEN PlotDot(below, dot, color) ELSE below
      BY <3>1, <3>4
    <3>10. above' \in Screen /\ Shows(above', Main')
      BY <2>1, <3>3, <3>7, <3>8, <3>9, PlotShows
    <3>11. below' \in Screen /\ Shows(below', Sub')
      BY <2>1, <3>3, <3>7, <3>8, <3>9, PlotShows
    <3>12. Shows(above, Main)' /\ Shows(below, Sub)'
      BY <3>10, <3>11 DEF Shows
    <3> QED
      BY <2>2, <3>6, <3>10, <3>11, <3>12 DEF PixelIInv
  <2> QED
    BY <1>2, <2>3, <2>4 DEF Draw
<1>3. CASE Composite
  <2>1. /\ setup' = setup /\ undrawn' = undrawn /\ above' = above /\ below' = below /\ dots' = dots
        /\ setup \in Setups /\ above \in Screen /\ below \in Screen
    BY <1>3 DEF Composite, PixelIInv
  <2>2. PICK x \in Bgr555, y \in Bgr555, subtract \in BOOLEAN, halve \in BOOLEAN, math \in BOOLEAN :
          /\ subtract = setup.subtract
          /\ blended' = [x |-> x, y |-> y, math |-> math, halve |-> halve,
                         sum |-> IF math THEN Blend(x, y, setup.subtract, halve) ELSE x]
    <3> DEFINE windowAbove == RenderWindowColor(setup.aboveMask)
               color == IF windowAbove THEN above.color ELSE 0
               hasSub == setup.addSub /\ below.source # "COL"
               other == IF hasSub THEN below.color ELSE setup.fixed
               halves == setup.halve /\ windowAbove /\ (setup.addSub => hasSub)
               maths == RenderWindowColor(setup.belowMask) /\ above.source \in setup.math
    <3>1. color \in Bgr555
      BY <2>1, ZeroIsColor DEF Screen
    <3>2. other \in Bgr555
      BY <2>1, PpuPixelAssumption DEF Screen
    <3>3. setup.subtract \in BOOLEAN
      BY <2>1, PpuPixelAssumption
    <3>4. halves \in BOOLEAN /\ maths \in BOOLEAN
      OBVIOUS
    <3>5. blended' = [x |-> color, y |-> other, math |-> maths, halve |-> halves,
                      sum |-> IF maths THEN Blend(color, other, setup.subtract, halves) ELSE color]
      BY <1>3 DEF Composite
    <3> HIDE DEF color, other, halves, maths
    <3> QED
      BY <3>1, <3>2, <3>3, <3>4, <3>5
  <2>3. BlendExact'
    <3> SUFFICES ASSUME math
        PROVE  \A i \in 1 .. 3 : ChannelsOf(Blend(x, y, subtract, halve))[i]
                                 = BlendOf(ChannelsOf(x)[i], ChannelsOf(y)[i], subtract, halve)
      BY <2>1, <2>2 DEF BlendExact, BlendOf
    <3> QED
      BY ONLY x \in Bgr555, y \in Bgr555, subtract \in BOOLEAN, halve \in BOOLEAN, BlendIsExact
  <2>4. DrawnOnce' /\ Shows(above, Main)' /\ Shows(below, Sub)'
    BY <2>1 DEF PixelIInv, DrawnOnce, DotsOf, Main, Sub
  <2> QED
    BY <2>1, <2>3, <2>4 DEF PixelIInv
<1> QED
  BY <1>1, <1>2, <1>3 DEF PixelNext

\* Each screen shows the layer of the foremost unclipped dot, and two colours are blended channel
\* by channel: for every mode and window, every layer's colour and fixed colour (RenderLineSpan
\* and Ppu::Blend in PpuRender.cpp).
THEOREM PixelStaysExact == PixelSpec => []PixelExact
<1>1. PixelInit => PixelIInv
  BY PixelIInvInit
<1>2. PixelIInv /\ [PixelNext]_pixelVars => PixelIInv'
  BY PixelIInvStep
<1>3. PixelIInv => PixelExact
  BY PixelIInvHolds
<1> QED
  BY <1>1, <1>2, <1>3, PTL DEF PixelSpec

------------------------------------------------------------------------------
(* What the inductions over objects and events rest on. *)

LEMMA Smallest ==
  ASSUME NEW T, T \subseteq Nat, T # {}
  PROVE  \E n \in T : \A m \in T : n <= m
<1> DEFINE R == {ss \in Nat \X Nat : ss[1] < ss[2]}
<1>1. IsWellFoundedOn(R, Nat)
  BY NatLessThanWellFounded, Zenon DEF OpToRel
<1>2. PICK n \in T : \A m \in T : ~ (<<m, n>> \in R)
  <2> HIDE DEF R
  <2> QED
    BY <1>1, WFMin
<1>3. ASSUME NEW m \in T, ~(n <= m) PROVE FALSE
  <2>1. m < n /\ <<m, n>> \in Nat \X Nat /\ <<m, n>>[1] = m /\ <<m, n>>[2] = n
    BY <1>3
  <2>2. <<m, n>> \in R
    BY <2>1, Zenon
  <2> QED
    BY <1>2, <2>2
<1> QED
  BY <1>3

LEMMA DivMod ==
  ASSUME NEW a \in Nat, NEW m \in Nat \ {0}
  PROVE  a \div m \in Nat /\ (a % m) \in 0 .. m - 1 /\ a = m * (a \div m) + (a % m)
OBVIOUS

------------------------------------------------------------------------------
(* The objects: PpuObjects. *)

ObjectsIInv ==
  /\ objects \in [1 .. Count -> OamObjects] /\ objectSize \in ObjectSizes /\ interlace \in BOOLEAN
  /\ firstObject \in 0 .. Count - 1 /\ objectLine \in 0 .. ObjectsVDisp
  /\ rangeOver \in BOOLEAN /\ timeOver \in BOOLEAN
  /\ truncated \in [objects : BOOLEAN, tiles : BOOLEAN]
  /\ OverflowIsTruncation

\* The constants are naturals.
LEMMA ObjectNumbers ==
  /\ Tile \in Nat \ {0} /\ ScreenDots \in Nat \ {0} /\ LineSpace \in Nat \ {0}
  /\ ObjectsVDisp \in Nat \ {0} /\ ItemLimit \in Nat \ {0} /\ TileLimit \in Nat \ {0}
  /\ Count \in Nat \ {0} /\ Space \in Nat \ {0} /\ Space = 2 * ScreenDots
BY PpuObjectsAssumption DEF Space

\* The greatest of a set of numbers below a bound.
LEMMA Greatest ==
  ASSUME NEW T, NEW b \in Nat, T \subseteq 0 .. b - 1, T # {}
  PROVE  \E n \in T : \A m \in T : m <= n
<1> DEFINE U == {b - m : m \in T}
<1>1. U \subseteq Nat /\ U # {}
  <2>1. \A m \in T : b - m \in Nat
    OBVIOUS
  <2>2. PICK m \in T : TRUE
    OBVIOUS
  <2> QED
    BY <2>1, <2>2, Zenon
<1>2. PICK u \in U : \A v \in U : u <= v
  BY <1>1, Smallest
<1>3. PICK n \in T : u = b - n
  OBVIOUS
<1>4. ASSUME NEW m \in T PROVE m <= n
  <2>1. b - m \in U
    OBVIOUS
  <2>2. u <= b - m
    BY <1>2, <2>1
  <2> QED
    BY <1>3, <2>2
<1> QED
  BY <1>4

\* A set of numbers has more members than the limit exactly when one has that many below it.
LEMMA LimitLeavesOut ==
  ASSUME NEW S, S \subseteq 0 .. Count - 1
  PROVE  UpToLimit(S) # S <=> Cardinality(S) > ItemLimit
<1>1. IsFiniteSet(S) /\ Cardinality(S) \in Nat
  <2>1. IsFiniteSet(0 .. Count - 1)
    BY FS_Interval, ObjectNumbers
  <2>2. IsFiniteSet(S)
    BY <2>1, FS_Subset
  <2> QED
    BY <2>2, FS_CardinalityType
<1>2. ASSUME NEW n \in S
      PROVE  /\ {m \in S : m < n} \in SUBSET (S \ {n})
             /\ IsFiniteSet(S \ {n}) /\ Cardinality(S \ {n}) = Cardinality(S) - 1
             /\ IsFiniteSet({m \in S : m < n})
             /\ Cardinality({m \in S : m < n}) \in Nat
             /\ Cardinality({m \in S : m < n}) <= Cardinality(S) - 1
  <2>1. {m \in S : m < n} \in SUBSET (S \ {n})
    OBVIOUS
  <2>2. IsFiniteSet(S \ {n}) /\ Cardinality(S \ {n}) = Cardinality(S) - 1
    BY <1>1, FS_RemoveElement
  <2>3. /\ IsFiniteSet({m \in S : m < n})
        /\ Cardinality({m \in S : m < n}) <= Cardinality(S \ {n})
    BY <2>1, <2>2, FS_Subset
  <2>4. Cardinality({m \in S : m < n}) \in Nat
    BY <2>3, FS_CardinalityType
  <2> QED
    BY <2>1, <2>2, <2>3, <2>4
<1>3. ASSUME Cardinality(S) > ItemLimit PROVE UpToLimit(S) # S
  <2>1. S # {}
    BY <1>3, FS_EmptySet, ObjectNumbers
  <2>2. PICK n \in S : \A m \in S : m <= n
    BY <2>1, Greatest, ObjectNumbers
  <2>3. {m \in S : m < n} = S \ {n}
    <3>1. \A m \in S : m < n <=> m # n
      BY <2>2, ObjectNumbers
    <3> QED
      BY <3>1, Zenon
  <2>4. Cardinality({m \in S : m < n}) = Cardinality(S) - 1
    BY <1>2, <2>3, Zenon
  <2>5. ~(Cardinality({m \in S : m < n}) < ItemLimit)
    BY <1>1, <1>3, <2>4, ObjectNumbers
  <2> QED
    BY <2>5 DEF UpToLimit
<1>4. ASSUME UpToLimit(S) # S PROVE Cardinality(S) > ItemLimit
  <2>1. PICK n \in S : ~(Cardinality({m \in S : m < n}) < ItemLimit)
    BY <1>4 DEF UpToLimit
  <2> DEFINE k == Cardinality({m \in S : m < n})
  <2>2. k \in Nat /\ k <= Cardinality(S) - 1
    BY <1>2
  <2> QED
    BY <1>1, <2>1, <2>2, ObjectNumbers
<1> QED
  BY <1>3, <1>4

\* The order of the fetch is one of the pairs: the last of a set of tiles.
Places == (0 .. Count - 1) \X (0 .. Space - 1)

LEMMA LastFetched ==
  ASSUME NEW T, T \subseteq Places, T # {}
  PROVE  \E p \in T : \A q \in T : q # p => FetchedBefore(q, p)
<1> DEFINE N == {p[1] : p \in T}
<1>1. N \subseteq Nat /\ N # {}
  BY DEF Places
<1>2. PICK n \in N : \A m \in N : n <= m
  BY <1>1, Smallest
<1> DEFINE C == {t \in 0 .. Space - 1 : <<n, t>> \in T}
<1>3. C # {}
  <2>1. PICK p \in T : n = p[1]
    OBVIOUS
  <2>2. p = <<p[1], p[2]>> /\ p[2] \in 0 .. Space - 1
    BY <2>1 DEF Places
  <2> QED
    BY <2>1, <2>2
<1>4. PICK t \in C : \A u \in C : u <= t
  <2>1. C \subseteq 0 .. Space - 1
    OBVIOUS
  <2> HIDE DEF C
  <2> QED
    BY <1>3, <2>1, Greatest, ObjectNumbers
<1>5. ASSUME NEW q \in T, q # <<n, t>> PROVE FetchedBefore(q, <<n, t>>)
  <2>1. q = <<q[1], q[2]>> /\ q[1] \in 0 .. Count - 1 /\ q[2] \in 0 .. Space - 1
    BY DEF Places
  <2>2. n <= q[1] /\ n \in Nat
    BY <1>1, <1>2
  <2>3. CASE q[1] = n
    <3>1. q[2] \in C
      BY <2>1, <2>3
    <3>2. q[2] <= t /\ q[2] # t /\ t \in Int
      BY <1>4, <1>5, <2>1, <2>3, <3>1
    <3> QED
      BY <2>1, <2>3, <3>2 DEF FetchedBefore
  <2>4. CASE q[1] # n
    BY <2>1, <2>2, <2>4 DEF FetchedBefore
  <2> QED
    BY <2>3, <2>4
<1>6. <<n, t>> \in T
  OBVIOUS
<1> QED
  BY <1>5, <1>6

LEMMA FetchIsStrict ==
  ASSUME NEW p \in Places, NEW q \in Places
  PROVE  FetchedBefore(p, q) => ~FetchedBefore(q, p) /\ p # q
BY DEF FetchedBefore, Places

\* More tiles than the limit have been counted exactly when the fetch leaves one out.
LEMMA FetchLeavesOut ==
  ASSUME NEW y
  PROVE  TimeOver(y) <=> Fetched(y) # Tiles(y)
<1> DEFINE T == Tiles(y)
           Earlier(p) == {q \in T : FetchedBefore(q, p)}
<1>1. T \subseteq Places /\ TimeOver(y) = (Cardinality(T) > TileLimit)
  BY DEF Tiles, TimeOver, Items, UpToLimit, Drawable, InRange, Counted, Places
<1>2. IsFiniteSet(T) /\ Cardinality(T) \in Nat
  <2>1. IsFiniteSet(Places)
    <3>1. IsFiniteSet(0 .. Count - 1) /\ IsFiniteSet(0 .. Space - 1)
      BY FS_Interval, ObjectNumbers
    <3> QED
      BY <3>1, FS_Product DEF Places
  <2> QED
    BY <1>1, <2>1, FS_Subset, FS_CardinalityType
<1> HIDE DEF T
<1>3. ASSUME NEW p \in T
      PROVE  /\ Earlier(p) \in SUBSET (T \ {p})
             /\ IsFiniteSet(T \ {p}) /\ Cardinality(T \ {p}) = Cardinality(T) - 1
             /\ Cardinality(Earlier(p)) \in Nat
             /\ Cardinality(Earlier(p)) <= Cardinality(T) - 1
  <2>1. Earlier(p) \in SUBSET (T \ {p})
    BY <1>1, FetchIsStrict
  <2>2. IsFiniteSet(T \ {p}) /\ Cardinality(T \ {p}) = Cardinality(T) - 1
    BY <1>2, FS_RemoveElement
  <2>3. IsFiniteSet(Earlier(p)) /\ Cardinality(Earlier(p)) <= Cardinality(T \ {p})
    BY <2>1, <2>2, FS_Subset
  <2>4. Cardinality(Earlier(p)) \in Nat
    BY <2>3, FS_CardinalityType
  <2> QED
    BY <2>1, <2>2, <2>3, <2>4
<1>4. ASSUME Cardinality(T) > TileLimit PROVE Fetched(y) # T
  <2>1. T # {}
    BY <1>4, FS_EmptySet, ObjectNumbers
  <2>2. PICK p \in T : \A q \in T : q # p => FetchedBefore(q, p)
    BY <1>1, <2>1, LastFetched
  <2>3. Earlier(p) = T \ {p}
    BY <1>3, <2>2
  <2> DEFINE k == Cardinality(Earlier(p))
  <2>4. k = Cardinality(T) - 1
    BY <1>3, <2>3, Zenon
  <2>5. ~(k < TileLimit)
    <3> HIDE DEF k
    <3> QED
      BY <1>2, <1>4, <2>4, ObjectNumbers
  <2> QED
    BY <2>5 DEF Fetched, T
<1>5. ASSUME Fetched(y) # T PROVE Cardinality(T) > TileLimit
  <2>1. PICK p \in T : ~(Cardinality(Earlier(p)) < TileLimit)
    BY <1>5 DEF Fetched, T
  <2> DEFINE k == Cardinality(Earlier(p))
  <2>2. k \in Nat /\ k <= Cardinality(T) - 1
    BY <1>3
  <2>3. ~(k < TileLimit)
    BY <2>1
  <2> HIDE DEF k
  <2> QED
    BY <1>2, <2>2, <2>3, ObjectNumbers
<1> QED
  BY <1>1, <1>4, <1>5 DEF T

LEMMA ProductGrows ==
  ASSUME NEW m \in Nat, NEW p \in Nat, NEW q \in Nat, p <= q
  PROVE  m * p <= m * q
<1>1. m * q = m * p + m * (q - p) /\ m * (q - p) \in Nat
  OBVIOUS
<1> QED
  BY <1>1

LEMMA ObjectIs ==
  ASSUME ObjectsIInv, NEW n \in 0 .. Count - 1
  PROVE  /\ Nth(n) \in OamObjects /\ Nth(n).x \in 0 .. Space - 1
         /\ Nth(n).hflip \in BOOLEAN
         /\ ObjectWidth(Nth(n)) \in 1 .. Space /\ ObjectWidth(Nth(n)) % Tile = 0
<1>1. ((firstObject + n) % Count) + 1 \in 1 .. Count
  BY ObjectNumbers DEF ObjectsIInv
<1>2. Nth(n) \in OamObjects
  BY <1>1 DEF ObjectsIInv, Nth
<1>3. /\ objectSize.small.w \in 1 .. Space /\ objectSize.small.w % Tile = 0
      /\ objectSize.large.w \in 1 .. Space /\ objectSize.large.w % Tile = 0
  BY PpuObjectsAssumption DEF ObjectsIInv, Space
<1> QED
  BY <1>2, <1>3, PpuObjectsAssumption DEF ObjectWidth, Space

\* A width is its tiles.
LEMMA WidthIs ==
  ASSUME NEW w \in Nat, w % Tile = 0
  PROVE  w \div Tile \in Nat /\ w = Tile * (w \div Tile)
BY DivMod, ObjectNumbers

\* The tile a number of dots across is in, and the dot of the tile.
LEMMA TileOf ==
  ASSUME NEW across \in Nat, NEW t \in Nat
  PROVE  across \div Tile = t <=> /\ t * Tile <= across /\ across < (t * Tile) + Tile
<1>1. PICK q \in Nat, r \in 0 .. Tile - 1 : across \div Tile = q /\ across = Tile * q + r
  BY DivMod, ObjectNumbers
<1>2. CASE q = t
  BY <1>1, <1>2, ObjectNumbers
<1>3. CASE q < t
  <2>1. Tile * q + Tile <= Tile * t
    <3>1. Tile * q + Tile = Tile * (q + 1) /\ q + 1 <= t
      BY <1>3, ObjectNumbers
    <3> QED
      BY <3>1, ProductGrows, ObjectNumbers
  <2> QED
    BY <1>1, <1>3, <2>1, ObjectNumbers
<1>4. CASE q > t
  <2>1. Tile * t + Tile <= Tile * q
    <3>1. Tile * t + Tile = Tile * (t + 1) /\ t + 1 <= q
      BY <1>4, ObjectNumbers
    <3> QED
      BY <3>1, ProductGrows, ObjectNumbers
  <2> QED
    BY <1>1, <1>4, <2>1, ObjectNumbers
<1> QED
  BY <1>2, <1>3, <1>4

\* On the space's circle: the distance to a tile of an object is the one to the object less
\* the tiles before it.
LEMMA Around ==
  ASSUME NEW s \in Nat \ {0}, NEW a \in 0 .. s - 1, NEW b \in 0 .. s - 1, NEW d \in 0 .. s - 1,
         NEW x \in 0 .. s - 1, b = (a + d) % s,
         NEW e \in Int, e = (x - a) % s, NEW g \in Int, g = (x - b) % s
  PROVE  /\ e >= d => g = e - d
         /\ e < d => g = e - d + s
<1>1. b = IF a + d < s THEN a + d ELSE a + d - s
  <2>1. CASE a + d < s
    BY <2>1
  <2>2. CASE a + d >= s
    <3>1. a + d = s * 1 + (a + d - s) /\ a + d - s \in 0 .. s - 1
      BY <2>2
    <3> QED
      BY <2>2, <3>1
  <2> QED
    BY <2>1, <2>2
<1>2. ASSUME NEW c \in 0 .. s - 1
      PROVE  (x - c) % s = IF x >= c THEN x - c ELSE x - c + s
  <2>1. CASE x >= c
    BY <2>1
  <2>2. CASE x < c
    <3>1. x - c + s \in 0 .. s - 1
      BY <2>2
    <3> QED
      BY <2>2, <3>1
  <2> QED
    BY <2>1, <2>2
<1>3. (x - a) % s = IF x >= a THEN x - a ELSE x - a + s
  BY <1>2
<1>4. (x - b) % s = IF x >= b THEN x - b ELSE x - b + s
  <2>1. b \in 0 .. s - 1
    OBVIOUS
  <2> HIDE <1>1
  <2> QED
    BY ONLY <1>2, <2>1
<1> QED
  BY <1>1, <1>3, <1>4

LEMMA Distributes ==
  ASSUME NEW k \in Nat, NEW t \in Nat, NEW m \in Nat
  PROVE  (k - 1 - t) * m = m * k - m - t * m
OBVIOUS

\* A tile of an object covers a dot exactly when the object shows there, in that tile.
LEMMA CoverIsShow ==
  ASSUME ObjectsIInv, NEW p \in Places, p[2] \in TileSet(Nth(p[1])), NEW x \in 0 .. ScreenDots - 1
  PROVE  Covers(p, x) <=> /\ PatternShows(p[1], x)
                          /\ p[2] = ((x - Nth(p[1]).x) % Space) \div Tile
<1> DEFINE o == Nth(p[1])
           n == p[1]
           t == p[2]
<1>1. n \in 0 .. Count - 1 /\ t \in 0 .. Space - 1
  BY DEF Places
<1>2. PICK w \in 1 .. Space : w = ObjectWidth(o) /\ w % Tile = 0
  BY <1>1, ObjectIs
<1>3. PICK k \in Nat : w \div Tile = k /\ w = Tile * k
  <2>1. w \in Nat /\ w % Tile = 0
    BY <1>2, ObjectNumbers
  <2>2. w \div Tile \in Nat /\ w = Tile * (w \div Tile)
    BY <2>1, WidthIs
  <2> QED
    BY <2>2
<1>4. t < k
  BY <1>1, <1>2, <1>3 DEF TileSet
<1>5. PICK d \in Nat : d = t * Tile /\ d + Tile <= w
  <2>1. Tile * t + Tile = Tile * (t + 1) /\ t + 1 \in Nat /\ t + 1 <= k
    BY <1>1, <1>3, <1>4, ObjectNumbers
  <2>2. Tile * (t + 1) <= Tile * k
    BY <2>1, <1>3, ProductGrows, ObjectNumbers
  <2>3. t * Tile = Tile * t /\ Tile * t \in Nat
    BY <1>1, ObjectNumbers
  <2> QED
    BY <1>2, <1>3, <2>1, <2>2, <2>3, ObjectNumbers
<1>6. PICK a \in 0 .. Space - 1 : a = o.x
  BY <1>1, ObjectIs
<1>7. PICK b \in 0 .. Space - 1 : b = TileAt(o, t) /\ b = (a + d) % Space
  <2>1. TileAt(o, t) = (a + d) % Space
    BY <1>5, <1>6 DEF TileAt
  <2>2. (a + d) % Space \in 0 .. Space - 1
    <3>1. PICK e \in Nat : e = a + d
      BY <1>5, <1>6
    <3>2. (e % Space) \in 0 .. Space - 1
      BY DivMod, ObjectNumbers
    <3> QED
      BY <3>1, <3>2
  <2> QED
    BY <2>1, <2>2
<1>8. PICK across \in 0 .. Space - 1 : across = (x - a) % Space
  BY ObjectNumbers
<1>9. PICK px \in Int : px = (x - b) % Space /\ px = IF across >= d THEN across - d ELSE across - d + Space
  <2>1. d \in 0 .. Space - 1 /\ x \in 0 .. Space - 1
    BY <1>2, <1>5, ObjectNumbers
  <2>2. PICK g \in Int : g = (x - b) % Space
    BY ObjectNumbers
  <2>3. /\ across >= d => g = across - d
        /\ across < d => g = across - d + Space
    <3>1. Space \in Nat \ {0} /\ b = (a + d) % Space /\ across \in Int
      BY <1>7, <1>8, ObjectNumbers
    <3> QED
      BY <1>8, <2>1, <2>2, <3>1, Around, Zenon
  <2> QED
    BY <1>5, <1>8, <2>2, <2>3, ObjectNumbers
<1>10. px < Tile <=> d <= across /\ across < d + Tile
  BY <1>2, <1>5, <1>8, <1>9, ObjectNumbers
<1>11. across \div Tile = t <=> d <= across /\ across < d + Tile
  BY <1>1, <1>5, <1>8, TileOf
<1>12. Covers(p, x) <=> px < Tile /\ Column(p, px) \in o.opaque
  BY <1>7, <1>9 DEF Covers
<1>13. PatternShows(n, x) <=> /\ across < w
                              /\ (IF o.hflip THEN w - 1 - across ELSE across) \in o.opaque
  BY <1>2, <1>6, <1>8 DEF PatternShows
<1>14. ASSUME px < Tile
       PROVE  across < w /\ Column(p, px) = IF o.hflip THEN w - 1 - across ELSE across
  <2>1. d <= across /\ across < d + Tile /\ px = across - d
    BY <1>9, <1>10, <1>14
  <2>2. Column(p, px) = IF o.hflip THEN ((k - 1 - t) * Tile) + (Tile - 1 - px) ELSE d + px
    BY <1>2, <1>3, <1>5 DEF Column
  <2>3. (k - 1 - t) * Tile = w - Tile - d
    <3>1. (k - 1 - t) * Tile = Tile * k - Tile - t * Tile
      <4>1. k \in Nat /\ t \in Nat /\ Tile \in Nat
        BY <1>1, <1>3, ObjectNumbers
      <4> HIDE DEF t
      <4> QED
        BY <4>1, Distributes, Zenon
    <3> QED
      BY <1>3, <1>5, <3>1, ObjectNumbers
  <2>4. Column(p, px) = IF o.hflip THEN (w - Tile - d) + (Tile - 1 - px) ELSE d + px
    BY <2>2, <2>3
  <2> QED
    BY <1>2, <1>5, <1>8, <2>1, <2>4, ObjectNumbers
<1>15. (x - Nth(p[1]).x) % Space = across
  BY <1>6, <1>8
<1>16. Covers(p, x) <=> px < Tile /\ (IF o.hflip THEN w - 1 - across ELSE across) \in o.opaque
  BY <1>12, <1>14
<1>17. t = across \div Tile <=> px < Tile
  BY <1>10, <1>11
<1> QED
  BY <1>13, <1>14, <1>15, <1>16, <1>17

\* Every dot shows the first object that has a fetched tile and an opaque column there.
LEMMA FirstIsInFront ==
  ASSUME ObjectsIInv, NEW y, NEW x \in 0 .. ScreenDots - 1
  PROVE  LET here == Here(Fetched(y), x)
         IN  Pixel(Fetched(y), x) =
               IF here = {} THEN NoObject ELSE CHOOSE n \in here : \A m \in here : n <= m
<1> DEFINE F == Fetched(y)
           drawn == {p \in F : Covers(p, x)}
           here == Here(F, x)
           pick == CHOOSE p \in drawn : \A q \in drawn : ~FetchedBefore(p, q)
<1>1. ASSUME NEW p \in F PROVE p \in Places /\ p[2] \in TileSet(Nth(p[1]))
  BY DEF Fetched, Tiles, Items, UpToLimit, Drawable, Places
<1> HIDE DEF F
<1>2. drawn \subseteq Places
  BY <1>1
<1>3. ASSUME NEW p \in drawn PROVE p[1] \in here
  <2>1. /\ p \in F /\ p \in Places /\ p[1] \in 0 .. Count - 1 /\ p = <<p[1], p[2]>>
        /\ p[2] \in TileSet(Nth(p[1]))
    BY <1>1 DEF Places
  <2>2. PatternShows(p[1], x) /\ p[2] = ((x - Nth(p[1]).x) % Space) \div Tile
    BY <2>1, CoverIsShow
  <2> QED
    BY <2>1, <2>2 DEF Here
<1>4. ASSUME NEW n \in here PROVE \E p \in drawn : p[1] = n
  <2>1. PICK p \in F : p = <<n, ((x - Nth(n).x) % Space) \div Tile>>
    BY DEF Here
  <2>2. PatternShows(n, x)
    BY DEF Here
  <2>3. p[1] = n /\ p[2] = ((x - Nth(n).x) % Space) \div Tile
    BY <2>1
  <2>4. Covers(p, x)
    BY <1>1, <2>1, <2>2, <2>3, CoverIsShow
  <2> QED
    BY <2>3, <2>4
<1>5. CASE drawn = {}
  <2>1. here = {}
    BY <1>4, <1>5
  <2> QED
    BY <1>5, <2>1 DEF Pixel, F
<1>6. CASE drawn # {}
  <2>1. PICK l \in drawn : \A q \in drawn : q # l => FetchedBefore(q, l)
    <3> HIDE DEF drawn
    <3> QED
      BY <1>2, <1>6, LastFetched
  <2>2. \A q \in drawn : ~FetchedBefore(l, q)
    <3>1. \A q \in drawn : q # l => ~FetchedBefore(l, q)
      BY <1>2, <2>1, FetchIsStrict
    <3>2. ~FetchedBefore(l, l)
      BY <1>2, FetchIsStrict
    <3> QED
      BY <3>1, <3>2
  <2>3. pick \in drawn /\ \A q \in drawn : ~FetchedBefore(pick, q)
    <3> HIDE DEF drawn
    <3> QED
      BY <2>2
  <2> HIDE DEF pick, drawn
  <2>4. ASSUME NEW m \in here PROVE pick[1] <= m
    <3>1. PICK q \in drawn : q[1] = m
      BY <1>4 DEF drawn
    <3>2. ~FetchedBefore(pick, q) /\ pick[1] \in Nat /\ q[1] \in Nat
      BY <1>2, <2>3 DEF Places
    <3> QED
      BY <3>1, <3>2 DEF FetchedBefore
  <2>5. pick[1] \in here /\ here \subseteq Nat
    BY <1>3, <2>3 DEF Here, drawn
  <2>6. (CHOOSE n \in here : \A m \in here : n <= m) = pick[1]
    <3> DEFINE least == CHOOSE n \in here : \A m \in here : n <= m
    <3>1. least \in here /\ \A m \in here : least <= m
      <4> HIDE DEF here
      <4> QED
        BY <2>4, <2>5
    <3>2. least \in Nat /\ pick[1] \in Nat /\ least <= pick[1] /\ pick[1] <= least
      BY <2>4, <2>5, <3>1
    <3> QED
      BY <3>2
  <2>7. Pixel(F, x) = pick[1]
    BY <1>6 DEF Pixel, pick, drawn
  <2> QED
    BY <2>5, <2>6, <2>7 DEF F
<1> QED
  BY <1>5, <1>6

------------------------------------------------------------------------------
LEMMA ObjectsInvInit == ObjectsInit => ObjectsIInv
<1> SUFFICES ASSUME ObjectsInit PROVE ObjectsIInv
  OBVIOUS
<1>1. firstObject \in 0 .. Count - 1 /\ objectLine \in 0 .. ObjectsVDisp
  BY ObjectNumbers DEF ObjectsInit
<1>2. truncated \in [objects : BOOLEAN, tiles : BOOLEAN] /\ OverflowIsTruncation
  BY DEF ObjectsInit, OverflowIsTruncation
<1> QED
  BY <1>1, <1>2 DEF ObjectsInit, ObjectsIInv

LEMMA NextObjectLineKeeps == ObjectsIInv /\ NextObjectLine => ObjectsIInv'
<1> SUFFICES ASSUME ObjectsIInv, NextObjectLine PROVE ObjectsIInv'
  OBVIOUS
<1>1. PICK y \in 1 .. ObjectsVDisp : objectLine' = y
  BY ObjectNumbers DEF NextObjectLine, ObjectsIInv
<1>2. /\ rangeOver' = (rangeOver \/ (y < ObjectsVDisp /\ RangeOver(y)))
      /\ timeOver' = (timeOver \/ (y < ObjectsVDisp /\ TimeOver(y)))
      /\ truncated' = IF y = ObjectsVDisp THEN truncated
                      ELSE [objects |-> truncated.objects \/ Items(y) # Drawable(y),
                            tiles   |-> truncated.tiles \/ Fetched(y) # Tiles(y)]
      /\ UNCHANGED registers
  BY <1>1 DEF NextObjectLine
<1>3. RangeOver(y) <=> Items(y) # Drawable(y)
  <2>1. InRange(y) = Drawable(y) /\ Drawable(y) \subseteq 0 .. Count - 1
    BY DEF InRange, Drawable
  <2> QED
    BY <2>1, LimitLeavesOut DEF RangeOver, Items
<1>4. TimeOver(y) <=> Fetched(y) # Tiles(y)
  BY FetchLeavesOut
<1> DEFINE r == RangeOver(y)
           t == TimeOver(y)
<1>5. /\ rangeOver' = (rangeOver \/ (y < ObjectsVDisp /\ r))
      /\ timeOver' = (timeOver \/ (y < ObjectsVDisp /\ t))
      /\ truncated' = IF y = ObjectsVDisp THEN truncated
                      ELSE [objects |-> truncated.objects \/ r, tiles |-> truncated.tiles \/ t]
  BY <1>2, <1>3, <1>4
<1>6. r \in BOOLEAN /\ t \in BOOLEAN
  BY DEF RangeOver, TimeOver
<1> HIDE DEF r, t
<1>7. /\ rangeOver \in BOOLEAN /\ timeOver \in BOOLEAN
      /\ truncated \in [objects : BOOLEAN, tiles : BOOLEAN]
      /\ rangeOver = truncated.objects /\ timeOver = truncated.tiles
  BY DEF ObjectsIInv, OverflowIsTruncation
<1>8. CASE y = ObjectsVDisp
  <2>1. rangeOver' = rangeOver /\ timeOver' = timeOver /\ truncated' = truncated
    BY <1>5, <1>7, <1>8, ObjectNumbers
  <2> QED
    BY <1>1, <1>2, <2>1 DEF ObjectsIInv, OverflowIsTruncation, registers
<1>9. CASE y # ObjectsVDisp
  <2>1. /\ rangeOver' = (rangeOver \/ r) /\ timeOver' = (timeOver \/ t)
        /\ truncated' = [objects |-> truncated.objects \/ r, tiles |-> truncated.tiles \/ t]
    BY <1>1, <1>5, <1>9, ObjectNumbers
  <2>2. /\ rangeOver' \in BOOLEAN /\ timeOver' \in BOOLEAN
        /\ truncated' \in [objects : BOOLEAN, tiles : BOOLEAN]
        /\ rangeOver' = truncated'.objects /\ timeOver' = truncated'.tiles
    BY <1>6, <1>7, <2>1
  <2> QED
    BY <1>1, <1>2, <2>2 DEF ObjectsIInv, OverflowIsTruncation, registers
<1> QED
  BY <1>8, <1>9

LEMMA ObjectsFrameKeeps == ObjectsIInv /\ ObjectsFrameBegin => ObjectsIInv'
<1> SUFFICES ASSUME ObjectsIInv, ObjectsFrameBegin PROVE ObjectsIInv'
  OBVIOUS
<1>1. firstObject' \in 0 .. Count - 1 /\ objectLine' \in 0 .. ObjectsVDisp
  <2>1. firstObject + 1 \in Nat
    BY DEF ObjectsIInv
  <2> QED
    BY <2>1, ObjectNumbers DEF ObjectsFrameBegin
<1>2. /\ rangeOver' = FALSE /\ timeOver' = FALSE
      /\ truncated' \in [objects : BOOLEAN, tiles : BOOLEAN]
      /\ rangeOver' = truncated'.objects /\ timeOver' = truncated'.tiles
  BY DEF ObjectsFrameBegin
<1>3. objects' = objects /\ objectSize' = objectSize /\ interlace' = interlace
  BY DEF ObjectsFrameBegin
<1> QED
  BY <1>1, <1>2, <1>3 DEF ObjectsIInv, OverflowIsTruncation

LEMMA ObjectsStep == ObjectsIInv /\ [ObjectsNext]_objectVars => ObjectsIInv'
<1>1. ObjectsIInv /\ UNCHANGED objectVars => ObjectsIInv'
  BY DEF ObjectsIInv, objectVars, registers, OverflowIsTruncation
<1> QED
  BY <1>1, NextObjectLineKeeps, ObjectsFrameKeeps DEF ObjectsNext

LEMMA ObjectsInvGives == ObjectsIInv => ObjectsExact
<1> SUFFICES ASSUME ObjectsIInv PROVE FirstObjectInFront
  BY DEF ObjectsIInv, ObjectsExact
<1> QED
  BY FirstIsInFront DEF FirstObjectInFront

\* The flags UpdateObjectOverflow raises are the truncations RenderObjects makes, over every line
\* of a frame; and of the objects with a fetched opaque dot the first is in front, for any OAM,
\* sizes, first object and limits.
THEOREM ObjectsStayExact == ObjectsSpec => []ObjectsExact
<1>1. ObjectsInit => ObjectsIInv
  BY ObjectsInvInit
<1>2. ObjectsIInv /\ [ObjectsNext]_objectVars => ObjectsIInv'
  BY ObjectsStep
<1>3. ObjectsIInv => ObjectsExact
  BY ObjectsInvGives
<1> QED
  BY <1>1, <1>2, <1>3, PTL DEF ObjectsSpec

------------------------------------------------------------------------------
(* The registers written while a line is drawn: PpuRaster. *)

LEMMA RasterNumbers ==
  /\ Dots \in Nat /\ RenderDot \in 1 .. Dots - 1 /\ RasterVDisp \in Nat /\ RasterVDisp >= 2
  /\ PortSets \subseteq SUBSET Ports /\ MosaicSizes \subseteq Nat \ {0}
BY PpuRasterAssumption

ScrollPorts == {"BG1HOFS", "BG1VOFS", "BG2HOFS", "BG2VOFS", "BG3HOFS", "BG3VOFS", "BG4HOFS", "BG4VOFS"}
SelectPorts == {"W12SEL", "W34SEL", "WOBJSEL"}

LEMMA TablesAre ==
  /\ DOMAIN Scrolls = 1 .. 8 /\ DOMAIN Offsets = 1 .. 8 /\ DOMAIN Selects = 1 .. 3 /\ DOMAIN Selected = 1 .. 3
  /\ Range(Scrolls) = ScrollPorts /\ Range(Selects) = SelectPorts
  /\ \A i, j \in 1 .. 8 : Scrolls[i] = Scrolls[j] => i = j
  /\ \A i, j \in 1 .. 3 : Selects[i] = Selects[j] => i = j
<1>1. DOMAIN Scrolls = 1 .. 8 /\ DOMAIN Offsets = 1 .. 8 /\ DOMAIN Selects = 1 .. 3 /\ DOMAIN Selected = 1 .. 3
  BY DEF Scrolls, Offsets, Selects, Selected
<1>2. Range(Scrolls) = ScrollPorts
  <2>1. \A p \in ScrollPorts : \E i \in 1 .. 8 : p = Scrolls[i]
    BY DEF Scrolls, ScrollPorts
  <2>2. \A i \in 1 .. 8 : Scrolls[i] \in ScrollPorts
    BY DEF Scrolls, ScrollPorts
  <2> QED
    BY <1>1, <2>1, <2>2 DEF Range
<1>3. Range(Selects) = SelectPorts
  <2>1. \A p \in SelectPorts : \E i \in 1 .. 3 : p = Selects[i]
    BY DEF Selects, SelectPorts
  <2>2. \A i \in 1 .. 3 : Selects[i] \in SelectPorts
    BY DEF Selects, SelectPorts
  <2> QED
    BY <1>1, <2>1, <2>2 DEF Range
<1>4. \A i, j \in 1 .. 8 : Scrolls[i] = Scrolls[j] => i = j
  BY SMTT(30) DEF Scrolls
<1>5. \A i, j \in 1 .. 3 : Selects[i] = Selects[j] => i = j
  BY DEF Selects
<1> QED
  BY <1>1, <1>2, <1>3, <1>4, <1>5

LEMMA IndexIs ==
  /\ \A i \in 1 .. 8 : PortIndex(Scrolls, Scrolls[i]) = i
  /\ \A i \in 1 .. 3 : PortIndex(Selects, Selects[i]) = i
BY TablesAre DEF PortIndex

PortsAlone == {"INIDISP", "MOSAIC"} \cup Composition \cup Unrecorded

LEMMA PortsApart ==
  /\ PortsAlone \cap ScrollPorts = {} /\ PortsAlone \cap SelectPorts = {} /\ ScrollPorts \cap SelectPorts = {}
  /\ {"INIDISP", "MOSAIC"} \cap Composition = {} /\ {"INIDISP", "MOSAIC"} \cap Unrecorded = {}
  /\ Composition \cap Unrecorded = {} /\ "COLDATA" \in Composition /\ "M7A" \in Unrecorded
BY DEF PortsAlone, ScrollPorts, SelectPorts, Composition, Unrecorded

LEMMA FieldsAre ==
  /\ Recorded \cap Unrecorded = {} /\ {"INIDISP", "mosaic", "hoffset7", "voffset7"} \subseteq Recorded
  /\ Composition \subseteq Recorded
  /\ \A i \in 1 .. 8 : Offsets[i] \in Recorded
  /\ \A i \in 1 .. 3 : Selected[i] \subseteq Recorded
<1>1. Range(Offsets) \subseteq {"hoffset1", "voffset1", "hoffset2", "voffset2", "hoffset3", "voffset3", "hoffset4", "voffset4"}
  BY DEF Range, Offsets
<1>2. UNION Range(Selected) \subseteq {"window1", "window2", "window3", "window4", "windowObj", "windowCol"}
  BY DEF Range, Selected
<1> DEFINE Dis == {"INIDISP", "mosaic", "hoffset7", "voffset7"}
           Off == Range(Offsets)
           Sel == UNION Range(Selected)
<1>9. Recorded = Dis \cup Off \cup Sel \cup Composition
  BY DEF Recorded
<1>3. Recorded \cap Unrecorded = {}
  <2>1. Off \cap Unrecorded = {}
    BY <1>1 DEF Unrecorded
  <2>2. Sel \cap Unrecorded = {}
    BY <1>2 DEF Unrecorded
  <2>3. Dis \cap Unrecorded = {}
    BY DEF Unrecorded
  <2>4. Composition \cap Unrecorded = {}
    BY PortsApart
  <2> HIDE DEF Dis, Off, Sel
  <2> QED
    BY <1>9, <2>1, <2>2, <2>3, <2>4
<1>4. \A i \in 1 .. 8 : Offsets[i] \in Range(Offsets)
  BY TablesAre DEF Range
<1>5. \A i \in 1 .. 3 : Selected[i] \in Range(Selected)
  BY TablesAre DEF Range
<1>6. Dis \subseteq Recorded /\ Composition \subseteq Recorded
  <2> HIDE DEF Dis, Off, Sel
  <2> QED
    BY <1>9
<1>7. \A i \in 1 .. 8 : Offsets[i] \in Recorded
  BY <1>4 DEF Recorded
<1>8. \A i \in 1 .. 3 : Selected[i] \subseteq Recorded
  BY <1>5 DEF Recorded
<1> QED
  BY <1>3, <1>6, <1>7, <1>8

\* What a port stores, by its kind.
LEMMA MosaicStores ==
  ASSUME NEW data
  PROVE  /\ Stored("MOSAIC", data) =
              [f \in {"mosaic"} |-> [enable  |-> data.enable, size |-> data.size,
                                     counter |-> MosaicCounter(io.mosaic, data)]]
         /\ Copied(Event("MOSAIC")) = {"mosaic"}
<1>1. "MOSAIC" \notin Range(Scrolls) /\ "MOSAIC" \notin Range(Selects)
  BY TablesAre, PortsApart DEF PortsAlone
<1>2. Event("MOSAIC") = [type |-> "Mosaic", index |-> 0]
  BY <1>1 DEF Event
<1>3. Copied([type |-> "Mosaic", index |-> 0]) = {"mosaic"}
  BY DEF Copied
<1>4. Stored("MOSAIC", data) =
              [f \in {"mosaic"} |-> [enable  |-> data.enable, size |-> data.size,
                                     counter |-> MosaicCounter(io.mosaic, data)]]
  BY <1>1 DEF Stored
<1> QED
  BY <1>2, <1>3, <1>4

LEMMA ScrollStores ==
  ASSUME NEW i \in 1 .. 8, NEW data
  PROVE  /\ Stored(Scrolls[i], data) = Scrolled(i, data)
         /\ Copied(Event(Scrolls[i])) = DOMAIN Scrolled(i, data)
         /\ DOMAIN Scrolled(i, data) \subseteq Recorded /\ "mosaic" \notin DOMAIN Scrolled(i, data)
<1>1. /\ Scrolls[i] \in Range(Scrolls) /\ PortIndex(Scrolls, Scrolls[i]) = i
      /\ Scrolls[i] # "MOSAIC" /\ Scrolls[i] # "INIDISP" /\ Scrolls[i] # "COLDATA" /\ Scrolls[i] # "M7A"
      /\ Scrolls[i] \notin Range(Selects)
  <2>1. Scrolls[i] \in Range(Scrolls)
    BY TablesAre DEF Range
  <2>2. Scrolls[i] \notin PortsAlone /\ Scrolls[i] \notin Range(Selects)
    BY <2>1, TablesAre, PortsApart
  <2> QED
    BY <2>1, <2>2, IndexIs, PortsApart DEF PortsAlone
<1>2. Stored(Scrolls[i], data) = Scrolled(i, data)
  BY <1>1 DEF Stored
<1>3. Event(Scrolls[i]) = [type |-> "Scroll", index |-> i - 1]
  BY <1>1 DEF Event
<1>4. Copied([type |-> "Scroll", index |-> i - 1]) =
        {Offsets[i]} \cup (IF i = 1 THEN {"hoffset7"} ELSE {}) \cup (IF i = 2 THEN {"voffset7"} ELSE {})
  BY DEF Copied
<1>5. DOMAIN Scrolled(i, data) =
        {Offsets[i]} \cup (IF i = 1 THEN {"hoffset7"} ELSE IF i = 2 THEN {"voffset7"} ELSE {})
  BY DEF Scrolled
<1>6. Offsets[i] # "mosaic"
  BY DEF Offsets
<1> QED
  BY <1>2, <1>3, <1>4, <1>5, <1>6, FieldsAre

LEMMA SelectStores ==
  ASSUME NEW i \in 1 .. 3, NEW data
  PROVE  /\ Stored(Selects[i], data) = [f \in Selected[i] |-> data]
         /\ Copied(Event(Selects[i])) = Selected[i]
         /\ Selected[i] \subseteq Recorded /\ "mosaic" \notin Selected[i]
<1>1. /\ Selects[i] \in Range(Selects) /\ Selects[i] \notin Range(Scrolls)
      /\ PortIndex(Selects, Selects[i]) = i
      /\ Selects[i] # "MOSAIC" /\ Selects[i] # "INIDISP" /\ Selects[i] # "COLDATA" /\ Selects[i] # "M7A"
  <2>1. Selects[i] \in Range(Selects)
    BY TablesAre DEF Range
  <2>2. Selects[i] \notin PortsAlone /\ Selects[i] \notin Range(Scrolls)
    BY <2>1, TablesAre, PortsApart
  <2> QED
    BY <2>1, <2>2, IndexIs, PortsApart DEF PortsAlone
<1>2. Stored(Selects[i], data) = [f \in Selected[i] |-> data]
  BY <1>1 DEF Stored
<1>3. Event(Selects[i]) = [type |-> "WindowSelect", index |-> i - 1]
  BY <1>1 DEF Event
<1>4. Copied([type |-> "WindowSelect", index |-> i - 1]) = Selected[i]
  BY DEF Copied
<1>5. "mosaic" \notin Selected[i]
  BY DEF Selected
<1> QED
  BY <1>2, <1>3, <1>4, <1>5, FieldsAre

LEMMA ColorStores ==
  ASSUME NEW data
  PROVE  /\ Stored("COLDATA", data) =
              [f \in {"COLDATA"} |-> [c \in {"red", "green"} |->
                 IF c \in data.channels THEN data.intensity ELSE io.COLDATA[c]]]
         /\ Copied(Event("COLDATA")) = {"COLDATA"}
<1>1. "COLDATA" \notin Range(Scrolls) /\ "COLDATA" \notin Range(Selects)
  BY TablesAre, PortsApart DEF PortsAlone
<1> QED
  BY <1>1 DEF Stored, Event, Copied

LEMMA OtherStores ==
  ASSUME NEW port \in PortsAlone, port \notin {"MOSAIC", "COLDATA", "M7A"}, NEW data
  PROVE  /\ Stored(port, data) = [f \in {port} |-> data]
         /\ Copied(Event(port)) = {port}
<1>1. port \notin Range(Scrolls) /\ port \notin Range(Selects)
  BY TablesAre, PortsApart
<1> QED
  BY <1>1 DEF Stored, Event, Copied

LEMMA MatrixStores ==
  ASSUME NEW data
  PROVE  Stored("M7A", data) = [f \in {"M7A"} |-> <<data, rasterLatch.mode7>>]
<1>1. "M7A" \notin Range(Scrolls) /\ "M7A" \notin Range(Selects)
  BY TablesAre, PortsApart DEF PortsAlone
<1> QED
  BY <1>1 DEF Stored

------------------------------------------------------------------------------
(* A line's events, undone and done again. *)

Same(s, t) == \A f \in Recorded : s[f] = t[f]

\* The registers after i of the events.
AfterEvent(ev, base, i) == IF i = 0 THEN base ELSE ev[i].after

\* Each event starts from the registers the one before left, and changes what is copied of it.
Chained(ev, base) ==
  \A i \in 1 .. Len(ev) :
    /\ Copied(ev[i].event) \subseteq Recorded
    /\ Same(ev[i].before, AfterEvent(ev, base, i - 1))
    /\ \A f \in Recorded : f \notin Copied(ev[i].event) => ev[i].after[f] = ev[i].before[f]

\* The line's copy was taken after some of them.
CopiedAmong(ev, base, copy) == \E k \in 0 .. Len(ev) : Same(copy, AfterEvent(ev, base, k))

DoneBefore(ev, d, i) ==
  /\ i \in 0 .. Len(ev)
  /\ \A j \in 1 .. i : ev[j].x <= d
  /\ i < Len(ev) => ev[i + 1].x > d

IsRedone(g, n, ev, s) ==
  g = [i \in 0 .. n |-> IF i = 0 THEN s ELSE ApplyRasterEvent(g[i - 1], ev[i], ev[i].after)]

IsUndone(g, n, ev, s) ==
  g = [i \in 0 .. n |-> IF i = n THEN s ELSE ApplyRasterEvent(g[i + 1], ev[i + 1], ev[i + 1].before)]

LEMMA RedoneExists ==
  ASSUME NEW n \in Nat, NEW ev, NEW s
  PROVE  \E g : IsRedone(g, n, ev, s)
<1> DEFINE Is(g, m) == IsRedone(g, m, ev, s)
           Bad == {m \in 0 .. n : ~(\E g : Is(g, m))}
<1>1. ASSUME Bad # {} PROVE FALSE
  <2>1. Bad \subseteq Nat
    OBVIOUS
  <2>2. PICK m \in Bad : \A k \in Bad : m <= k
    <3> HIDE DEF Bad
    <3> QED
      BY <1>1, <2>1, Smallest
  <2>3. m # 0
    <3>1. Is([i \in 0 .. 0 |-> s], 0)
      BY DEF IsRedone
    <3> HIDE DEF Is
    <3> QED
      BY <3>1
  <2>4. PICK g : Is(g, m - 1)
    <3>1. m - 1 \in 0 .. n /\ m - 1 \notin Bad
      BY <2>1, <2>2, <2>3
    <3> HIDE DEF Is
    <3> QED
      BY <3>1
  <2> DEFINE h == [i \in 0 .. m |-> IF i = m THEN ApplyRasterEvent(g[m - 1], ev[m], ev[m].after) ELSE g[i]]
  <2>5. ASSUME NEW i \in 0 .. m
        PROVE  h[i] = IF i = 0 THEN s ELSE ApplyRasterEvent(h[i - 1], ev[i], ev[i].after)
    <3>1. CASE i = 0
      BY <2>3, <2>4, <3>1 DEF IsRedone
    <3>2. CASE i = m
      BY <2>3, <3>2
    <3>3. CASE i # 0 /\ i # m
      <4>1. h[i] = g[i] /\ h[i - 1] = g[i - 1] /\ i \in 0 .. m - 1
        BY <3>3
      <4>2. g[i] = ApplyRasterEvent(g[i - 1], ev[i], ev[i].after)
        BY <2>4, <3>3, <4>1 DEF IsRedone
      <4> QED
        BY <3>3, <4>1, <4>2
    <3> QED
      BY <3>1, <3>2, <3>3
  <2>6. h = [i \in 0 .. m |-> h[i]]
    OBVIOUS
  <2> HIDE DEF h
  <2>7. Is(h, m)
    BY <2>5, <2>6 DEF IsRedone
  <2> HIDE DEF Is
  <2> QED
    BY <2>7
<1>2. \E g : Is(g, n)
  <2> HIDE DEF Is
  <2> QED
    BY <1>1
<1> QED
  BY <1>2

LEMMA UndoneExists ==
  ASSUME NEW n \in Nat, NEW ev, NEW s
  PROVE  \E g : IsUndone(g, n, ev, s)
<1> DEFINE Is(g, m) == g = [i \in n - m .. n |-> IF i = n THEN s
                              ELSE ApplyRasterEvent(g[i + 1], ev[i + 1], ev[i + 1].before)]
           Bad == {m \in 0 .. n : ~(\E g : Is(g, m))}
<1>1. ASSUME Bad # {} PROVE FALSE
  <2>1. Bad \subseteq Nat
    OBVIOUS
  <2>2. PICK m \in Bad : \A k \in Bad : m <= k
    <3> HIDE DEF Bad
    <3> QED
      BY <1>1, <2>1, Smallest
  <2>3. m # 0
    <3>1. Is([i \in n - 0 .. n |-> s], 0)
      OBVIOUS
    <3> HIDE DEF Is
    <3> QED
      BY <3>1
  <2>4. PICK g : Is(g, m - 1)
    <3>1. m - 1 \in 0 .. n /\ m - 1 \notin Bad
      <4>1. m - 1 \in Nat /\ m - 1 \in 0 .. n /\ ~(m <= m - 1)
        BY <2>1, <2>3
      <4> HIDE DEF Bad
      <4> QED
        BY <2>2, <4>1
    <3> HIDE DEF Is
    <3> QED
      BY <3>1
  <2>10. PICK l \in 0 .. n : l = n - m /\ n - (m - 1) = l + 1 /\ l # n
    BY <2>3
  <2> DEFINE h == [i \in l .. n |-> IF i = l THEN ApplyRasterEvent(g[l + 1], ev[l + 1], ev[l + 1].before) ELSE g[i]]
  <2>5. ASSUME NEW i \in l .. n
        PROVE  h[i] = IF i = n THEN s ELSE ApplyRasterEvent(h[i + 1], ev[i + 1], ev[i + 1].before)
    <3>1. CASE i = l
      BY <2>10, <3>1
    <3>2. CASE i = n
      BY <2>4, <2>10, <3>2
    <3>3. CASE i # l /\ i # n
      <4>1. h[i] = g[i] /\ h[i + 1] = g[i + 1] /\ i \in l + 1 .. n
        BY <2>10, <3>3
      <4>2. g[i] = ApplyRasterEvent(g[i + 1], ev[i + 1], ev[i + 1].before)
        BY <2>4, <2>10, <3>3, <4>1
      <4> QED
        BY <3>3, <4>1, <4>2
    <3> QED
      BY <3>1, <3>2, <3>3
  <2>6. h = [i \in l .. n |-> h[i]]
    OBVIOUS
  <2> HIDE DEF h
  <2>7. Is(h, m)
    BY <2>5, <2>6, <2>10
  <2> HIDE DEF Is
  <2> QED
    BY <2>7
<1>2. \E g : Is(g, n)
  <2> HIDE DEF Is
  <2> QED
    BY <1>1
<1>3. n - n = 0
  OBVIOUS
<1> QED
  BY <1>2, <1>3 DEF IsUndone

\* A field no event copies is the same throughout.
LEMMA NotCopied ==
  ASSUME NEW ev, NEW base, Len(ev) \in Nat, Chained(ev, base), NEW f \in Recorded, NEW l \in 0 .. Len(ev),
         \A j \in 1 .. l : f \notin Copied(ev[j].event)
  PROVE  \A k \in 0 .. l : AfterEvent(ev, base, k)[f] = base[f]
<1> DEFINE Bad == {k \in 0 .. l : AfterEvent(ev, base, k)[f] # base[f]}
<1>1. ASSUME Bad # {} PROVE FALSE
  <2>1. Bad \subseteq Nat
    OBVIOUS
  <2>2. PICK m \in Bad : \A k \in Bad : m <= k
    <3> HIDE DEF Bad
    <3> QED
      BY <1>1, <2>1, Smallest
  <2>3. m \in 1 .. l
    BY DEF AfterEvent
  <2>4. AfterEvent(ev, base, m - 1)[f] = base[f]
    BY <2>2, <2>3
  <2>5. m \in 1 .. Len(ev)
    BY <2>3
  <2>6. ev[m].before[f] = AfterEvent(ev, base, m - 1)[f]
    BY <2>5 DEF Chained, Same
  <2>7. ev[m].after[f] = ev[m].before[f]
    BY <2>3, <2>5 DEF Chained
  <2> QED
    BY <2>3, <2>4, <2>6, <2>7 DEF AfterEvent
<1> QED
  BY <1>1

\* Undoing all of them from the line's copy gives the registers they started from.
LEMMA StartIs ==
  ASSUME NEW y, NEW base, Len(events[y]) \in Nat, Chained(events[y], base),
         CopiedAmong(events[y], base, lines[y])
  PROVE  \A f \in Fields : Start(y)[f] = IF f \in Recorded THEN base[f] ELSE lines[y][f]
<1> DEFINE ev == events[y]
           n == Len(events[y])
           u == CHOOSE g : g = [i \in 0 .. Len(events[y]) |->
                                  IF i = Len(events[y]) THEN lines[y]
                                  ELSE ApplyRasterEvent(g[i + 1], events[y][i + 1], events[y][i + 1].before)]
<1>1. u = [i \in 0 .. n |-> IF i = n THEN lines[y] ELSE ApplyRasterEvent(u[i + 1], ev[i + 1], ev[i + 1].before)]
  <2>1. \E g : g = [i \in 0 .. n |-> IF i = n THEN lines[y]
                                    ELSE ApplyRasterEvent(g[i + 1], ev[i + 1], ev[i + 1].before)]
    <3>1. n \in Nat
      OBVIOUS
    <3> DEFINE s == lines[y]
    <3> HIDE DEF n, ev, s
    <3>2. \E g : IsUndone(g, n, ev, s)
      BY <3>1, UndoneExists, Zenon
    <3> QED
      BY <3>2, Zenon DEF s, IsUndone
  <2> QED
    BY <2>1, Zenon
<1>2. Start(y) = u[0]
  BY DEF Start
<1> HIDE DEF u
<1>3. PICK k \in 0 .. n : Same(lines[y], AfterEvent(ev, base, k))
  BY DEF CopiedAmong
<1> SUFFICES ASSUME NEW f \in Fields
             PROVE  u[0][f] = IF f \in Recorded THEN base[f] ELSE lines[y][f]
  BY <1>2
<1> DEFINE Later(i) == \E j \in i + 1 .. n : f \in Copied(ev[j].event)
           Good(i) == u[i][f] = IF Later(i) THEN AfterEvent(ev, base, i)[f] ELSE lines[y][f]
<1>4. Good(n)
  <2>1. ~Later(n) /\ u[n] = lines[y]
    BY <1>1
  <2> QED
    BY <2>1
<1>5. ASSUME NEW i \in 0 .. n, i < n, Good(i + 1) PROVE Good(i)
  <2>1. u[i] = ApplyRasterEvent(u[i + 1], ev[i + 1], ev[i + 1].before)
    BY <1>1, <1>5
  <2>2. u[i][f] = IF f \in Copied(ev[i + 1].event) THEN ev[i + 1].before[f] ELSE u[i + 1][f]
    BY <2>1 DEF ApplyRasterEvent
  <2>3. i + 1 \in 1 .. n /\ (i + 1) - 1 = i
    <3>1. n \in Nat /\ i \in 0 .. n /\ i < n
      BY <1>5, Zenon
    <3> HIDE DEF n
    <3> QED
      BY ONLY <3>1
  <2>4. /\ Copied(ev[i + 1].event) \subseteq Recorded
        /\ Same(ev[i + 1].before, AfterEvent(ev, base, i))
        /\ f \in Recorded /\ f \notin Copied(ev[i + 1].event) => ev[i + 1].after[f] = ev[i + 1].before[f]
    BY <2>3 DEF Chained
  <2>5. CASE f \in Copied(ev[i + 1].event)
    <3>1. u[i][f] = AfterEvent(ev, base, i)[f]
      BY <2>2, <2>4, <2>5 DEF Same
    <3>2. Later(i)
      BY <2>3, <2>5
    <3> QED
      BY <3>1, <3>2
  <2>6. CASE f \notin Copied(ev[i + 1].event)
    <3>1. u[i][f] = u[i + 1][f]
      BY <2>2, <2>6
    <3>2. Later(i) <=> Later(i + 1)
      BY <2>6, <2>3
    <3>3. ASSUME Later(i + 1) PROVE f \in Recorded
      <4>1. PICK j \in 1 .. n : f \in Copied(ev[j].event)
        BY <2>3, <3>3
      <4> QED
        BY <4>1 DEF Chained
    <3>4. ASSUME Later(i + 1) PROVE AfterEvent(ev, base, i + 1)[f] = AfterEvent(ev, base, i)[f]
      <4>1. AfterEvent(ev, base, i + 1) = ev[i + 1].after
        BY <2>3 DEF AfterEvent
      <4> QED
        BY <2>4, <2>6, <3>3, <3>4, <4>1 DEF Same
    <3> HIDE DEF Later
    <3> QED
      BY <1>5, <3>1, <3>2, <3>4
  <2> QED
    BY <2>5, <2>6
<1> DEFINE Bad == {m \in 0 .. n : ~Good(n - m)}
<1>6. Bad = {}
  <2>1. ASSUME Bad # {} PROVE FALSE
    <3>1. Bad \subseteq Nat
      OBVIOUS
    <3>2. PICK m \in Bad : \A l \in Bad : m <= l
      <4> HIDE DEF Bad
      <4> QED
        BY <2>1, <3>1, Smallest
    <3>3. m # 0
      <4>1. n - 0 = n
        OBVIOUS
      <4> HIDE DEF Good
      <4> QED
        BY <1>4, <4>1
    <3>4. m - 1 \in 0 .. n /\ m - 1 \notin Bad
      <4>1. m - 1 \in Nat /\ m - 1 \in 0 .. n /\ ~(m <= m - 1)
        BY <3>1, <3>3
      <4> HIDE DEF Bad
      <4> QED
        BY <3>2, <4>1
    <3>5. n - m \in 0 .. n /\ n - m < n /\ n - (m - 1) = (n - m) + 1
      BY <3>3
    <3> HIDE DEF Good
    <3>6. Good((n - m) + 1)
      BY <3>4, <3>5
    <3> QED
      BY <1>5, <3>5, <3>6
  <2> QED
    BY <2>1
<1>7. Good(0)
  <2>1. n \in 0 .. n /\ n - n = 0
    OBVIOUS
  <2> HIDE DEF Good
  <2> QED
    BY <1>6, <2>1
<1>8. CASE f \notin Recorded
  <2>1. ~Later(0)
    BY <1>8 DEF Chained
  <2> QED
    BY <1>7, <1>8, <2>1
<1>9. CASE f \in Recorded
  <2>1. CASE Later(0)
    BY <1>7, <1>9, <2>1 DEF AfterEvent
  <2>2. CASE ~Later(0)
    <3>1. \A j \in 1 .. n : f \notin Copied(ev[j].event)
      BY <2>2
    <3>2. AfterEvent(ev, base, k)[f] = base[f]
      BY <1>9, <3>1, NotCopied
    <3> QED
      BY <1>3, <1>7, <1>9, <2>2, <3>2 DEF Same
  <2> QED
    BY <2>1, <2>2
<1> QED
  BY <1>8, <1>9

\* Done again, they pass through the registers each of them left.
LEMMA RedoneIs ==
  ASSUME NEW y, NEW base, Len(events[y]) \in Nat, Chained(events[y], base),
         CopiedAmong(events[y], base, lines[y]), NEW i \in 0 .. Len(events[y])
  PROVE  \A f \in Fields :
           Redone(y)[i][f] = IF f \in Recorded THEN AfterEvent(events[y], base, i)[f] ELSE lines[y][f]
<1> DEFINE ev == events[y]
           n == Len(events[y])
           r == CHOOSE g : g = [i_1 \in 0 .. Len(events[y]) |->
                                  IF i_1 = 0 THEN Start(y)
                                  ELSE ApplyRasterEvent(g[i_1 - 1], events[y][i_1], events[y][i_1].after)]
<1>1. r = [j \in 0 .. n |-> IF j = 0 THEN Start(y) ELSE ApplyRasterEvent(r[j - 1], ev[j], ev[j].after)]
  <2>1. \E g : g = [j \in 0 .. n |-> IF j = 0 THEN Start(y) ELSE ApplyRasterEvent(g[j - 1], ev[j], ev[j].after)]
    <3>1. n \in Nat
      OBVIOUS
    <3> DEFINE s == Start(y)
    <3> HIDE DEF n, ev, s
    <3>2. \E g : IsRedone(g, n, ev, s)
      BY <3>1, RedoneExists, Zenon
    <3> QED
      BY <3>2, Zenon DEF s, IsRedone
  <2> QED
    BY <2>1, Zenon
<1>2. Redone(y) = r
  BY DEF Redone
<1> HIDE DEF r
<1> SUFFICES ASSUME NEW f \in Fields
             PROVE  r[i][f] = IF f \in Recorded THEN AfterEvent(ev, base, i)[f] ELSE lines[y][f]
  BY <1>2
<1> DEFINE Good(j) == r[j][f] = IF f \in Recorded THEN AfterEvent(ev, base, j)[f] ELSE lines[y][f]
<1>3. Good(0)
  <2>1. r[0] = Start(y)
    BY <1>1
  <2> QED
    BY <2>1, StartIs DEF AfterEvent
<1>4. ASSUME NEW j \in 1 .. n, Good(j - 1) PROVE Good(j)
  <2>0. j \in 0 .. n /\ j # 0
    <3>1. n \in Nat /\ j \in 1 .. n
      OBVIOUS
    <3> HIDE DEF n
    <3> QED
      BY ONLY <3>1
  <2>1. r[j] = ApplyRasterEvent(r[j - 1], ev[j], ev[j].after)
    <3> HIDE DEF n, ev, Good
    <3> QED
      BY <1>1, <2>0, Zenon
  <2>2. r[j][f] = IF f \in Copied(ev[j].event) THEN ev[j].after[f] ELSE r[j - 1][f]
    BY <2>1 DEF ApplyRasterEvent
  <2>3. /\ Copied(ev[j].event) \subseteq Recorded
        /\ Same(ev[j].before, AfterEvent(ev, base, j - 1))
        /\ f \in Recorded /\ f \notin Copied(ev[j].event) => ev[j].after[f] = ev[j].before[f]
    BY DEF Chained
  <2>4. AfterEvent(ev, base, j) = ev[j].after
    BY DEF AfterEvent
  <2> QED
    BY <1>4, <2>2, <2>3, <2>4 DEF Same
<1> DEFINE Bad == {j \in 0 .. n : ~Good(j)}
<1>5. ASSUME Bad # {} PROVE FALSE
  <2>1. Bad \subseteq Nat
    OBVIOUS
  <2>2. PICK m \in Bad : \A l \in Bad : m <= l
    <3> HIDE DEF Bad
    <3> QED
      BY <1>5, <2>1, Smallest
  <2>3. m # 0
    <3> HIDE DEF Good
    <3> QED
      BY <1>3
  <2>4. m \in 1 .. n /\ m - 1 \in 0 .. n /\ m - 1 \notin Bad
    <3>1. m - 1 \in Nat /\ m - 1 \in 0 .. n /\ ~(m <= m - 1) /\ m \in 1 .. n
      BY <2>1, <2>3
    <3> HIDE DEF Bad
    <3> QED
      BY <2>2, <3>1
  <2> HIDE DEF Good
  <2> QED
    BY <1>4, <2>4
<1>6. Good(i)
  <2> HIDE DEF Good
  <2> QED
    BY <1>5
<1> QED
  BY <1>6

\* A dot of the picture.
LEMMA DotIs ==
  ASSUME NEW y, NEW base, Len(events[y]) \in Nat, \A i \in 1 .. Len(events[y]) : events[y][i].x \in Nat,
         Chained(events[y], base), CopiedAmong(events[y], base, lines[y]), NEW d \in 0 .. Dots - 1
  PROVE  \E i : /\ DoneBefore(events[y], d, i)
                /\ \A f \in Fields : RenderLine(y)[d][f] =
                     IF f \in Recorded THEN AfterEvent(events[y], base, i)[f] ELSE lines[y][f]
<1> DEFINE ev == events[y]
           n == Len(events[y])
           Is(i) == (\A j \in 1 .. i : ev[j].x <= d) /\ (i < n => ev[i + 1].x > d)
<1>1. \E i \in 0 .. n : Is(i)
  <2> DEFINE U == {i \in 0 .. n : i < n => ev[i + 1].x > d}
  <2>1. U \subseteq Nat /\ n \in U
    OBVIOUS
  <2>2. PICK i \in U : \A j \in U : i <= j
    <3> HIDE DEF U
    <3> QED
      BY <2>1, Smallest
  <2>3. ASSUME NEW j \in 1 .. i PROVE ev[j].x <= d
    <3>1. j - 1 \in 0 .. n /\ j - 1 < n /\ ~(i <= j - 1) /\ (j - 1) + 1 = j
      BY <2>1
    <3>2. j - 1 \notin U
      <4> HIDE DEF U
      <4> QED
        BY <2>2, <3>1
    <3>3. ~(ev[j].x > d)
      BY <3>1, <3>2
    <3>4. j \in 1 .. n
      BY <2>1
    <3> QED
      BY <3>3, <3>4
  <2> QED
    BY <2>3
<1> DEFINE s == Span(y, d)
<1>2. s \in 0 .. n /\ Is(s)
  BY <1>1, Zenon DEF Span
<1> HIDE DEF s
<1>3. RenderLine(y)[d] = Redone(y)[s]
  BY DEF RenderLine, s
<1>4. DoneBefore(ev, d, s)
  BY <1>2 DEF DoneBefore
<1>5. \A f \in Fields : Redone(y)[s][f] = IF f \in Recorded THEN AfterEvent(ev, base, s)[f] ELSE lines[y][f]
  BY <1>2, RedoneIs, Zenon
<1> HIDE DEF ev, n
<1> QED
  BY <1>3, <1>4, <1>5, Zenon DEF ev

------------------------------------------------------------------------------
(* The invariant. *)

VisibleLines == 1 .. RasterVDisp - 1

Mosaics == [enable : 0 .. 1, size : Nat \ {0}, counter : Nat]

RasterTypes ==
  /\ ports \in PortSets
  /\ io = [f \in Fields |-> io[f]] /\ io.mosaic \in Mosaics
  /\ rasterLine \in 0 .. RasterVDisp /\ rasterDot \in 0 .. Dots
  /\ rasterFired \in BOOLEAN
  /\ lines = [y \in VisibleLines |-> lines[y]]
  /\ shown = [y \in VisibleLines |-> [d \in 0 .. Dots - 1 |-> shown[y][d]]]
  /\ events = [y \in VisibleLines |-> events[y]]
  /\ \A y \in VisibleLines : \E S : events[y] \in Seq(S)
  /\ \A y \in VisibleLines : \A i \in 1 .. Len(events[y]) : events[y][i].x \in Nat

\* A line is cached once, past its render cycle; the lines cached are those the beam has done.
BeamCaches ==
  /\ (lineCounted <=> rasterLine \in VisibleLines)
  /\ rasterFired => rasterLine \in VisibleLines /\ rasterDot >= RenderDot
  /\ rasterLine \in VisibleLines /\ rasterDot > RenderDot => rasterFired
  /\ lineCount = IF rasterLine \in VisibleLines
                 THEN (IF rasterFired THEN rasterLine ELSE rasterLine - 1) ELSE 0
  /\ lineStart = IF lineCount = 0 THEN 0 ELSE 1

\* The dots passed had the registers the events before them left.
PassedWith(ev, row, n) ==
  \A d \in 0 .. n - 1 : \A i : DoneBefore(ev, d, i) => Same(row[d], AfterEvent(ev, row[0], i))

\* A line the beam has done: its events lead from one to the next, and its copy is among them.
LineDone(y) ==
  /\ Chained(events[y], shown[y][0])
  /\ PassedWith(events[y], shown[y], Dots)
  /\ CopiedAmong(events[y], shown[y][0], lines[y])

\* The line the beam is on: the last event left what the registers are.
LineUnderway(y) ==
  /\ rasterDot = 0 => events[y] = <<>>
  /\ rasterDot > 0 =>
       /\ Chained(events[y], shown[y][0])
       /\ PassedWith(events[y], shown[y], rasterDot)
       /\ \A i \in 1 .. Len(events[y]) : events[y][i].x <= rasterDot
       /\ rasterDot < Dots => Same(io, AfterEvent(events[y], shown[y][0], Len(events[y])))
  /\ rasterFired => CopiedAmong(events[y], shown[y][0], lines[y])

Recording ==
  rasterLine < RasterVDisp =>
    \A y \in VisibleLines :
      /\ y > rasterLine => events[y] = <<>>
      /\ y < rasterLine => LineDone(y)
      /\ y = rasterLine => LineUnderway(y)

\* The mosaic's row stays in its block.
MosaicRows ==
  /\ rasterLine \in VisibleLines => InBlock(rasterLine, io.mosaic)
  /\ rasterLine < RasterVDisp =>
       \A y \in VisibleLines : \A d \in 0 .. Dots - 1 :
         y < rasterLine \/ (y = rasterLine /\ d < rasterDot) => InBlock(y, shown[y][d].mosaic)

RasterIInv == RasterTypes /\ BeamCaches /\ Recording /\ MosaicRows /\ PictureExact

\* What a write stores is what its event copies, when there is one.
LEMMA WriteStores ==
  ASSUME NEW port \in Ports, NEW data
  PROVE  /\ port \in Unrecorded => DOMAIN Stored(port, data) \cap Recorded = {}
         /\ port \notin Unrecorded => /\ Copied(Event(port)) = DOMAIN Stored(port, data)
                                      /\ DOMAIN Stored(port, data) \subseteq Recorded
         /\ port # "MOSAIC" => "mosaic" \notin DOMAIN Stored(port, data)
<1> DEFINE S == DOMAIN Stored(port, data)
           C == Copied(Event(port))
           Goal == /\ port \in Unrecorded => S \cap Recorded = {}
                   /\ port \notin Unrecorded => C = S /\ S \subseteq Recorded
                   /\ port # "MOSAIC" => "mosaic" \notin S
<1> SUFFICES Goal
  OBVIOUS
<1>0. "mosaic" \in Recorded /\ "INIDISP" \in Recorded /\ "mosaic" \notin Unrecorded /\ "mosaic" \notin Composition
      /\ "mosaic" # "INIDISP"
  BY FieldsAre DEF Unrecorded, Composition
<1>1. CASE port \in ScrollPorts
  <2>1. PICK i \in 1 .. 8 : port = Scrolls[i]
    BY <1>1, TablesAre DEF Range
  <2>2. port \notin Unrecorded
    BY <1>1, PortsApart DEF PortsAlone
  <2>3. S = DOMAIN Scrolled(i, data) /\ C = DOMAIN Scrolled(i, data)
        /\ DOMAIN Scrolled(i, data) \subseteq Recorded /\ "mosaic" \notin DOMAIN Scrolled(i, data)
    BY <2>1, ScrollStores
  <2> HIDE DEF S, C
  <2> QED
    BY <2>2, <2>3
<1>2. CASE port \in SelectPorts
  <2>1. PICK i \in 1 .. 3 : port = Selects[i]
    BY <1>2, TablesAre DEF Range
  <2>2. port \notin Unrecorded
    BY <1>2, PortsApart DEF PortsAlone
  <2>3. S = Selected[i] /\ C = Selected[i] /\ Selected[i] \subseteq Recorded /\ "mosaic" \notin Selected[i]
    <3>1. DOMAIN Stored(Selects[i], data) = Selected[i]
      BY SelectStores
    <3> QED
      BY <2>1, <3>1, SelectStores
  <2> HIDE DEF S, C
  <2> QED
    BY <2>2, <2>3
<1>3. CASE port = "MOSAIC"
  <2>1. S = {"mosaic"} /\ C = {"mosaic"}
    <3>1. DOMAIN Stored("MOSAIC", data) = {"mosaic"}
      BY MosaicStores
    <3> QED
      BY <1>3, <3>1, MosaicStores
  <2>2. port \notin Unrecorded
    BY <1>3, PortsApart
  <2> HIDE DEF S, C
  <2> QED
    BY <1>0, <1>3, <2>1, <2>2
<1>4. CASE port = "COLDATA"
  <2>1. S = {"COLDATA"} /\ C = {"COLDATA"}
    <3>1. DOMAIN Stored("COLDATA", data) = {"COLDATA"}
      BY ColorStores
    <3> QED
      BY <1>4, <3>1, ColorStores
  <2>2. port \notin Unrecorded /\ "COLDATA" \in Recorded
    BY <1>4, PortsApart, FieldsAre
  <2>3. "mosaic" # "COLDATA"
    OBVIOUS
  <2> HIDE DEF S, C
  <2> QED
    BY <1>4, <2>1, <2>2, <2>3
<1>5. CASE port = "M7A"
  <2>1. S = {"M7A"}
    <3>1. DOMAIN Stored("M7A", data) = {"M7A"}
      BY MatrixStores
    <3> QED
      BY <1>5, <3>1
  <2>2. port \in Unrecorded
    BY <1>5, PortsApart
  <2> HIDE DEF S, C
  <2> QED
    BY <1>0, <1>5, <2>1, <2>2, FieldsAre
<1>6. CASE port \in PortsAlone /\ port \notin {"MOSAIC", "COLDATA", "M7A"}
  <2>1. S = {port} /\ C = {port}
    <3>1. DOMAIN Stored(port, data) = {port}
      BY <1>6, OtherStores
    <3> QED
      BY <1>6, <3>1, OtherStores
  <2>2. port # "mosaic"
    BY <1>0, <1>6 DEF PortsAlone
  <2>3. port \in Unrecorded \/ port \in Recorded
    BY <1>0, <1>6, FieldsAre DEF PortsAlone
  <2> HIDE DEF S, C
  <2> QED
    BY <2>1, <2>2, <2>3, FieldsAre
<1>7. port \in ScrollPorts \cup SelectPorts \cup PortsAlone
  BY TablesAre DEF Ports, PortsAlone
<1> HIDE DEF Goal
<1> QED
  BY <1>1, <1>2, <1>3, <1>4, <1>5, <1>6, <1>7

LEMMA Appended ==
  ASSUME NEW s, NEW e, \E S : s \in Seq(S)
  PROVE  /\ \E S : Append(s, e) \in Seq(S)
         /\ Len(s) \in Nat /\ Len(Append(s, e)) = Len(s) + 1
         /\ \A i \in 1 .. Len(s) : Append(s, e)[i] = s[i]
         /\ Append(s, e)[Len(s) + 1] = e
<1>1. PICK S : s \in Seq(S)
  OBVIOUS
<1>2. s \in Seq(S \cup {e}) /\ e \in S \cup {e}
  BY <1>1
<1> QED
  BY <1>2, AppendProperties

\* An event that starts from what the last one left.
LEMMA EventAppended ==
  ASSUME NEW s, NEW base, NEW e, \E S : s \in Seq(S), Chained(s, base),
         Copied(e.event) \subseteq Recorded, Same(e.before, AfterEvent(s, base, Len(s))),
         \A f \in Recorded : f \notin Copied(e.event) => e.after[f] = e.before[f]
  PROVE  /\ Chained(Append(s, e), base)
         /\ AfterEvent(Append(s, e), base, Len(Append(s, e))) = e.after
         /\ \A i \in 0 .. Len(s) : AfterEvent(Append(s, e), base, i) = AfterEvent(s, base, i)
         /\ \A copy : CopiedAmong(s, base, copy) => CopiedAmong(Append(s, e), base, copy)
<1> DEFINE t == Append(s, e)
           n == Len(s)
<1>1. n \in Nat /\ Len(t) = n + 1 /\ (\A i \in 1 .. n : t[i] = s[i]) /\ t[n + 1] = e
  BY Appended
<1>a. n = Len(s)
  OBVIOUS
<1> HIDE DEF t, n
<1>2. \A i \in 0 .. n : AfterEvent(t, base, i) = AfterEvent(s, base, i)
  BY <1>1 DEF AfterEvent
<1>3. ASSUME NEW i \in 1 .. Len(t)
      PROVE  /\ Copied(t[i].event) \subseteq Recorded
             /\ Same(t[i].before, AfterEvent(t, base, i - 1))
             /\ \A f \in Recorded : f \notin Copied(t[i].event) => t[i].after[f] = t[i].before[f]
  <2>1. CASE i = n + 1
    <3>1. t[i] = e /\ i - 1 = n /\ n \in 0 .. n
      BY <1>1, <2>1
    <3> QED
      BY <1>2, <1>a, <3>1
  <2>2. CASE i # n + 1
    <3>1. i \in 1 .. n /\ i - 1 \in 0 .. n /\ t[i] = s[i]
      BY <1>1, <2>2
    <3>2. AfterEvent(t, base, i - 1) = AfterEvent(s, base, i - 1)
      BY <1>2, <3>1
    <3>3. i \in 1 .. Len(s)
      BY <1>a, <3>1
    <3> QED
      BY <3>1, <3>2, <3>3 DEF Chained
  <2> QED
    BY <2>1, <2>2
<1>4. Chained(t, base)
  BY <1>3 DEF Chained
<1>5. AfterEvent(t, base, Len(t)) = e.after
  BY <1>1 DEF AfterEvent
<1>6. ASSUME NEW copy, CopiedAmong(s, base, copy) PROVE CopiedAmong(t, base, copy)
  <2>1. PICK k \in 0 .. n : Same(copy, AfterEvent(s, base, k))
    BY <1>6, <1>a DEF CopiedAmong
  <2>2. k \in 0 .. Len(t)
    BY <1>1
  <2> QED
    BY <1>2, <2>1, <2>2 DEF CopiedAmong
<1> QED
  BY <1>2, <1>4, <1>5, <1>6, <1>a DEF t

\* An event after a dot changes nothing of what the dots before it were passed with.
LEMMA PassedBefore ==
  ASSUME NEW s, NEW e, \E S : s \in Seq(S), NEW row, NEW m \in Nat, e.x = m, PassedWith(s, row, m)
  PROVE  PassedWith(Append(s, e), row, m)
<1> DEFINE t == Append(s, e)
           n == Len(s)
<1>1. n \in Nat /\ Len(t) = n + 1 /\ (\A i \in 1 .. n : t[i] = s[i]) /\ t[n + 1] = e
  BY Appended
<1>a. n = Len(s)
  OBVIOUS
<1> HIDE DEF t, n
<1> SUFFICES ASSUME NEW d \in 0 .. m - 1, NEW i, DoneBefore(t, d, i)
             PROVE  Same(row[d], AfterEvent(t, row[0], i))
  BY DEF PassedWith, t
<1>2. i \in 0 .. n
  <2>1. i \in 0 .. n + 1 /\ \A j \in 1 .. i : t[j].x <= d
    BY <1>1 DEF DoneBefore
  <2>2. i # n + 1
    BY <1>1, <2>1
  <2> QED
    BY <1>1, <2>1, <2>2
<1>3. DoneBefore(s, d, i)
  <2>1. \A j \in 1 .. i : j \in 1 .. n /\ t[j].x <= d
    BY <1>1, <1>2 DEF DoneBefore
  <2>2. i < n => s[i + 1].x > d
    <3>1. i < n => i + 1 \in 1 .. n /\ i < Len(t)
      BY <1>1, <1>2
    <3> QED
      BY <1>1, <3>1 DEF DoneBefore
  <2> QED
    BY <1>1, <1>2, <1>a, <2>1, <2>2 DEF DoneBefore
<1>4. AfterEvent(t, row[0], i) = AfterEvent(s, row[0], i)
  BY <1>1, <1>2 DEF AfterEvent
<1> QED
  BY <1>3, <1>4 DEF PassedWith

\* The dot the beam leaves has what the last event left.
LEMMA DotPassed ==
  ASSUME NEW ev, NEW row, NEW new, NEW m \in Nat, Len(ev) \in Nat, PassedWith(ev, row, m),
         \A i \in 1 .. Len(ev) : ev[i].x \in Nat /\ ev[i].x <= m,
         \A d \in 0 .. m : new[d] = IF d = m THEN io ELSE row[d],
         Same(io, AfterEvent(ev, new[0], Len(ev)))
  PROVE  PassedWith(ev, new, m + 1)
<1> SUFFICES ASSUME NEW d \in 0 .. (m + 1) - 1, NEW i, DoneBefore(ev, d, i)
             PROVE  Same(new[d], AfterEvent(ev, new[0], i))
  BY DEF PassedWith
<1>1. CASE d = m
  <2>1. i \in 0 .. Len(ev) /\ (i < Len(ev) => ev[i + 1].x > d)
    BY DEF DoneBefore
  <2>2. i = Len(ev)
    <3>1. i < Len(ev) => i + 1 \in 1 .. Len(ev)
      BY <2>1
    <3>2. i < Len(ev) => ev[i + 1].x \in Nat /\ ev[i + 1].x <= m /\ ev[i + 1].x > m
      BY <1>1, <2>1, <3>1
    <3> QED
      BY <2>1, <3>2
  <2> QED
    BY <1>1, <2>2
<1>2. CASE d # m
  <2>1. d \in 0 .. m - 1 /\ new[d] = row[d] /\ new[0] = row[0]
    BY <1>2
  <2> QED
    BY <2>1 DEF PassedWith
<1> QED
  BY <1>1, <1>2

\* The mosaic of the next line.
LEMMA MosaicAdvances ==
  ASSUME io.mosaic \in Mosaics, NEW y \in 0 .. RasterVDisp
  PROVE  /\ AdvanceMosaicCounter(y) \in Mosaics
         /\ y \in VisibleLines /\ (y # 1 => InBlock(y - 1, io.mosaic)) => InBlock(y, AdvanceMosaicCounter(y))
<1> DEFINE m == io.mosaic
<1>1. m.enable \in 0 .. 1 /\ m.size \in Nat \ {0} /\ m.counter \in Nat
  BY DEF Mosaics
<1>2. CASE y = 0 \/ y >= RasterVDisp
  <2>1. AdvanceMosaicCounter(y) = m
    BY <1>2 DEF AdvanceMosaicCounter
  <2>2. y \notin VisibleLines
    BY <1>2, RasterNumbers DEF VisibleLines
  <2> QED
    BY <2>1, <2>2
<1>3. CASE ~(y = 0 \/ y >= RasterVDisp)
  <2>1. PICK c \in Nat : c = IF y # 1 THEN m.counter ELSE IF m.enable = 0 THEN 0 ELSE m.size + 1
    BY <1>1
  <2>2. PICK new \in Nat : new = IF c = 0 THEN 0
                                 ELSE IF c > 1 THEN c - 1 ELSE IF m.enable = 0 THEN 0 ELSE m.size
    BY <1>1, <2>1
  <2>3. AdvanceMosaicCounter(y) = [m EXCEPT !.counter = new]
    BY <1>3, <2>1, <2>2 DEF AdvanceMosaicCounter
  <2>4. [m EXCEPT !.counter = new] = [enable |-> m.enable, size |-> m.size, counter |-> new]
    BY DEF Mosaics
  <2>5. [enable |-> m.enable, size |-> m.size, counter |-> new] \in Mosaics
    BY <1>1, <2>2 DEF Mosaics
  <2>6. ASSUME y \in VisibleLines, y # 1 => InBlock(y - 1, m)
        PROVE  InBlock(y, [enable |-> m.enable, size |-> m.size, counter |-> new])
    <3>1. m.enable # 0 => new \in 1 .. m.size /\ m.size - new < y
      <4>1. CASE y = 1
        BY <1>1, <2>1, <2>2, <4>1
      <4>2. CASE y # 1 /\ m.enable # 0
        <5>1. m.counter \in 1 .. m.size /\ m.size - m.counter < y - 1
          BY <2>6, <4>2 DEF InBlock
        <5>2. c = m.counter /\ c >= 1
          BY <2>1, <4>2, <5>1, <1>1
        <5> QED
          BY <1>1, <2>2, <4>2, <5>1, <5>2
      <4> QED
        BY <4>1, <4>2
    <3> QED
      BY <3>1 DEF InBlock
  <2> QED
    BY <2>3, <2>4, <2>5, <2>6
<1> QED
  BY <1>2, <1>3

\* A write to MOSAIC.
LEMMA MosaicWritten ==
  ASSUME io.mosaic \in Mosaics, rasterLine \in Nat, NEW data \in [enable : 0 .. 1, size : Nat \ {0}]
  PROVE  LET m == [enable |-> data.enable, size |-> data.size, counter |-> MosaicCounter(io.mosaic, data)]
         IN  m \in Mosaics /\ (rasterLine > 0 /\ InBlock(rasterLine, io.mosaic) => InBlock(rasterLine, m))
<1>1. /\ io.mosaic.enable \in 0 .. 1 /\ io.mosaic.size \in Nat \ {0} /\ io.mosaic.counter \in Nat
      /\ data.enable \in 0 .. 1 /\ data.size \in Nat \ {0}
  BY DEF Mosaics
<1>2. PICK c \in Nat : c = MosaicCounter(io.mosaic, data)
  BY <1>1 DEF MosaicCounter
<1>3. [enable |-> data.enable, size |-> data.size, counter |-> c] \in Mosaics
  BY <1>1 DEF Mosaics
<1>4. ASSUME rasterLine > 0, InBlock(rasterLine, io.mosaic), data.enable # 0
      PROVE  c \in 1 .. data.size /\ data.size - c < rasterLine
  <2>1. CASE data.enable # io.mosaic.enable \/ data.size # io.mosaic.size
    <3>1. c = data.size
      BY <1>2, <1>4, <2>1 DEF MosaicCounter
    <3> QED
      BY <1>1, <1>4, <3>1
  <2>2. CASE ~(data.enable # io.mosaic.enable \/ data.size # io.mosaic.size)
    <3>1. c = io.mosaic.counter /\ data.size = io.mosaic.size /\ io.mosaic.enable # 0
      BY <1>2, <1>4, <2>2 DEF MosaicCounter
    <3> QED
      BY <1>4, <3>1 DEF InBlock
  <2> QED
    BY <2>1, <2>2
<1> QED
  BY <1>2, <1>3, <1>4 DEF InBlock

------------------------------------------------------------------------------

LEMMA RasterBegins == RasterInit => RasterIInv
<1> SUFFICES ASSUME RasterInit PROVE RasterIInv
  OBVIOUS
<1>1. RasterTypes
  <2>1. "mosaic" \in Fields
    BY FieldsAre DEF Fields
  <2>9. "mosaic" \notin Range(Offsets) /\ "mosaic" # "COLDATA"
    BY DEF Range, Offsets
  <2>2. io.mosaic = [enable |-> 0, size |-> 1, counter |-> 0]
    <3>1. Initial("mosaic") = [enable |-> 0, size |-> 1, counter |-> 0]
      BY <2>9 DEF Initial
    <3> QED
      BY <2>1, <3>1 DEF RasterInit
  <2>3. io.mosaic \in Mosaics
    BY <2>2 DEF Mosaics
  <2>4. io = [f \in Fields |-> io[f]]
    BY DEF RasterInit
  <2>5. \A y \in VisibleLines : events[y] = <<>>
    BY DEF RasterInit, VisibleLines
  <2>6. \A y \in VisibleLines : \E S : events[y] \in Seq(S)
    <3>1. <<>> \in Seq({})
      OBVIOUS
    <3> QED
      BY <2>5, <3>1
  <2>7. shown = [y \in VisibleLines |-> [d \in 0 .. Dots - 1 |-> shown[y][d]]]
    BY DEF RasterInit, Unwritten, VisibleLines
  <2>8. \A y \in VisibleLines : \A i \in 1 .. Len(events[y]) : events[y][i].x \in Nat
    BY <2>5
  <2>10. ports \in PortSets /\ rasterLine \in 0 .. RasterVDisp /\ rasterDot \in 0 .. Dots
    BY RasterNumbers DEF RasterInit
  <2>11. rasterFired \in BOOLEAN /\ lines = [y \in VisibleLines |-> lines[y]]
         /\ events = [y \in VisibleLines |-> events[y]]
    BY DEF RasterInit, VisibleLines
  <2> QED
    BY <2>3, <2>4, <2>6, <2>7, <2>8, <2>10, <2>11 DEF RasterTypes
<1>2. BeamCaches
  <2>1. rasterLine \notin VisibleLines
    BY RasterNumbers DEF RasterInit, VisibleLines
  <2>2. lineCounted = FALSE /\ rasterFired = FALSE /\ lineCount = 0 /\ lineStart = 0
    BY DEF RasterInit
  <2> QED
    BY <2>1, <2>2 DEF BeamCaches
<1>3. Recording
  <2>1. \A y \in VisibleLines : events[y] = <<>>
    BY DEF RasterInit, VisibleLines
  <2>2. rasterLine = 0
    BY DEF RasterInit
  <2> QED
    BY <2>1, <2>2, RasterNumbers DEF Recording, VisibleLines
<1>4. MosaicRows
  BY RasterNumbers DEF RasterInit, MosaicRows, VisibleLines
<1> QED
  BY <1>1, <1>2, <1>3, <1>4 DEF RasterIInv, RasterInit, PictureExact

LEMMA RasterRestsKeep == RasterIInv /\ UNCHANGED rasterVars => RasterIInv'
<1> SUFFICES ASSUME RasterIInv, UNCHANGED rasterVars PROVE RasterIInv'
  OBVIOUS
<1>1. /\ ports' = ports /\ io' = io /\ rasterLine' = rasterLine /\ rasterDot' = rasterDot
      /\ lineCounted' = lineCounted /\ rasterFired' = rasterFired /\ lines' = lines
      /\ lineStart' = lineStart /\ lineCount' = lineCount /\ events' = events
      /\ shown' = shown /\ wrong' = wrong /\ ragged' = ragged
  BY DEF rasterVars, cached, history
<1>2. RasterTypes'
  BY <1>1, Zenon DEF RasterIInv, RasterTypes, VisibleLines
<1>3. BeamCaches'
  BY <1>1, Zenon DEF RasterIInv, BeamCaches, VisibleLines
<1>4. Recording'
  <2>1. \A y \in VisibleLines : (LineDone(y)' <=> LineDone(y)) /\ (LineUnderway(y)' <=> LineUnderway(y))
    BY <1>1, Zenon DEF LineDone, LineUnderway, VisibleLines, Same
  <2> QED
    BY <1>1, <2>1 DEF RasterIInv, Recording, VisibleLines
<1>5. MosaicRows'
  BY <1>1, Zenon DEF RasterIInv, MosaicRows, VisibleLines, InBlock
<1>6. PictureExact'
  BY <1>1 DEF RasterIInv, PictureExact
<1> QED
  BY <1>2, <1>3, <1>4, <1>5, <1>6 DEF RasterIInv

\* A write: the event it records starts from the registers and leaves them.
LEMMA WriteKeeps == RasterIInv /\ WritePort => RasterIInv'
<1> SUFFICES ASSUME RasterIInv, WritePort PROVE RasterIInv'
  OBVIOUS
<1>0. RasterTypes /\ BeamCaches /\ Recording /\ MosaicRows /\ PictureExact
  BY DEF RasterIInv
<1>20. PICK port \in ports : \E data \in Inputs(port) : Write(port, data)
  BY DEF WritePort
<1>1. PICK data \in Inputs(port) : Write(port, data)
  BY <1>20
<1>2. port \in Ports
  BY <1>0, RasterNumbers DEF RasterTypes
<1> DEFINE S == DOMAIN Stored(port, data)
<1>3. io' = [f \in Fields |-> IF f \in S THEN Stored(port, data)[f] ELSE io[f]]
  BY <1>1 DEF Write
<1>4. /\ UNCHANGED <<ports, rasterLine, rasterDot, lineCounted>>
      /\ UNCHANGED <<rasterFired, lines, lineStart, lineCount>> /\ UNCHANGED <<shown, wrong, ragged>>
      /\ events' = RecordRasterEvent(port, io')
  BY <1>1 DEF Write, cached, history
<1>5. \A f \in Recorded : f \in Fields
  BY DEF Fields
<1>6. "mosaic" \in Fields /\ "mosaic" \in Recorded
  BY FieldsAre DEF Fields
<1>7. io'.mosaic \in Mosaics /\ (rasterLine \in VisibleLines /\ InBlock(rasterLine, io.mosaic) => InBlock(rasterLine, io'.mosaic))
  <2>1. CASE port = "MOSAIC"
    <3>1. data \in [enable : 0 .. 1, size : MosaicSizes]
      BY <2>1 DEF Inputs
    <3>2. data \in [enable : 0 .. 1, size : Nat \ {0}]
      BY <3>1, RasterNumbers
    <3>3. io'.mosaic = [enable |-> data.enable, size |-> data.size, counter |-> MosaicCounter(io.mosaic, data)]
      <4>1. Stored(port, data) = [f \in {"mosaic"} |-> [enable  |-> data.enable, size |-> data.size,
                                     counter |-> MosaicCounter(io.mosaic, data)]]
        BY <2>1, MosaicStores
      <4>2. "mosaic" \in S
        BY <4>1
      <4>3. io'.mosaic = Stored(port, data)["mosaic"]
        <5> HIDE DEF S
        <5> QED
          BY <1>3, <1>6, <4>2
      <4> QED
        BY <4>1, <4>3
    <3>4. rasterLine \in Nat /\ io.mosaic \in Mosaics
      BY <1>0 DEF RasterTypes
    <3>5. rasterLine \in VisibleLines => rasterLine > 0
      BY <3>4 DEF VisibleLines
    <3> QED
      BY <3>2, <3>3, <3>4, <3>5, MosaicWritten
  <2>2. CASE port # "MOSAIC"
    <3>1. "mosaic" \notin S
      BY <1>2, <2>2, WriteStores
    <3>2. io'.mosaic = io.mosaic
      <4> HIDE DEF S
      <4> QED
        BY <1>3, <1>6, <3>1
    <3> QED
      BY <1>0, <3>2 DEF RasterTypes
  <2> QED
    BY <2>1, <2>2
<1> DEFINE recorded == port \notin Unrecorded /\ rasterLine \in VisibleLines /\ rasterDot \in 1 .. Dots - 1
           e == [x |-> rasterDot, event |-> Event(port), before |-> io, after |-> io']
           y0 == rasterLine
<1>8. /\ ~recorded => events' = events
      /\ recorded => events' = [events EXCEPT ![rasterLine] = Append(events[rasterLine], e)]
  BY <1>4 DEF RecordRasterEvent, VisibleLines
<1>9. ASSUME port \in Unrecorded PROVE Same(io', io)
  <2>1. S \cap Recorded = {}
    BY <1>2, <1>9, WriteStores
  <2> HIDE DEF S
  <2> QED
    BY <1>3, <1>5, <2>1 DEF Same
<1>10. ASSUME port \notin Unrecorded
       PROVE  /\ Copied(e.event) \subseteq Recorded
              /\ \A f \in Recorded : f \notin Copied(e.event) => e.after[f] = e.before[f]
  <2>1. Copied(Event(port)) = S /\ S \subseteq Recorded
    BY <1>2, <1>10, WriteStores
  <2>2. \A f \in Recorded : f \notin S => io'[f] = io[f]
    <3> HIDE DEF S
    <3> QED
      BY <1>3, <1>5
  <2> HIDE DEF S
  <2> QED
    BY <2>1, <2>2
<1>11. e.before = io /\ e.after = io' /\ e.x = rasterDot
  OBVIOUS
<1> HIDE DEF S, e
<1>12. /\ RasterTypes /\ rasterLine \in Nat /\ rasterDot \in Nat
       /\ events = [y \in VisibleLines |-> events[y]]
       /\ \A y \in VisibleLines : \E T : events[y] \in Seq(T)
  BY <1>0, RasterNumbers DEF RasterTypes
<1>13. recorded => /\ \A y \in VisibleLines : y # rasterLine => events'[y] = events[y]
                   /\ events'[rasterLine] = Append(events[rasterLine], e)
                   /\ events' = [y \in VisibleLines |-> events'[y]]
  BY <1>8, <1>12
<1>14. \A y \in VisibleLines : y # rasterLine => events'[y] = events[y]
  BY <1>8, <1>13
<1>15. RasterTypes'
  <2>1. io' = [f \in Fields |-> io'[f]]
    BY <1>3
  <2>2. events' = [y \in VisibleLines |-> events'[y]]
    BY <1>8, <1>12, <1>13
  <2>3. ASSUME recorded
        PROVE  /\ \E T : events'[rasterLine] \in Seq(T)
               /\ \A i \in 1 .. Len(events'[rasterLine]) : events'[rasterLine][i].x \in Nat
    <3>1. \E T : events[rasterLine] \in Seq(T)
      BY <1>12, <2>3
    <3>2. /\ \E T : Append(events[rasterLine], e) \in Seq(T)
          /\ Len(events[rasterLine]) \in Nat
          /\ Len(Append(events[rasterLine], e)) = Len(events[rasterLine]) + 1
          /\ \A i \in 1 .. Len(events[rasterLine]) : Append(events[rasterLine], e)[i] = events[rasterLine][i]
          /\ Append(events[rasterLine], e)[Len(events[rasterLine]) + 1] = e
      <4> DEFINE s == events[rasterLine]
      <4>1. \E T : s \in Seq(T)
        BY <3>1
      <4> HIDE DEF s, recorded
      <4>2. /\ \E T : Append(s, e) \in Seq(T)
            /\ Len(s) \in Nat /\ Len(Append(s, e)) = Len(s) + 1
            /\ \A i \in 1 .. Len(s) : Append(s, e)[i] = s[i]
            /\ Append(s, e)[Len(s) + 1] = e
        BY ONLY <4>1, Appended
      <4> QED
        BY <4>2 DEF s
    <3>3. \A i \in 1 .. Len(events[rasterLine]) : events[rasterLine][i].x \in Nat
      BY <1>12, <2>3 DEF RasterTypes
    <3>4. ASSUME NEW i \in 1 .. Len(Append(events[rasterLine], e)) PROVE Append(events[rasterLine], e)[i].x \in Nat
      <4>1. CASE i \in 1 .. Len(events[rasterLine])
        BY <3>2, <3>3, <4>1
      <4>2. CASE i = Len(events[rasterLine]) + 1
        BY <3>2, <1>11, <1>12, <4>2
      <4> QED
        BY <3>2, <4>1, <4>2
    <3> QED
      BY <1>13, <2>3, <3>2, <3>4
  <2>4. \A y \in VisibleLines : \E T : events'[y] \in Seq(T)
    BY <1>8, <1>12, <1>14, <2>3
  <2>5. \A y \in VisibleLines : \A i \in 1 .. Len(events'[y]) : events'[y][i].x \in Nat
    <3>1. \A y \in VisibleLines : \A i \in 1 .. Len(events[y]) : events[y][i].x \in Nat
      BY <1>12 DEF RasterTypes
    <3>2. CASE recorded
      BY <1>14, <2>3, <3>1, <3>2
    <3>3. CASE ~recorded
      BY <1>8, <3>1, <3>3
    <3> QED
      BY <3>2, <3>3
  <2> HIDE DEF recorded
  <2> QED
    BY <1>4, <1>7, <1>12, <2>1, <2>2, <2>4, <2>5 DEF RasterTypes, VisibleLines
<1>16. BeamCaches'
  BY <1>0, <1>4 DEF BeamCaches, VisibleLines
<1>17. Recording'
  <2> SUFFICES ASSUME rasterLine < RasterVDisp, NEW y \in VisibleLines
               PROVE  /\ y > rasterLine => events'[y] = <<>>
                      /\ y < rasterLine => LineDone(y)'
                      /\ y = rasterLine => LineUnderway(y)'
    BY <1>4 DEF Recording, VisibleLines
  <2>1. /\ y > rasterLine => events[y] = <<>>
        /\ y < rasterLine => LineDone(y)
        /\ y = rasterLine => LineUnderway(y)
    BY <1>0 DEF Recording
  <2>2. CASE y > rasterLine
    BY <1>12, <1>14, <2>1, <2>2 DEF VisibleLines
  <2>3. CASE y < rasterLine
    <3>1. events'[y] = events[y] /\ shown'[y] = shown[y] /\ lines'[y] = lines[y] /\ y # rasterLine
      BY <1>4, <1>12, <1>14, <2>3 DEF VisibleLines
    <3> QED
      BY <2>1, <2>3, <1>12, <3>1 DEF LineDone, VisibleLines
  <2>4. CASE y = rasterLine
    <3> SUFFICES LineUnderway(y)'
      BY <1>12, <2>4 DEF VisibleLines
    <3>1. LineUnderway(y)
      BY <2>1, <2>4
    <3>2. CASE ~recorded
      <4>1. events' = events /\ rasterDot' = rasterDot /\ shown' = shown /\ lines' = lines /\ rasterFired' = rasterFired
        BY <1>4, <1>8, <3>2
      <4>2. 0 < rasterDot /\ rasterDot < Dots => Same(io', io)
        <5>1. 0 < rasterDot /\ rasterDot < Dots => port \in Unrecorded
          BY <1>12, <2>4, <3>2, RasterNumbers
        <5> QED
          BY <1>9, <5>1
      <4> HIDE DEF recorded
      <4>3. 0 < rasterDot /\ rasterDot < Dots => Same(io', AfterEvent(events[y], shown[y][0], Len(events[y])))
        BY <3>1, <4>2 DEF LineUnderway, Same
      <4> QED
        BY <3>1, <4>1, <4>3 DEF LineUnderway
    <3>3. CASE recorded
      <4> DEFINE s == events[y]
                 b == shown[y][0]
      <4>1. rasterDot > 0 /\ rasterDot # 0 /\ rasterDot < Dots /\ rasterDot \in Nat
        BY <1>12, <3>3, RasterNumbers
      <4>2. /\ Chained(s, b) /\ PassedWith(s, shown[y], rasterDot)
            /\ \A i \in 1 .. Len(s) : s[i].x <= rasterDot
            /\ Same(io, AfterEvent(s, b, Len(s)))
            /\ rasterFired => CopiedAmong(s, b, lines[y])
        BY <3>1, <4>1 DEF LineUnderway
      <4>3. events'[y] = Append(s, e)
        BY <1>13, <2>4, <3>3
      <4>4. \E T : s \in Seq(T)
        BY <1>12
      <4>5. /\ Copied(e.event) \subseteq Recorded
            /\ Same(e.before, AfterEvent(s, b, Len(s)))
            /\ \A f \in Recorded : f \notin Copied(e.event) => e.after[f] = e.before[f]
        BY <1>10, <1>11, <3>3, <4>2
      <4>12. Chained(s, b)
        BY <4>2, Zenon
      <4> HIDE DEF s, b, recorded
      <4>6. /\ Chained(Append(s, e), b)
            /\ AfterEvent(Append(s, e), b, Len(Append(s, e))) = e.after
            /\ \A copy : CopiedAmong(s, b, copy) => CopiedAmong(Append(s, e), b, copy)
        <5>1. \E T : s \in Seq(T)
          BY <4>4, Zenon
        <5>2. Chained(s, b) /\ Copied(e.event) \subseteq Recorded /\ Same(e.before, AfterEvent(s, b, Len(s)))
          BY <4>5, <4>12, Zenon
        <5>3. \A f \in Recorded : f \notin Copied(e.event) => e.after[f] = e.before[f]
          BY <4>5, Zenon
        <5> QED
          BY ONLY <5>1, <5>2, <5>3, EventAppended, ZenonT(30)
      <4>7. PassedWith(Append(s, e), shown[y], rasterDot)
        BY <1>11, <4>1, <4>2, <4>4, PassedBefore
      <4>8. \A i \in 1 .. Len(Append(s, e)) : Append(s, e)[i].x <= rasterDot
        <5>1. /\ Len(s) \in Nat /\ Len(Append(s, e)) = Len(s) + 1
              /\ \A i \in 1 .. Len(s) : Append(s, e)[i] = s[i]
              /\ Append(s, e)[Len(s) + 1] = e
          BY <4>4, Appended
        <5> SUFFICES ASSUME NEW i \in 1 .. Len(Append(s, e)) PROVE Append(s, e)[i].x <= rasterDot
          OBVIOUS
        <5>2. CASE i \in 1 .. Len(s)
          BY <4>2, <5>1, <5>2
        <5>3. CASE i = Len(s) + 1
          BY <1>11, <4>1, <5>1, <5>3
        <5> QED
          BY <5>1, <5>2, <5>3
      <4>9. Same(io', AfterEvent(Append(s, e), b, Len(Append(s, e))))
        BY <1>11, <4>6 DEF Same
      <4>10. rasterFired' = rasterFired /\ shown' = shown /\ lines' = lines /\ rasterDot' = rasterDot
        BY <1>4
      <4>11. b = shown[y][0]
        BY DEF b
      <4> HIDE DEF recorded
      <4> QED
        BY <4>1, <4>2, <4>3, <4>6, <4>7, <4>8, <4>9, <4>10, <4>11 DEF LineUnderway
    <3> QED
      BY <3>2, <3>3
  <2> QED
    BY <1>12, <2>2, <2>3, <2>4 DEF VisibleLines
<1>18. MosaicRows'
  BY <1>0, <1>4, <1>7 DEF MosaicRows, VisibleLines, InBlock
<1>19. PictureExact'
  BY <1>0, <1>4 DEF PictureExact
<1> QED
  BY <1>15, <1>16, <1>17, <1>18, <1>19 DEF RasterIInv

\* The line's copy is of the registers the last event left.
LEMMA ScanlineKeeps == RasterIInv /\ RasterScanlineBegin => RasterIInv'
<1> SUFFICES ASSUME RasterIInv, RasterScanlineBegin PROVE RasterIInv'
  OBVIOUS
<1>0. RasterTypes /\ BeamCaches /\ Recording /\ MosaicRows /\ PictureExact
  BY DEF RasterIInv
<1>1. /\ ~rasterFired /\ rasterLine \in VisibleLines /\ rasterDot = RenderDot /\ rasterFired' = TRUE
      /\ lineCounted' = TRUE /\ lines' = [lines EXCEPT ![rasterLine] = io']
      /\ lineStart' = (IF lineCount = 0 THEN rasterLine ELSE lineStart) /\ lineCount' = lineCount + 1
      /\ ports' = ports /\ rasterLine' = rasterLine /\ rasterDot' = rasterDot /\ events' = events
      /\ shown' = shown /\ wrong' = wrong /\ ragged' = ragged
  BY DEF RasterScanlineBegin, history, VisibleLines
<1>2. io' = io
  <2>1. lineCounted
    BY <1>0, <1>1 DEF BeamCaches
  <2> QED
    BY <2>1 DEF RasterScanlineBegin
<1>3. rasterLine \in Nat /\ rasterLine < RasterVDisp /\ rasterLine >= 1
      /\ rasterDot \in Nat /\ rasterDot > 0 /\ rasterDot < Dots
  BY <1>1, RasterNumbers DEF VisibleLines
<1>4. lines = [y \in VisibleLines |-> lines[y]]
  BY <1>0 DEF RasterTypes
<1>5. /\ lines' = [y \in VisibleLines |-> lines'[y]] /\ lines'[rasterLine] = io
      /\ \A y \in VisibleLines : y # rasterLine => lines'[y] = lines[y]
  BY <1>1, <1>2, <1>4
<1>6. RasterTypes'
  BY <1>0, <1>1, <1>2, <1>5 DEF RasterTypes, VisibleLines
<1>7. BeamCaches'
  <2>1. lineCount = rasterLine - 1 /\ lineStart = IF lineCount = 0 THEN 0 ELSE 1
    BY <1>0, <1>1 DEF BeamCaches
  <2>2. lineCount' = rasterLine /\ lineStart' = 1 /\ lineCount' # 0
    BY <1>1, <1>3, <2>1
  <2> QED
    BY <1>1, <1>3, <2>2, RasterNumbers DEF BeamCaches, VisibleLines
<1>8. Recording'
  <2> SUFFICES ASSUME NEW y \in VisibleLines
               PROVE  /\ y > rasterLine => events[y] = <<>>
                      /\ y < rasterLine => LineDone(y)'
                      /\ y = rasterLine => LineUnderway(y)'
    BY <1>1 DEF Recording, VisibleLines
  <2>1. /\ y > rasterLine => events[y] = <<>>
        /\ y < rasterLine => LineDone(y)
        /\ y = rasterLine => LineUnderway(y)
    BY <1>0, <1>3 DEF Recording
  <2>2. CASE y < rasterLine
    <3>1. lines'[y] = lines[y] /\ events' = events /\ shown' = shown
      BY <1>1, <1>3, <1>5, <2>2 DEF VisibleLines
    <3>2. LineDone(y)'
      BY <2>1, <2>2, <3>1 DEF LineDone
    <3> QED
      BY <1>3, <2>2, <3>2 DEF VisibleLines
  <2>3. CASE y = rasterLine
    <3>1. LineUnderway(y)
      BY <2>1, <2>3
    <3>2. CopiedAmong(events[y], shown[y][0], lines'[y])
      <4>1. Same(io, AfterEvent(events[y], shown[y][0], Len(events[y])))
        BY <1>3, <3>1 DEF LineUnderway
      <4>2. Len(events[y]) \in 0 .. Len(events[y])
        <5>1. PICK S : events[y] \in Seq(S)
          BY <1>0 DEF RasterTypes
        <5> QED
          BY <5>1
      <4> QED
        BY <1>5, <2>3, <4>1, <4>2 DEF CopiedAmong
    <3>3. LineUnderway(y)'
      <4>1. events' = events /\ shown' = shown /\ rasterDot' = rasterDot /\ io' = io
        BY <1>1, <1>2
      <4> QED
        BY <3>1, <3>2, <4>1 DEF LineUnderway
    <3> QED
      BY <1>3, <2>3, <3>3 DEF VisibleLines
  <2> QED
    BY <1>3, <2>1, <2>2, <2>3 DEF VisibleLines
<1>9. MosaicRows'
  BY <1>0, <1>1, <1>2 DEF MosaicRows, VisibleLines, InBlock
<1>10. PictureExact'
  BY <1>0, <1>1 DEF PictureExact
<1> QED
  BY <1>6, <1>7, <1>8, <1>9, <1>10 DEF RasterIInv

\* The beam leaves a dot: the first of a line has the registers its events start from.
LEMMA DotKeeps == RasterIInv /\ NextDot => RasterIInv'
<1> SUFFICES ASSUME RasterIInv, NextDot PROVE RasterIInv'
  OBVIOUS
<1>0. RasterTypes /\ BeamCaches /\ Recording /\ MosaicRows /\ PictureExact
  BY DEF RasterIInv
<1>1. /\ rasterDot < Dots /\ rasterDot' = rasterDot + 1
      /\ rasterDot = RenderDot /\ rasterLine \in VisibleLines => rasterFired
      /\ shown' = IF rasterLine \in VisibleLines
                  THEN [shown EXCEPT ![rasterLine][rasterDot] = io] ELSE shown
      /\ ports' = ports /\ io' = io /\ rasterLine' = rasterLine /\ lineCounted' = lineCounted
      /\ rasterFired' = rasterFired /\ lines' = lines /\ lineStart' = lineStart /\ lineCount' = lineCount
      /\ events' = events /\ wrong' = wrong /\ ragged' = ragged
  BY DEF NextDot, cached, VisibleLines
<1>2. rasterLine \in Nat /\ rasterDot \in Nat /\ rasterDot \in 0 .. Dots - 1
  BY <1>0, <1>1, RasterNumbers DEF RasterTypes
<1>3. shown = [y \in VisibleLines |-> [d \in 0 .. Dots - 1 |-> shown[y][d]]]
  BY <1>0 DEF RasterTypes
<1>4. /\ shown' = [y \in VisibleLines |-> [d \in 0 .. Dots - 1 |-> shown'[y][d]]]
      /\ \A y \in VisibleLines : \A d \in 0 .. Dots - 1 :
           shown'[y][d] = IF y = rasterLine /\ d = rasterDot THEN io ELSE shown[y][d]
  <2>1. CASE rasterLine \notin VisibleLines
    BY <1>1, <1>3, <2>1
  <2>2. CASE rasterLine \in VisibleLines
    <3> DEFINE row == [shown[rasterLine] EXCEPT ![rasterDot] = io]
    <3>1. shown' = [shown EXCEPT ![rasterLine] = row]
      BY <1>1, <2>2
    <3>2. shown[rasterLine] = [d \in 0 .. Dots - 1 |-> shown[rasterLine][d]]
      BY <1>3, <2>2
    <3>3. row = [d \in 0 .. Dots - 1 |-> row[d]]
          /\ \A d \in 0 .. Dots - 1 : row[d] = IF d = rasterDot THEN io ELSE shown[rasterLine][d]
      BY <3>2
    <3> HIDE DEF row
    <3>4. \A y \in VisibleLines : shown'[y] = IF y = rasterLine THEN row ELSE shown[y]
      BY <1>3, <2>2, <3>1
    <3>5. shown' = [y \in VisibleLines |-> shown'[y]]
      BY <1>3, <2>2, <3>1
    <3>6. \A y \in VisibleLines : shown'[y] = [d \in 0 .. Dots - 1 |-> shown'[y][d]]
      BY <1>3, <3>3, <3>4
    <3> QED
      BY <3>3, <3>4, <3>5, <3>6
  <2> QED
    BY <2>1, <2>2
<1>5. RasterTypes'
  <2>1. rasterDot' \in 0 .. Dots
    BY <1>1, <1>2, RasterNumbers
  <2> QED
    BY <1>0, <1>1, <1>4, <2>1 DEF RasterTypes, VisibleLines
<1>6. BeamCaches'
  <2>1. rasterFired => rasterDot + 1 >= RenderDot
    BY <1>0, <1>2, RasterNumbers DEF BeamCaches
  <2>2. rasterLine \in VisibleLines /\ rasterDot + 1 > RenderDot => rasterFired
    <3>1. rasterDot + 1 > RenderDot => rasterDot = RenderDot \/ rasterDot > RenderDot
      BY <1>2, RasterNumbers
    <3> QED
      BY <1>0, <1>1, <3>1 DEF BeamCaches
  <2> QED
    BY <1>0, <1>1, <2>1, <2>2 DEF BeamCaches, VisibleLines
<1>7. Recording'
  <2> SUFFICES ASSUME rasterLine < RasterVDisp, NEW y \in VisibleLines
               PROVE  /\ y > rasterLine => events[y] = <<>>
                      /\ y < rasterLine => LineDone(y)'
                      /\ y = rasterLine => LineUnderway(y)'
    BY <1>1 DEF Recording, VisibleLines
  <2>1. /\ y > rasterLine => events[y] = <<>>
        /\ y < rasterLine => LineDone(y)
        /\ y = rasterLine => LineUnderway(y)
    BY <1>0 DEF Recording
  <2>2. CASE y < rasterLine
    <3>1. lines' = lines /\ events' = events /\ shown'[y] = shown[y]
      <4>1. y # rasterLine
        BY <1>2, <2>2 DEF VisibleLines
      <4> QED
        BY <1>1, <1>3, <1>4, <4>1
    <3>2. LineDone(y)'
      BY <2>1, <2>2, <3>1 DEF LineDone
    <3> QED
      BY <1>2, <2>2, <3>2 DEF VisibleLines
  <2>3. CASE y = rasterLine
    <3> DEFINE ev == events[y]
               row == shown[y]
               new == shown'[y]
    <3>1. LineUnderway(y)
      BY <2>1, <2>3
    <3>2. Len(ev) \in Nat /\ \A i \in 1 .. Len(ev) : ev[i].x \in Nat
      <4>1. PICK S : ev \in Seq(S)
        BY <1>0 DEF RasterTypes
      <4> QED
        BY <1>0, <4>1 DEF RasterTypes
    <3>3. \A d \in 0 .. rasterDot : new[d] = IF d = rasterDot THEN io ELSE row[d]
      <4>1. \A d \in 0 .. rasterDot : d \in 0 .. Dots - 1
        BY <1>2, RasterNumbers
      <4> QED
        BY <1>4, <2>3, <4>1
    <3>4. /\ Chained(ev, new[0]) /\ PassedWith(ev, row, rasterDot)
          /\ \A i \in 1 .. Len(ev) : ev[i].x <= rasterDot
          /\ Same(io, AfterEvent(ev, new[0], Len(ev)))
          /\ rasterFired => CopiedAmong(ev, new[0], lines[y])
      <4>1. CASE rasterDot = 0
        <5>1. ev = <<>> /\ new[0] = io
          BY <1>2, <3>1, <3>3, <4>1 DEF LineUnderway
        <5>2. ~rasterFired
          BY <1>0, <4>1, RasterNumbers DEF BeamCaches
        <5>3. Len(ev) = 0
          BY <5>1
        <5> QED
          BY <4>1, <5>1, <5>2, <5>3 DEF Chained, PassedWith, Same, AfterEvent
      <4>2. CASE rasterDot # 0
        <5>1. rasterDot > 0 /\ new[0] = row[0]
          BY <1>2, <3>3, <4>2
        <5> QED
          BY <1>1, <3>1, <5>1 DEF LineUnderway
      <4> QED
        BY <4>1, <4>2
    <3> HIDE DEF ev, row, new
    <3>5. \A i \in 1 .. Len(ev) : ev[i].x \in Nat /\ ev[i].x <= rasterDot
      BY <3>2, <3>4
    <3>6. PassedWith(ev, new, rasterDot + 1)
      BY <1>2, <3>2, <3>3, <3>4, <3>5, DotPassed
    <3>7. \A i \in 1 .. Len(ev) : ev[i].x <= rasterDot + 1
      BY <1>2, <3>5
    <3>8. ev = events[y] /\ new = shown'[y] /\ events' = events /\ io' = io /\ lines' = lines
          /\ rasterFired' = rasterFired /\ rasterDot' = rasterDot + 1 /\ rasterDot' # 0
      BY <1>1, <1>2 DEF ev, new
    <3>9. LineUnderway(y)'
      BY <3>4, <3>6, <3>7, <3>8 DEF LineUnderway
    <3> QED
      BY <1>2, <2>3, <3>9 DEF VisibleLines
  <2> QED
    BY <1>2, <2>1, <2>2, <2>3 DEF VisibleLines
<1>8. MosaicRows'
  <2> SUFFICES ASSUME rasterLine < RasterVDisp, NEW y \in VisibleLines, NEW d \in 0 .. Dots - 1,
                      y < rasterLine \/ (y = rasterLine /\ d < rasterDot + 1)
               PROVE  InBlock(y, shown'[y][d].mosaic)
    BY <1>0, <1>1 DEF MosaicRows, VisibleLines, InBlock
  <2>1. CASE y = rasterLine /\ d = rasterDot
    BY <1>0, <1>4, <2>1 DEF MosaicRows
  <2>2. CASE ~(y = rasterLine /\ d = rasterDot)
    <3>1. shown'[y][d] = shown[y][d]
      BY <1>4, <2>2
    <3>2. y < rasterLine \/ (y = rasterLine /\ d < rasterDot)
      BY <1>2, <2>2
    <3> QED
      BY <1>0, <3>1, <3>2 DEF MosaicRows
  <2> QED
    BY <2>1, <2>2
<1>9. PictureExact'
  BY <1>0, <1>1 DEF PictureExact
<1> QED
  BY <1>5, <1>6, <1>7, <1>8, <1>9 DEF RasterIInv

\* The picture: every dot has what the beam passed it with.
LEMMA FrameExact ==
  ASSUME RasterIInv, rasterDot = Dots, rasterLine = RasterVDisp - 1, RenderFrame
  PROVE  wrong' = {} /\ ragged' = {}
<1>0. RasterTypes /\ BeamCaches /\ Recording /\ MosaicRows
  BY DEF RasterIInv
<1>1. rasterLine \in VisibleLines /\ rasterLine < RasterVDisp /\ rasterLine \in Nat
  BY RasterNumbers DEF VisibleLines
<1> DEFINE rows == lineStart .. lineStart + lineCount - 1
           picture == [y \in rows |-> RenderLine(y)]
<1>2. rows = VisibleLines
  <2>1. rasterFired
    BY <1>0, <1>1, RasterNumbers DEF BeamCaches
  <2>2. lineCount = rasterLine /\ lineStart = 1
    BY <1>0, <1>1, <2>1, RasterNumbers DEF BeamCaches, VisibleLines
  <2> QED
    BY <1>1, <2>2, RasterNumbers DEF VisibleLines
<1>3. /\ wrong' = {p \in rows \X (0 .. Dots - 1) : \E f \in Fields :
                     picture[p[1]][p[2]][f] # (IF f \in Recorded THEN shown[p[1]][p[2]] ELSE lines[p[1]])[f]}
      /\ ragged' = {y \in rows : \E d \in 0 .. Dots - 1 : ~InBlock(y, picture[y][d].mosaic)}
  BY DEF RenderFrame
<1> HIDE DEF rows, picture
<1>4. \A y \in VisibleLines : picture[y] = RenderLine(y)
  BY <1>2 DEF picture
<1>5. ASSUME NEW y \in VisibleLines, NEW d \in 0 .. Dots - 1
      PROVE  /\ \A f \in Fields : RenderLine(y)[d][f] = (IF f \in Recorded THEN shown[y][d] ELSE lines[y])[f]
             /\ InBlock(y, RenderLine(y)[d].mosaic)
  <2>1. LineDone(y)
    <3>1. y < rasterLine \/ y = rasterLine
      BY <1>1, RasterNumbers DEF VisibleLines
    <3>2. CASE y < rasterLine
      BY <1>0, <1>1, <3>2 DEF Recording
    <3>3. CASE y = rasterLine
      <4>1. LineUnderway(y)
        BY <1>0, <1>1, <3>3 DEF Recording
      <4>2. rasterDot > 0 /\ rasterFired
        BY <1>0, <1>1, RasterNumbers DEF BeamCaches
      <4> QED
        BY <4>1, <4>2 DEF LineUnderway, LineDone
    <3> QED
      BY <3>1, <3>2, <3>3
  <2>2. Len(events[y]) \in Nat /\ \A i \in 1 .. Len(events[y]) : events[y][i].x \in Nat
    <3>1. PICK S : events[y] \in Seq(S)
      BY <1>0 DEF RasterTypes
    <3> QED
      BY <1>0, <3>1 DEF RasterTypes
  <2>3. PICK i : /\ DoneBefore(events[y], d, i)
                 /\ \A f \in Fields : RenderLine(y)[d][f] =
                      IF f \in Recorded THEN AfterEvent(events[y], shown[y][0], i)[f] ELSE lines[y][f]
    BY <2>1, <2>2, DotIs DEF LineDone
  <2>4. Same(shown[y][d], AfterEvent(events[y], shown[y][0], i))
    BY <2>1, <2>3 DEF LineDone, PassedWith
  <2>5. \A f \in Fields : RenderLine(y)[d][f] = (IF f \in Recorded THEN shown[y][d] ELSE lines[y])[f]
    BY <2>3, <2>4 DEF Same
  <2>6. "mosaic" \in Fields /\ "mosaic" \in Recorded
    BY FieldsAre DEF Fields
  <2>7. RenderLine(y)[d].mosaic = shown[y][d].mosaic
    BY <2>5, <2>6
  <2>8. InBlock(y, shown[y][d].mosaic)
    <3>1. y < rasterLine \/ (y = rasterLine /\ d < rasterDot)
      BY <1>1, RasterNumbers DEF VisibleLines
    <3> QED
      BY <1>0, <1>1, <3>1 DEF MosaicRows
  <2> QED
    BY <2>5, <2>7, <2>8
<1>6. ASSUME NEW p \in wrong' PROVE FALSE
  <2>1. p \in VisibleLines \X (0 .. Dots - 1)
    BY <1>2, <1>3
  <2>2. PICK y \in VisibleLines, d \in 0 .. Dots - 1 : p[1] = y /\ p[2] = d
    BY <2>1
  <2>3. \E f \in Fields : picture[y][d][f] # (IF f \in Recorded THEN shown[y][d] ELSE lines[y])[f]
    BY <1>3, <2>2
  <2>4. picture[y][d] = RenderLine(y)[d]
    BY <1>4
  <2>5. \A f \in Fields : RenderLine(y)[d][f] = (IF f \in Recorded THEN shown[y][d] ELSE lines[y])[f]
    BY <1>5
  <2> QED
    BY <2>3, <2>4, <2>5
<1>7. ASSUME NEW y \in ragged' PROVE FALSE
  <2>1. y \in VisibleLines /\ \E d \in 0 .. Dots - 1 : ~InBlock(y, picture[y][d].mosaic)
    BY <1>2, <1>3
  <2>2. picture[y] = RenderLine(y)
    BY <1>4, <2>1
  <2> QED
    BY <1>5, <2>1, <2>2
<1> QED
  BY <1>6, <1>7

\* The beam goes to the next line, and draws the picture after the last.
LEMMA RasterLineKeeps == RasterIInv /\ NextRasterLine => RasterIInv'
<1> SUFFICES ASSUME RasterIInv, NextRasterLine PROVE RasterIInv'
  OBVIOUS
<1>0. RasterTypes /\ BeamCaches /\ Recording /\ MosaicRows /\ PictureExact
  BY DEF RasterIInv
<1>1. /\ rasterDot = Dots /\ rasterDot' = 0
      /\ rasterLine' = (rasterLine + 1) % (RasterVDisp + 1)
      /\ io' = [io EXCEPT !.mosaic = AdvanceMosaicCounter(rasterLine')]
      /\ lineCounted' = (rasterLine' \in VisibleLines)
      /\ rasterFired' = FALSE
      /\ ports' = ports /\ lines' = lines
      /\ events' = IF rasterLine' = 0 THEN [y \in DOMAIN events |-> <<>>] ELSE events
  BY DEF NextRasterLine, VisibleLines
<1>2. rasterLine \in 0 .. RasterVDisp /\ rasterLine \in Nat
  BY <1>0, RasterNumbers DEF RasterTypes
<1>3. rasterLine' = IF rasterLine = RasterVDisp THEN 0 ELSE rasterLine + 1
  <2>1. PICK v \in Nat : v = RasterVDisp + 1 /\ v > 1
    BY RasterNumbers
  <2>2. PICK l \in Nat : l = rasterLine + 1 /\ l <= v
    BY <1>2, <2>1, RasterNumbers
  <2>3. l % v = IF l = v THEN 0 ELSE l
    BY <2>1, <2>2
  <2> QED
    BY <1>1, <1>2, <2>1, <2>2, <2>3, RasterNumbers
<1>4. rasterLine' \in 0 .. RasterVDisp
  BY <1>2, <1>3, RasterNumbers
<1>5. /\ rasterLine' = RasterVDisp => RenderFrame
      /\ rasterLine' # RasterVDisp =>
           /\ shown' = shown /\ wrong' = wrong /\ ragged' = ragged
           /\ lineStart' = (IF rasterLine' = 0 THEN 0 ELSE lineStart)
           /\ lineCount' = (IF rasterLine' = 0 THEN 0 ELSE lineCount)
  BY DEF NextRasterLine, history
<1>6. /\ io' = [f \in Fields |-> io'[f]] /\ io'.mosaic = AdvanceMosaicCounter(rasterLine')
  <2>1. io = [f \in Fields |-> io[f]] /\ "mosaic" \in Fields
    BY <1>0, FieldsAre DEF RasterTypes, Fields
  <2> QED
    BY <1>1, <2>1
<1>7. /\ io'.mosaic \in Mosaics
      /\ rasterLine' \in VisibleLines => InBlock(rasterLine', io'.mosaic)
  <2>1. PICK n \in 0 .. RasterVDisp : n = rasterLine'
    BY <1>4
  <2>2. n \in VisibleLines /\ n # 1 => InBlock(n - 1, io.mosaic)
    <3>1. n \in VisibleLines /\ n # 1 => rasterLine = n - 1 /\ rasterLine \in VisibleLines
      BY <1>2, <1>3, <2>1, RasterNumbers DEF VisibleLines
    <3> QED
      BY <1>0, <3>1 DEF MosaicRows
  <2>3. io.mosaic \in Mosaics
    BY <1>0 DEF RasterTypes
  <2> QED
    BY <1>6, <2>1, <2>2, <2>3, MosaicAdvances
<1>8. rasterLine' = RasterVDisp => wrong' = {} /\ ragged' = {} /\ lineStart' = 0 /\ lineCount' = 0 /\ shown' = Unwritten
  <2> SUFFICES ASSUME rasterLine' = RasterVDisp
               PROVE  wrong' = {} /\ ragged' = {} /\ lineStart' = 0 /\ lineCount' = 0 /\ shown' = Unwritten
    OBVIOUS
  <2>1. rasterLine = RasterVDisp - 1
    BY <1>2, <1>3, RasterNumbers
  <2>2. wrong' = {} /\ ragged' = {}
    BY <1>1, <1>5, <2>1, FrameExact
  <2> QED
    BY <1>5, <2>2 DEF RenderFrame
<1>9. shown' = [y \in VisibleLines |-> [d \in 0 .. Dots - 1 |-> shown'[y][d]]]
  <2>1. CASE rasterLine' = RasterVDisp
    BY <1>8, <2>1 DEF Unwritten, VisibleLines
  <2>2. CASE rasterLine' # RasterVDisp
    BY <1>0, <1>5, <2>2 DEF RasterTypes
  <2> QED
    BY <2>1, <2>2
<1>10. /\ DOMAIN events = VisibleLines
       /\ rasterLine' = 0 => \A y \in VisibleLines : events'[y] = <<>>
       /\ rasterLine' # 0 => events' = events
       /\ events' = [y \in VisibleLines |-> events'[y]]
  <2>1. events = [y \in VisibleLines |-> events[y]]
    BY <1>0 DEF RasterTypes
  <2> QED
    BY <1>1, <2>1
<1>11. /\ \A y \in VisibleLines : \E S : events'[y] \in Seq(S)
       /\ \A y \in VisibleLines : \A i \in 1 .. Len(events'[y]) : events'[y][i].x \in Nat
  <2>1. CASE rasterLine' = 0
    <3>1. \A S : <<>> \in Seq(S)
      OBVIOUS
    <3>2. Len(<<>>) = 0
      OBVIOUS
    <3>3. \A y \in VisibleLines : events'[y] = <<>>
      BY <1>10, <2>1
    <3>4. \A y \in VisibleLines : \E S : events'[y] \in Seq(S)
      BY <3>1, <3>3
    <3>5. \A y \in VisibleLines : \A i \in 1 .. Len(events'[y]) : events'[y][i].x \in Nat
      BY <3>2, <3>3
    <3> QED
      BY <3>4, <3>5
  <2>2. CASE rasterLine' # 0
    BY <1>0, <1>10, <2>2 DEF RasterTypes
  <2> QED
    BY <2>1, <2>2
<1>12. RasterTypes'
  <2>6. 0 \in 0 .. Dots
    BY RasterNumbers
  <2>1. rasterDot' \in 0 .. Dots /\ rasterFired' \in BOOLEAN
    BY <1>1, <2>6, Zenon
  <2>2. ports' \in PortSets /\ lines' = [y \in VisibleLines |-> lines'[y]]
    BY <1>0, <1>1 DEF RasterTypes
  <2>3. events' = [y \in VisibleLines |-> events'[y]]
    BY <1>10
  <2>4. VisibleLines' = VisibleLines
    BY DEF VisibleLines
  <2> QED
    BY <1>4, <1>6, <1>7, <1>9, <1>11, <2>1, <2>2, <2>3, <2>4, Zenon DEF RasterTypes
<1>13. BeamCaches'
  <2>1. /\ lineCount' = IF rasterLine' \in VisibleLines THEN rasterLine' - 1 ELSE 0
        /\ lineStart' = IF lineCount' = 0 THEN 0 ELSE 1
    <3>1. CASE rasterLine' = RasterVDisp
      BY <1>8, <3>1, RasterNumbers DEF VisibleLines
    <3>2. CASE rasterLine' = 0
      BY <1>5, <3>2, RasterNumbers DEF VisibleLines
    <3>3. CASE rasterLine' # 0 /\ rasterLine' # RasterVDisp
      <4>1. lineCount' = lineCount /\ lineStart' = lineStart
        BY <1>5, <3>3
      <4>2. rasterLine' = rasterLine + 1 /\ rasterLine' \in VisibleLines /\ (rasterLine = 0 \/ rasterLine \in VisibleLines)
        BY <1>2, <1>3, <3>3, RasterNumbers DEF VisibleLines
      <4>3. rasterLine \in VisibleLines => rasterFired
        BY <1>0, <1>1, RasterNumbers DEF BeamCaches
      <4>4. lineCount = rasterLine
        BY <1>0, <4>2, <4>3 DEF BeamCaches, VisibleLines
      <4>5. lineStart = IF lineCount = 0 THEN 0 ELSE 1
        BY <1>0 DEF BeamCaches
      <4> QED
        BY <1>2, <4>1, <4>2, <4>4, <4>5
    <3> QED
      BY <3>1, <3>2, <3>3
  <2>2. rasterDot' = 0 /\ ~(0 > RenderDot)
    BY <1>1, RasterNumbers
  <2> QED
    BY <1>1, <2>1, <2>2 DEF BeamCaches, VisibleLines
<1>14. Recording'
  <2> SUFFICES ASSUME rasterLine' < RasterVDisp, NEW y \in VisibleLines
               PROVE  /\ y > rasterLine' => events'[y] = <<>>
                      /\ y < rasterLine' => LineDone(y)'
                      /\ y = rasterLine' => LineUnderway(y)'
    BY DEF Recording, VisibleLines
  <2>1. ~rasterFired' /\ rasterDot' = 0 /\ ~(rasterDot' > 0)
    BY <1>1
  <2>2. CASE rasterLine' = 0
    <3>1. y > rasterLine' /\ ~(y < rasterLine') /\ y # rasterLine' /\ events'[y] = <<>>
      BY <1>10, <2>2 DEF VisibleLines
    <3> QED
      BY <3>1
  <2>3. CASE rasterLine' # 0
    <3>1. events' = events /\ shown' = shown /\ lines' = lines /\ rasterLine' = rasterLine + 1 /\ rasterLine < RasterVDisp
      BY <1>1, <1>2, <1>3, <1>5, <1>10, <2>3, RasterNumbers
    <3>2. /\ y > rasterLine => events[y] = <<>>
          /\ y < rasterLine => LineDone(y)
          /\ y = rasterLine => LineUnderway(y)
      BY <1>0, <3>1 DEF Recording
    <3>3. y = rasterLine => LineDone(y)
      <4> SUFFICES ASSUME y = rasterLine PROVE LineDone(y)
        OBVIOUS
      <4>1. rasterDot > 0 /\ rasterFired
        BY <1>0, <1>1, RasterNumbers DEF BeamCaches
      <4> QED
        BY <1>1, <3>2, <4>1 DEF LineUnderway, LineDone
    <3>4. y < rasterLine' => LineDone(y)
      BY <1>2, <3>1, <3>2, <3>3 DEF VisibleLines
    <3>5. LineDone(y) => LineDone(y)'
      BY <3>1 DEF LineDone
    <3>6. y >= rasterLine' => events'[y] = <<>>
      BY <1>2, <3>1, <3>2 DEF VisibleLines
    <3>7. y = rasterLine' => LineUnderway(y)'
      BY <1>2, <2>1, <3>6, <3>1 DEF LineUnderway, VisibleLines
    <3> QED
      BY <1>2, <3>1, <3>4, <3>5, <3>6, <3>7 DEF VisibleLines
  <2> QED
    BY <2>2, <2>3
<1>15. MosaicRows'
  <2>1. ASSUME rasterLine' < RasterVDisp, NEW y \in VisibleLines, NEW d \in 0 .. Dots - 1,
               y < rasterLine' \/ (y = rasterLine' /\ d < 0)
        PROVE  InBlock(y, shown'[y][d].mosaic)
    <3>1. y < rasterLine' /\ rasterLine' # 0
      BY <1>4, <2>1, RasterNumbers DEF VisibleLines
    <3>2. shown' = shown /\ rasterLine' = rasterLine + 1 /\ rasterLine < RasterVDisp
      BY <1>2, <1>3, <1>5, <2>1, <3>1, RasterNumbers
    <3>3. y < rasterLine \/ (y = rasterLine /\ d < rasterDot)
      BY <1>1, <1>2, <3>1, <3>2, RasterNumbers DEF VisibleLines
    <3> QED
      BY <1>0, <3>2, <3>3 DEF MosaicRows
  <2> QED
    BY <1>1, <1>7, <2>1 DEF MosaicRows, VisibleLines, InBlock
<1>16. PictureExact'
  BY <1>0, <1>5, <1>8 DEF PictureExact
<1> QED
  BY <1>12, <1>13, <1>14, <1>15, <1>16 DEF RasterIInv

\* Whatever registers a program writes, at any dots of any lines, and wherever in a line its copy is
\* taken: the copy with its events undone and done again is what the beam passed each dot with
\* (RenderLine of PpuRender.cpp after RecordRasterEvent of Ppu.cpp), and the mosaic shows rows of the
\* block the line is in.
THEOREM PictureStaysExact == RasterSpec => []PictureExact
<1>1. RasterInit => RasterIInv
  BY RasterBegins
<1>2. RasterIInv /\ [RasterNext]_rasterVars => RasterIInv'
  BY RasterRestsKeep, WriteKeeps, ScanlineKeeps, DotKeeps, RasterLineKeeps DEF RasterNext
<1>3. RasterIInv => PictureExact
  BY DEF RasterIInv
<1> QED
  BY <1>1, <1>2, <1>3, PTL DEF RasterSpec
=============================================================================
