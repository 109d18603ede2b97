------------------------------ MODULE DmaProofs ------------------------------
(***************************************************************************)
(* Proofs about the DMA controller, for any number of channels, any width  *)
(* of the registers and any contents of the bus.                           *)
(***************************************************************************)
EXTENDS Dma, TLAPS

-----------------------------------------------------------------------------
(***************************************************************************)
(* The registers.                                                          *)
(***************************************************************************)
\* Bytes and words are intervals that start at 0.
LEMMA Sizes == ByteSize \in Nat /\ ByteSize > 2 /\ WordSize \in Nat /\ WordSize > ByteSize
<1>1. ByteSize \in Nat /\ ByteSize > 2
  BY RepeatBitAssumption DEF ByteSize
<1>2. WordSize \in Nat
  BY <1>1 DEF WordSize
<1>3. ByteSize * ByteSize > ByteSize
  BY <1>1
<1> QED
  BY <1>1, <1>2, <1>3 DEF WordSize

\* The 16-bit registers wrap: a step stays inside the register.
LEMMA IncDec == \A w \in Word : Inc(w) \in Word /\ Dec(w) \in Word
BY Sizes DEF Word, Inc, Dec

\* Two bytes make a word.
LEMMA WordOfBytes == \A hi, lo \in Byte : WordOf(hi, lo) \in Word
<1> SUFFICES ASSUME NEW hi \in Byte, NEW lo \in Byte
             PROVE  WordOf(hi, lo) \in Word
  OBVIOUS
<1>1. hi \in Nat /\ lo \in Nat /\ hi =< ByteSize - 1 /\ lo =< ByteSize - 1 /\ ByteSize \in Nat
  BY Sizes DEF Byte
<1>2. hi * ByteSize =< (ByteSize - 1) * ByteSize
  BY <1>1
<1>3. (ByteSize - 1) * ByteSize = ByteSize * ByteSize - ByteSize
  BY <1>1
<1>4. hi * ByteSize \in Nat
  BY <1>1
<1> QED
  BY <1>1, <1>2, <1>3, <1>4 DEF WordOf, Word, WordSize

\* A word has two bytes.
LEMMA BytesOfWord == \A w \in Word : High(w) \in Byte /\ Low(w) \in Byte
<1> SUFFICES ASSUME NEW w \in Word
             PROVE  High(w) \in Byte /\ Low(w) \in Byte
  OBVIOUS
<1>1. w \in Nat /\ w < ByteSize * ByteSize /\ ByteSize \in Nat /\ ByteSize > 0
  BY Sizes DEF Word, WordSize
<1>2. Low(w) \in Byte
  BY <1>1 DEF Low, Byte
<1>3. High(w) \in Nat /\ High(w) * ByteSize =< w
  BY <1>1 DEF High
<1>4. High(w) < ByteSize
  BY <1>1, <1>3
<1> QED
  BY <1>1, <1>2, <1>3, <1>4 DEF Byte

-----------------------------------------------------------------------------
(***************************************************************************)
(* The operations on one channel.                                          *)
(***************************************************************************)
\* A byte of general DMA leaves a channel.
LEMMA AfterByteType == \A c \in Channel : AfterByte(c) \in Channel
BY IncDec DEF AfterByte, StepSource, Channel, Steps

\* So do the program's writes.
LEMMA WriteType ==
  /\ \A c \in Channel, r \in ChannelRegisters, b \in Byte : Write(c, r, b) \in Channel
  /\ \A c \in Channel, k \in Controls : WriteControl(c, k) \in Channel
<1>1. ASSUME NEW c \in Channel, NEW r \in ChannelRegisters, NEW b \in Byte
      PROVE  Write(c, r, b) \in Channel
  <2>1. \A w \in Word : SetByte(w, "low", b) \in Word /\ SetByte(w, "high", b) \in Word
    BY WordOfBytes, BytesOfWord DEF SetByte
  <2> QED
    BY <2>1 DEF Write, ChannelRegisters, Channel
<1>2. ASSUME NEW c \in Channel, NEW k \in Controls
      PROVE  WriteControl(c, k) \in Channel
  BY <1>2 DEF WriteControl, Channel, Controls
<1> QED
  BY <1>1, <1>2

\* Loading a table entry leaves a channel, and only an indirect one has its size
\* changed by it; no reload touches the enable bits.
LEMMA ReloadType ==
  ASSUME NEW c \in Channel, NEW last \in BOOLEAN,
         NEW b \in Byte, NEW lo \in Byte, NEW hi \in Byte
  PROVE  /\ Reload(c, last, b, lo, hi) \in Channel
         /\ (Reload(c, last, b, lo, hi).dma <=> c.dma)
         /\ (Reload(c, last, b, lo, hi).hdma <=> c.hdma)
<1>1. LoadEntry(c, b) \in Channel /\ (LoadEntry(c, b).dma <=> c.dma) /\ (LoadEntry(c, b).hdma <=> c.hdma)
  BY IncDec DEF LoadEntry, Channel
<1>2. 0 \in Byte
  BY Sizes DEF Byte
<1>3. WordOf(lo, 0) \in Word /\ WordOf(hi, lo) \in Word
  BY <1>2, WordOfBytes
<1> QED
  BY <1>1, <1>3, IncDec DEF Reload, Channel

\* The three passes of HDMA leave channels.
LEMMA SetupType ==
  ASSUME NEW c \in Channel, NEW last \in BOOLEAN,
         NEW b \in Byte, NEW lo \in Byte, NEW hi \in Byte
  PROVE  /\ Setup(c, last, b, lo, hi) \in Channel
         /\ (Setup(c, last, b, lo, hi).dma <=> c.dma /\ ~c.hdma)
<1> DEFINE d == [c EXCEPT !.xfer = TRUE, !.dma = FALSE, !.tab = c.src, !.line = 0]
<1>1. 0 \in Byte
  BY Sizes DEF Byte
<1>2. d \in Channel /\ ~d.dma
  BY <1>1 DEF Channel
<1> HIDE DEF d
<1>3. Reload(d, last, b, lo, hi) \in Channel /\ ~Reload(d, last, b, lo, hi).dma
  BY <1>2, ReloadType
<1> QED
  BY <1>3 DEF Setup, Channel, d

LEMMA TransferType ==
  ASSUME NEW c \in Channel
  PROVE  /\ Transfer(c) \in Channel
         /\ (Transfer(c).dma <=> c.dma /\ ~Active(c))
         /\ (Active(Transfer(c)) <=> Active(c))
         /\ ~Active(c) => Transfer(c) = c
<1>1. \A w \in Word : IncBy(w, c.len) \in Word
  BY IncDec DEF IncBy, Channel, TransferLengths
<1> QED
  BY <1>1 DEF Transfer, Active, Channel

LEMMA AdvanceType ==
  ASSUME NEW c \in Channel, NEW last \in BOOLEAN,
         NEW b \in Byte, NEW lo \in Byte, NEW hi \in Byte
  PROVE  /\ Advance(c, last, b, lo, hi) \in Channel
         /\ (Advance(c, last, b, lo, hi).dma <=> c.dma)
         /\ ~Active(c) => Advance(c, last, b, lo, hi) = c
<1> DEFINE n == DecLine(c.line)
           d == [c EXCEPT !.line = n, !.xfer = (n >= RepeatBit)]
<1>1. n \in Byte
  BY Sizes DEF DecLine, Byte, Channel
<1> HIDE DEF n
<1>2. d \in Channel /\ (d.dma <=> c.dma)
  <2>1. ASSUME NEW t \in BOOLEAN
        PROVE  LET e == [c EXCEPT !.line = n, !.xfer = t]
               IN  e \in Channel /\ (e.dma <=> c.dma)
    BY <1>1 DEF Channel
  <2>2. CASE n >= RepeatBit
    <3>1. d = [c EXCEPT !.line = n, !.xfer = TRUE]
      BY <2>2
    <3> QED
      BY <2>1, <3>1
  <2>3. CASE ~(n >= RepeatBit)
    <3>1. (n >= RepeatBit) = FALSE
      BY <1>1, <2>3, Sizes, RepeatBitAssumption DEF Byte
    <3>2. d = [c EXCEPT !.line = n, !.xfer = FALSE]
      BY <3>1
    <3> QED
      BY <2>1, <3>2
  <2> QED
    BY <2>2, <2>3
<1> HIDE DEF d
<1>3. Reload(d, last, b, lo, hi) \in Channel /\ (Reload(d, last, b, lo, hi).dma <=> c.dma)
  BY <1>2, ReloadType
<1>4. CASE Active(c)
  <2>1. Advance(c, last, b, lo, hi) = Reload(d, last, b, lo, hi)
    BY <1>4 DEF Advance, d, n
  <2> QED
    BY <1>3, <1>4, <2>1
<1>5. CASE ~Active(c)
  BY <1>5 DEF Advance
<1> QED
  BY <1>4, <1>5

\* What a reload reads from its table is bytes.
LEMMA TableBytesType ==
  ASSUME NEW c \in Channels, NEW t \in Word, NEW b \in TableBytes(c, t)
  PROVE  b[1] \in Byte /\ b[2] \in Byte /\ b[3] \in Byte
<1>1. \A w \in Word : Bus[c][w] \subseteq Byte
  BY DmaAssumption
<1>2. Inc(t) \in Word /\ Inc(Inc(t)) \in Word
  BY IncDec
<1> QED
  BY <1>1, <1>2 DEF TableBytes

\* Channels are an interval that starts at 0.
LEMMA ChannelNumbers ==
  /\ NumChannels \in Nat \ {0} /\ 0 \in Channels
  /\ \A c \in Channels : c \in Nat /\ (c + 1 \in Channels \/ c = NumChannels - 1)
BY DmaAssumption DEF Channels

\* The loop of RunDma goes on with a channel, or gives the bus back.
LEMMA NextEnabledType ==
  ASSUME NEW c, NEW chs, NextEnabled(chs, c), gp \in Channels
  PROVE  gp' \in Channels /\ pc' \in {"resume", "chHead"}
BY DEF NextEnabled

-----------------------------------------------------------------------------
(***************************************************************************)
(* The inductive invariant.                                                *)
(***************************************************************************)
\* Between two bytes, the channel that is running is enabled unless an HDMA has
\* cut it: the loop condition of RunChannelDma sees every cut.
CutIsCancelled ==
  pc = "byte" => (ch[gp].dma <=> ~xfers[gp].cut)

\* The pass that may reload the size of a channel comes after the one that cut
\* its general DMA.
CutBeforeReload ==
  /\ hop = "transfer" => \A c \in Channels : c < hc /\ Active(ch[c]) => xfers[c].cut
  /\ hop = "advance" => \A c \in Channels : Active(ch[c]) => xfers[c].cut

\* HDMA runs only on top of a boundary.
HdmaPlace == hop # "none" => pc \in Boundaries

IInv == TypeOK /\ ByteAccounting /\ CutIsCancelled /\ CutBeforeReload /\ HdmaPlace

\* The simple facts about the constants.
LEMMA Constants ==
  /\ Lines \in Nat /\ Lines > 0 /\ MaxWrites \in Nat
  /\ Setups \subseteq [Channels -> Channel] /\ Masks \subseteq SUBSET Channels
BY DmaAssumption

\* Flags of a channel are set and reset without leaving its type.
LEMMA FlagsType ==
  ASSUME NEW c \in Channel, NEW x \in BOOLEAN
  PROVE  /\ [c EXCEPT !.dma = x] \in Channel
         /\ [c EXCEPT !.hdma = x] \in Channel
         /\ [c EXCEPT !.done = FALSE, !.xfer = FALSE] \in Channel
BY DEF Channel

LEMMA HistoryType ==
  /\ NoTransfer \in [want : 0 .. WordSize, moved : Nat, cut : BOOLEAN]
  /\ NoEntry \in [entry : Byte, ran : 0 .. ByteSize, fired : 0 .. ByteSize, clean : BOOLEAN]
BY Sizes DEF NoTransfer, NoEntry, Byte

\* What the controller is asked is answered with a truth value.
LEMMA AnyType == AnyHdmaEnabled \in BOOLEAN /\ AnyHdmaActive \in BOOLEAN
BY Zenon DEF AnyHdmaEnabled, AnyHdmaActive

LEMMA InitIInv == Init => IInv
<1> SUFFICES ASSUME Init PROVE IInv
  OBVIOUS
<1> USE DEF Init
<1>1. ch \in [Channels -> Channel]
  BY Constants
<1>2. beam \in 0 .. Lines /\ writes \in 0 .. MaxWrites
  BY Constants
<1>3. gp \in Channels /\ hc \in Channels
  BY ChannelNumbers
<1>4. /\ xfers \in [Channels -> [want : 0 .. WordSize, moved : Nat, cut : BOOLEAN]]
      /\ walk \in [Channels -> [entry : Byte, ran : 0 .. ByteSize,
                                fired : 0 .. ByteSize, clean : BOOLEAN]]
  BY HistoryType
<1>5. req \in [cold : BOOLEAN, since : 0 .. 2]
  OBVIOUS
<1>6. TypeOK
  BY <1>1, <1>2, <1>3, <1>4, <1>5 DEF TypeOK, Clocked, Boundaries
<1> QED
  BY <1>6 DEF IInv, ByteAccounting, CutIsCancelled, CutBeforeReload, HdmaPlace

\* The beam only raises requests and resets flags of HDMA.
LEMMA BeamIInv == IInv /\ Beam => IInv'
<1> SUFFICES ASSUME IInv, Beam PROVE IInv'
  OBVIOUS
<1> USE DEF IInv
<1>1. CASE HdmaSetupPoint
  <2>1. hop = "none" /\ hop' = "none"
    BY <1>1 DEF HdmaSetupPoint, BeamFree
  <2>2. /\ ch' \in [Channels -> Channel]
        /\ \A c \in Channels : ch'[c].size = ch[c].size /\ (ch'[c].dma <=> ch[c].dma)
    <3> DEFINE reset(c) == [ch[c] EXCEPT !.done = FALSE, !.xfer = FALSE]
    <3>1. \A c \in Channels : ch[c] \in Channel
      BY DEF TypeOK
    <3>2. ch' = [c \in Channels |-> reset(c)]
      BY <1>1 DEF HdmaSetupPoint
    <3>3. \A c \in Channels : /\ reset(c) \in Channel
                             /\ reset(c).size = ch[c].size
                             /\ (reset(c).dma <=> ch[c].dma)
      BY <3>1 DEF Channel
    <3> QED
      BY <3>2, <3>3
  <2>3. walk' \in [Channels -> [entry : Byte, ran : 0 .. ByteSize,
                               fired : 0 .. ByteSize, clean : BOOLEAN]]
    BY <1>1, HistoryType DEF HdmaSetupPoint
  <2>4. pendSetup' \in BOOLEAN /\ moving' \in BOOLEAN /\ beam' \in 0 .. Lines
    <3>1. pendSetup' = AnyHdmaEnabled
      BY <1>1 DEF HdmaSetupPoint
    <3>2. pendSetup' \in BOOLEAN
      BY <3>1, AnyType, Zenon
    <3>3. beam' \in 0 .. Lines
      <4>1. beam' = 1
        BY <1>1 DEF HdmaSetupPoint
      <4> QED
        BY <4>1, Constants
    <3> QED
      BY <1>1, <3>2, <3>3 DEF HdmaSetupPoint
  <2>5. TypeOK'
    BY <1>1, <2>2, <2>3, <2>4 DEF HdmaSetupPoint, TypeOK
  <2>6. ByteAccounting' /\ CutIsCancelled'
    BY <1>1, <2>2 DEF HdmaSetupPoint, ByteAccounting, CutIsCancelled, TypeOK
  <2> QED
    BY <2>1, <2>5, <2>6 DEF CutBeforeReload, HdmaPlace
<1>2. CASE HdmaRunPoint
  <2>1. pendRun' \in BOOLEAN /\ moving' \in BOOLEAN /\ beam' \in 0 .. Lines
    <3>1. pendRun' = AnyHdmaActive
      BY <1>2 DEF HdmaRunPoint
    <3>2. pendRun' \in BOOLEAN
      BY <3>1, AnyType, Zenon
    <3>3. beam' \in 0 .. Lines
      BY <1>2, Constants DEF HdmaRunPoint, TypeOK
    <3> QED
      BY <1>2, <3>2, <3>3 DEF HdmaRunPoint
  <2>2. TypeOK'
    BY <1>2, <2>1 DEF HdmaRunPoint, TypeOK, history
  <2> QED
    BY <1>2, <2>2
       DEF HdmaRunPoint, history, ByteAccounting, CutIsCancelled, CutBeforeReload, Active,
           HdmaPlace, BeamFree
<1> QED
  BY <1>1, <1>2 DEF Beam

\* The CPU moves the program counter, and Access counts.
LEMMA CpuIInv == IInv /\ Cpu => IInv'
<1> SUFFICES ASSUME IInv, Cpu PROVE IInv'
  OBVIOUS
<1> USE DEF IInv
<1>1. /\ UNCHANGED <<ch, gp, hop, hc, pendSetup, pendRun, beam, writes, xfers, walk>>
      /\ pc' \in {"access", "svc", "head", "begin"}
      /\ armed' \in BOOLEAN /\ moving' \in BOOLEAN
  BY DEF Cpu, BeginCycle, BeginArmedCycle, EndService, EndDma, Access, history, TypeOK,
         Requested, AfterArming, Pending, AnyDma
<1>2. req' \in [cold : BOOLEAN, since : 0 .. 2]
  <2>1. Aged \in [cold : BOOLEAN, since : 0 .. 2]
    BY DEF Aged, TypeOK
  <2> QED
    BY <2>1 DEF Cpu, BeginCycle, BeginArmedCycle, EndService, EndDma, Access, history, TypeOK
<1>3. TypeOK'
  BY <1>1, <1>2 DEF TypeOK, Boundaries, Clocked
<1> QED
  BY <1>1, <1>3 DEF ByteAccounting, CutIsCancelled, CutBeforeReload, Active, HdmaPlace,
     Cpu, BeginCycle, BeginArmedCycle, EndService, EndDma, Access, Boundaries

\* The program writes only while no DMA runs, and an HDMA never runs then.
LEMMA ProgramIInv == IInv /\ Program => IInv'
<1> SUFFICES ASSUME IInv, Program PROVE IInv'
  OBVIOUS
<1> USE DEF IInv
<1>1. Aged \in [cold : BOOLEAN, since : 0 .. 2]
  BY DEF Aged, TypeOK
<1>2. writes < MaxWrites => writes + 1 \in 0 .. MaxWrites
  BY Constants DEF TypeOK
<1>3. hop = "none" \/ pc # "access"
  BY DEF HdmaPlace, Boundaries
<1>4. ASSUME TypeOK', UNCHANGED hop, pc = "access", pc' = "begin"
      PROVE  IInv'
  BY <1>3, <1>4 DEF ByteAccounting, CutIsCancelled, CutBeforeReload, HdmaPlace
<1>5. ASSUME NEW m \in Masks, WriteDmaEnable(m)
      PROVE  IInv'
  <2>1. ch' \in [Channels -> Channel]
    <3>1. ASSUME NEW c \in Channels
          PROVE  [ch[c] EXCEPT !.dma = (c \in m)] \in Channel
      <4>1. (c \in m) \in BOOLEAN /\ ch[c] \in Channel
        BY DEF TypeOK
      <4> QED
        BY <4>1, FlagsType, Zenon
    <3> QED
      BY <1>5, <3>1 DEF WriteDmaEnable
  <2>2. req' \in [cold : BOOLEAN, since : 0 .. 2]
    BY <1>5 DEF WriteDmaEnable, TypeOK
  <2>3. TypeOK'
    BY <1>5, <1>2, <2>1, <2>2 DEF WriteDmaEnable, TypeOK, Clocked
  <2> QED
    BY <1>4, <1>5, <2>3 DEF WriteDmaEnable
<1>6. ASSUME NEW m \in Masks, WriteHdmaEnable(m)
      PROVE  IInv'
  <2>1. ch' \in [Channels -> Channel]
    <3>1. ASSUME NEW c \in Channels
          PROVE  [ch[c] EXCEPT !.hdma = (c \in m)] \in Channel
      <4>1. (c \in m) \in BOOLEAN /\ ch[c] \in Channel
        BY DEF TypeOK
      <4> QED
        BY <4>1, FlagsType, Zenon
    <3> QED
      BY <1>6, <3>1 DEF WriteHdmaEnable
  <2>2. walk' \in [Channels -> [entry : Byte, ran : 0 .. ByteSize,
                               fired : 0 .. ByteSize, clean : BOOLEAN]]
    BY <1>6 DEF WriteHdmaEnable, TypeOK
  <2>3. TypeOK'
    BY <1>6, <1>1, <1>2, <2>1, <2>2 DEF WriteHdmaEnable, TypeOK, Clocked
  <2> QED
    BY <1>4, <1>6, <2>3 DEF WriteHdmaEnable
<1>7. ASSUME NEW c \in Channels, NEW d \in Channel, WriteChannel(c, d)
      PROVE  IInv'
  <2>1. ch' \in [Channels -> Channel]
    BY <1>7 DEF WriteChannel, TypeOK
  <2>2. walk' \in [Channels -> [entry : Byte, ran : 0 .. ByteSize,
                               fired : 0 .. ByteSize, clean : BOOLEAN]]
    BY <1>7 DEF WriteChannel, TypeOK
  <2>3. TypeOK'
    BY <1>7, <1>1, <1>2, <2>1, <2>2 DEF WriteChannel, TypeOK, Clocked
  <2> QED
    BY <1>4, <1>7, <2>3 DEF WriteChannel
<1>8. ASSUME NEW p \in Pokes, WriteChannel(p[1], Write(ch[p[1]], p[2], p[3]))
      PROVE  IInv'
  <2>1. p[1] \in Channels /\ p[2] \in ChannelRegisters /\ p[3] \in Byte
    BY DmaAssumption
  <2>2. Write(ch[p[1]], p[2], p[3]) \in Channel
    BY <2>1, WriteType DEF TypeOK
  <2> QED
    BY <1>7, <1>8, <2>1, <2>2
<1>9. ASSUME NEW p \in ControlPokes, WriteChannel(p[1], WriteControl(ch[p[1]], p[2]))
      PROVE  IInv'
  <2>1. p[1] \in Channels /\ p[2] \in Controls
    BY DmaAssumption
  <2>2. WriteControl(ch[p[1]], p[2]) \in Channel
    BY <2>1, WriteType DEF TypeOK
  <2> QED
    BY <1>7, <1>9, <2>1, <2>2
<1> QED
  BY <1>5, <1>6, <1>8, <1>9 DEF Program

\* General DMA counts every byte it moves once.
LEMMA GeneralDmaIInv == IInv /\ GeneralDma => IInv'
<1> SUFFICES ASSUME IInv, GeneralDma PROVE IInv'
  OBVIOUS
<1> USE DEF IInv
<1> DEFINE XferSet == [want : 0 .. WordSize, moved : Nat, cut : BOOLEAN]
<1>1. hop = "none" /\ gp \in Channels /\ ch[gp] \in Channel /\ xfers[gp] \in XferSet
  BY DEF GeneralDma, StartDma, StartChannel, NextByte, EndChannel, AtBoundary, TypeOK
<1>2. ASSUME TypeOK', UNCHANGED hop, pc' \in {"resume", "chHead"}
      PROVE  IInv'
  BY <1>1, <1>2 DEF ByteAccounting, CutIsCancelled, CutBeforeReload, HdmaPlace
<1>3. CASE StartDma
  <2>1. gp' \in Channels /\ pc' \in {"resume", "chHead"}
    BY <1>1, <1>3, NextEnabledType DEF StartDma
  <2>2. TypeOK'
    BY <1>3, <2>1 DEF StartDma, TypeOK, Clocked, history
  <2> QED
    BY <1>2, <1>3, <2>1, <2>2 DEF StartDma
<1>4. CASE StartChannel
  <2>1. CASE ~ch[gp].dma
    <3>1. gp' \in Channels /\ pc' \in {"resume", "chHead"}
      BY <1>1, <1>4, <2>1, NextEnabledType DEF StartChannel
    <3>2. TypeOK'
      BY <1>4, <2>1, <3>1 DEF StartChannel, TypeOK, Clocked
    <3> QED
      BY <1>2, <1>4, <3>1, <3>2 DEF StartChannel
  <2>2. CASE ch[gp].dma
    <3> DEFINE x == [want |-> Asked(ch[gp].size), moved |-> 1, cut |-> FALSE]
    <3>1. ch' = [ch EXCEPT ![gp] = AfterByte(ch[gp])] /\ xfers' = [xfers EXCEPT ![gp] = x]
      BY <1>4, <2>2 DEF StartChannel
    <3>2. x \in XferSet
      BY <1>1, Sizes DEF Asked, Channel, Word
    <3>3. TypeOK'
      BY <1>1, <1>4, <2>2, <3>1, <3>2, AfterByteType DEF StartChannel, TypeOK, Clocked, Boundaries
    <3>4. ByteAccounting'
      <4>1. 1 + Dec(ch[gp].size) = Asked(ch[gp].size)
        BY <1>1, Sizes DEF Dec, Asked, Channel, Word
      <4>2. ch'[gp].size = Dec(ch[gp].size)
        BY <1>1, <3>1 DEF TypeOK, AfterByte, Channel
      <4>3. gp' = gp /\ xfers'[gp] = x
        BY <1>1, <1>4, <2>2, <3>1 DEF StartChannel, TypeOK
      <4> QED
        BY <4>1, <4>2, <4>3 DEF ByteAccounting
    <3>5. CutIsCancelled'
      <4>1. gp' = gp /\ xfers'[gp] = x /\ ch'[gp] = AfterByte(ch[gp])
        BY <1>1, <1>4, <2>2, <3>1 DEF StartChannel, TypeOK
      <4>2. AfterByte(ch[gp]).dma
        BY <1>1, <2>2 DEF AfterByte, Channel
      <4> QED
        BY <4>1, <4>2 DEF CutIsCancelled
    <3> QED
      BY <1>1, <1>4, <3>3, <3>4, <3>5 DEF CutBeforeReload, HdmaPlace, StartChannel
  <2> QED
    BY <2>1, <2>2
<1>5. CASE NextByte
  <2>1. /\ ch' = [ch EXCEPT ![gp] = AfterByte(ch[gp])]
        /\ xfers' = [xfers EXCEPT ![gp] = [xfers[gp] EXCEPT !.moved = @ + 1]]
        /\ pc = "byte" /\ ch[gp].dma /\ ch[gp].size # 0
        /\ UNCHANGED <<pc, gp, hop>>
    BY <1>5 DEF NextByte, AtBoundary, More
  <2>2. [xfers[gp] EXCEPT !.moved = @ + 1] \in XferSet
    BY <1>1
  <2>3. TypeOK'
    BY <1>1, <1>5, <2>1, <2>2, AfterByteType DEF NextByte, TypeOK
  <2>4. ch'[gp].size = ch[gp].size - 1 /\ (ch'[gp].dma <=> ch[gp].dma)
    BY <1>1, <2>1 DEF TypeOK, AfterByte, Dec, Channel, Word
  <2>5. xfers'[gp].want = xfers[gp].want /\ xfers'[gp].moved = xfers[gp].moved + 1
        /\ (xfers'[gp].cut <=> xfers[gp].cut)
    BY <1>1, <2>1 DEF TypeOK
  <2>6. ByteAccounting'
    <3>1. ch[gp].size \in Nat /\ xfers[gp].moved \in Nat
      BY <1>1 DEF Channel, Word
    <3> QED
      BY <2>1, <2>4, <2>5, <3>1 DEF ByteAccounting
  <2>7. CutIsCancelled'
    BY <2>1, <2>4, <2>5 DEF CutIsCancelled
  <2> QED
    BY <1>1, <2>1, <2>3, <2>6, <2>7 DEF CutBeforeReload, HdmaPlace
<1>6. CASE EndChannel
  <2>1. gp' \in Channels /\ pc' \in {"resume", "chHead"}
    BY <1>1, <1>6, NextEnabledType DEF EndChannel
  <2>2. ch' \in [Channels -> Channel]
    BY <1>1, <1>6, FlagsType DEF EndChannel, TypeOK
  <2>3. TypeOK'
    BY <1>6, <2>1, <2>2 DEF EndChannel, TypeOK, Clocked, history
  <2> QED
    BY <1>2, <1>6, <2>1, <2>3 DEF EndChannel
<1> QED
  BY <1>3, <1>4, <1>5, <1>6 DEF GeneralDma

\* HDMA marks what it cuts before it reloads.
LEMMA HdmaIInv == IInv /\ Hdma => IInv'
<1> SUFFICES ASSUME IInv, Hdma PROVE IInv'
  OBVIOUS
<1> USE DEF IInv
<1> DEFINE XferSet == [want : 0 .. WordSize, moved : Nat, cut : BOOLEAN]
           WalkSet == [entry : Byte, ran : 0 .. ByteSize, fired : 0 .. ByteSize, clean : BOOLEAN]
<1>1. hc \in Channels /\ ch[hc] \in Channel /\ xfers[hc] \in XferSet /\ walk[hc] \in WalkSet
  BY DEF TypeOK
<1>2. Cut(hc) \in [Channels -> XferSet]
      /\ \A c \in Channels :
           /\ Cut(hc)[c].want = xfers[c].want /\ Cut(hc)[c].moved = xfers[c].moved
           /\ Cut(hc)[c].cut <=> (xfers[c].cut \/ c = hc)
  BY <1>1 DEF Cut, TypeOK
<1>3. HdmaFinished(hc) \in BOOLEAN
  BY Zenon DEF HdmaFinished
<1>4. CASE StartHdmaSetup \/ StartHdmaRun
  <2>1. hop' \in {"none", "setup", "transfer"} /\ hc' = 0 /\ pc \in Boundaries
    BY <1>4 DEF StartHdmaSetup, StartHdmaRun
  <2>2. pendSetup' \in BOOLEAN /\ pendRun' \in BOOLEAN
    BY <1>4 DEF StartHdmaSetup, StartHdmaRun, TypeOK
  <2>3. UNCHANGED <<ch, pc, gp, armed, beam, moving, writes, xfers, walk, req>>
    BY <1>4 DEF StartHdmaSetup, StartHdmaRun, history
  <2>4. TypeOK'
    BY <2>1, <2>2, <2>3, ChannelNumbers DEF TypeOK
  <2>5. \A c \in Channels : ~(c < 0)
    BY ChannelNumbers
  <2> QED
    BY <2>1, <2>3, <2>4, <2>5
       DEF ByteAccounting, CutIsCancelled, CutBeforeReload, HdmaPlace
<1>5. CASE SetupChannel
  <2>1. PICK b \in TableBytes(hc, ch[hc].src) :
          LET d == Setup(ch[hc], HdmaFinished(hc), b[1], b[2], b[3])
          IN  /\ ch' = [ch EXCEPT ![hc] = d]
              /\ walk' = IF d.hdma THEN [walk EXCEPT ![hc] = Loaded(d)] ELSE walk
    BY <1>5 DEF SetupChannel
  <2> DEFINE d == Setup(ch[hc], HdmaFinished(hc), b[1], b[2], b[3])
  <2>2. b[1] \in Byte /\ b[2] \in Byte /\ b[3] \in Byte
    BY <1>1, TableBytesType DEF Channel
  <2>3. d \in Channel /\ (d.dma <=> ch[hc].dma /\ ~ch[hc].hdma)
        /\ (~ch[hc].hdma => d.size = ch[hc].size)
    <3>1. d \in Channel
      BY <1>1, <1>3, <2>2, SetupType
    <3>2. d.dma <=> ch[hc].dma /\ ~ch[hc].hdma
      BY <1>1, <1>3, <2>2, SetupType
    <3>3. ~ch[hc].hdma => d.size = ch[hc].size
      BY <1>1 DEF Setup, Channel
    <3> QED
      BY <3>1, <3>2, <3>3
  <2>4. ch' = [ch EXCEPT ![hc] = d]
    BY <2>1
  <2> HIDE DEF d
  <2>5. Loaded(d) \in WalkSet
    BY <2>3, Sizes DEF Loaded, Channel
  <2>6. walk' \in [Channels -> WalkSet]
    BY <2>1, <2>5 DEF TypeOK, d
  <2>7. xfers' = IF ch[hc].hdma THEN Cut(hc) ELSE xfers
    BY <1>5 DEF SetupChannel
  <2>8. hc' \in Channels /\ hop' \in {"none", "setup"} /\ hop = "setup"
    BY <1>1, <1>5, ChannelNumbers DEF SetupChannel, PassTo
  <2>9. TypeOK'
    BY <1>2, <1>5, <2>3, <2>4, <2>6, <2>7, <2>8 DEF SetupChannel, TypeOK
  <2>10. ByteAccounting' /\ CutIsCancelled'
    <3>1. UNCHANGED <<pc, gp>> /\ gp \in Channels
      BY <1>5 DEF SetupChannel, TypeOK
    <3>2. CASE gp = hc
      <4>1. ch'[gp] = d
        BY <1>1, <2>4, <3>2 DEF TypeOK
      <4> QED
        BY <1>2, <2>3, <2>7, <3>1, <3>2, <4>1 DEF ByteAccounting, CutIsCancelled
    <3>3. CASE gp # hc
      <4>1. ch'[gp] = ch[gp]
        BY <2>4, <3>1, <3>3 DEF TypeOK
      <4> QED
        BY <1>2, <2>7, <3>1, <3>3, <4>1 DEF ByteAccounting, CutIsCancelled
    <3> QED
      BY <3>2, <3>3
  <2> QED
    BY <1>5, <2>8, <2>9, <2>10 DEF CutBeforeReload, HdmaPlace, SetupChannel
<1>6. CASE TransferChannel
  <2>1. /\ ch' = [ch EXCEPT ![hc] = Transfer(ch[hc])]
        /\ xfers' = IF Active(ch[hc]) THEN Cut(hc) ELSE xfers
        /\ hop = "transfer" /\ PassTo("advance")
        /\ UNCHANGED <<pc, gp>>
    BY <1>6 DEF TransferChannel
  <2>2. /\ Transfer(ch[hc]) \in Channel
        /\ (Transfer(ch[hc]).dma <=> ch[hc].dma /\ ~Active(ch[hc]))
        /\ (Active(Transfer(ch[hc])) <=> Active(ch[hc]))
        /\ (~Active(ch[hc]) => Transfer(ch[hc]) = ch[hc])
    BY <1>1, TransferType
  <2>3. hc' \in Channels /\ hop' \in {"transfer", "advance"}
    BY <1>1, <2>1, ChannelNumbers DEF PassTo
  <2>4. walk' \in [Channels -> WalkSet]
    <3>1. [walk[hc] EXCEPT !.fired = IF @ < ByteSize THEN @ + 1 ELSE @] \in WalkSet
      BY <1>1, Sizes
    <3>2. walk' = walk \/ walk' = [walk EXCEPT ![hc] =
            [walk[hc] EXCEPT !.fired = IF @ < ByteSize THEN @ + 1 ELSE @]]
      BY <1>6 DEF TransferChannel, TypeOK
    <3> QED
      BY <3>1, <3>2 DEF TypeOK
  <2>5. TypeOK'
    BY <1>2, <1>6, <2>1, <2>2, <2>3, <2>4 DEF TransferChannel, TypeOK
  <2>6. /\ ch'[hc] = Transfer(ch[hc])
        /\ \A c \in Channels : c # hc => ch'[c] = ch[c]
    BY <1>1, <2>1 DEF TypeOK
  <2>7. ByteAccounting' /\ CutIsCancelled'
    <3>1. gp \in Channels
      BY DEF TypeOK
    <3>2. CASE gp = hc
      BY <1>2, <2>1, <2>2, <2>6, <3>1, <3>2 DEF ByteAccounting, CutIsCancelled
    <3>3. CASE gp # hc
      BY <1>2, <2>1, <2>6, <3>1, <3>3 DEF ByteAccounting, CutIsCancelled
    <3> QED
      BY <3>2, <3>3
  <2>8. \A c \in Channels : Active(ch'[c]) <=> Active(ch[c])
    BY <2>2, <2>6
  <2>9. \A c \in Channels : (c < hc \/ c = hc) /\ Active(ch[c]) => xfers'[c].cut
    BY <1>2, <2>1 DEF CutBeforeReload
  <2>10. CutBeforeReload'
    <3>1. CASE hc + 1 \in Channels
      <4>1. hc' = hc + 1 /\ hop' = "transfer"
        BY <2>1, <3>1 DEF PassTo
      <4>2. \A c \in Channels : c < hc + 1 => c < hc \/ c = hc
        BY <1>1, ChannelNumbers
      <4> QED
        BY <2>8, <2>9, <4>1, <4>2 DEF CutBeforeReload
    <3>2. CASE hc + 1 \notin Channels
      <4>1. hop' = "advance"
        BY <2>1, <3>2 DEF PassTo
      <4>2. \A c \in Channels : c < hc \/ c = hc
        BY <1>1, <3>2, ChannelNumbers DEF Channels
      <4> QED
        BY <2>8, <2>9, <4>1, <4>2 DEF CutBeforeReload
    <3> QED
      BY <3>1, <3>2
  <2> QED
    BY <2>1, <2>5, <2>7, <2>10 DEF HdmaPlace
<1>7. CASE AdvanceChannel
  <2>1. PICK b \in TableBytes(hc, ch[hc].tab) :
          LET c == ch[hc]
              d == Advance(c, HdmaFinished(hc), b[1], b[2], b[3])
          IN  /\ ch' = [ch EXCEPT ![hc] = d]
              /\ walk' = IF ~Active(c) THEN walk
                         ELSE IF Expired(DecLine(c.line)) THEN [walk EXCEPT ![hc] = Loaded(d)]
                         ELSE [walk EXCEPT ![hc].ran = IF @ < ByteSize THEN @ + 1 ELSE @]
    BY <1>7 DEF AdvanceChannel
  <2> DEFINE d == Advance(ch[hc], HdmaFinished(hc), b[1], b[2], b[3])
  <2>2. b[1] \in Byte /\ b[2] \in Byte /\ b[3] \in Byte
    BY <1>1, TableBytesType DEF Channel
  <2>3. d \in Channel /\ (d.dma <=> ch[hc].dma) /\ (~Active(ch[hc]) => d = ch[hc])
    BY <1>1, <1>3, <2>2, AdvanceType
  <2>4. ch' = [ch EXCEPT ![hc] = d]
    BY <2>1
  <2> HIDE DEF d
  <2>5. Loaded(d) \in WalkSet
    BY <2>3, Sizes DEF Loaded, Channel
  <2>6. walk' \in [Channels -> WalkSet]
    <3>1. [walk[hc] EXCEPT !.ran = IF @ < ByteSize THEN @ + 1 ELSE @] \in WalkSet
      BY <1>1, Sizes
    <3>2. \/ walk' = walk
          \/ walk' = [walk EXCEPT ![hc] = Loaded(d)]
          \/ walk' = [walk EXCEPT ![hc] =
               [walk[hc] EXCEPT !.ran = IF @ < ByteSize THEN @ + 1 ELSE @]]
      BY <2>1 DEF TypeOK, d
    <3> QED
      BY <2>5, <3>1, <3>2 DEF TypeOK
  <2>7. /\ UNCHANGED <<pc, gp, xfers>> /\ hop = "advance"
        /\ hc' \in Channels /\ hop' \in {"none", "advance"}
    BY <1>1, <1>7, ChannelNumbers DEF AdvanceChannel, PassTo
  <2>8. TypeOK'
    BY <1>7, <2>3, <2>4, <2>6, <2>7 DEF AdvanceChannel, TypeOK
  <2>9. ch'[hc] = d /\ \A c \in Channels : c # hc => ch'[c] = ch[c]
    BY <1>1, <2>4 DEF TypeOK
  <2>10. Active(ch[hc]) => xfers[hc].cut
    BY <1>1, <2>7 DEF CutBeforeReload
  <2>11. ByteAccounting' /\ CutIsCancelled'
    <3>1. gp \in Channels
      BY DEF TypeOK
    <3>2. CASE gp = hc
      BY <2>3, <2>7, <2>9, <2>10, <3>1, <3>2 DEF ByteAccounting, CutIsCancelled
    <3>3. CASE gp # hc
      BY <2>7, <2>9, <3>1, <3>3 DEF ByteAccounting, CutIsCancelled
    <3> QED
      BY <3>2, <3>3
  <2>12. \A c \in Channels : Active(ch'[c]) => xfers'[c].cut
    BY <2>3, <2>7, <2>9, <2>10 DEF CutBeforeReload
  <2> QED
    BY <2>7, <2>8, <2>11, <2>12 DEF CutBeforeReload, HdmaPlace
<1> QED
  BY <1>4, <1>5, <1>6, <1>7 DEF Hdma

-----------------------------------------------------------------------------
(***************************************************************************)
(* The theorems.                                                           *)
(***************************************************************************)
\* A step of the specification preserves the inductive invariant.
LEMMA NextIInv == IInv /\ [Next]_vars => IInv'
<1> SUFFICES ASSUME IInv, [Next]_vars PROVE IInv'
  OBVIOUS
<1>1. CASE Beam
  BY <1>1, BeamIInv
<1>2. CASE Cpu
  BY <1>2, CpuIInv
<1>3. CASE Program
  BY <1>3, ProgramIInv
<1>4. CASE GeneralDma
  BY <1>4, GeneralDmaIInv
<1>5. CASE Hdma
  BY <1>5, HdmaIInv
<1>6. CASE UNCHANGED vars
  BY <1>6 DEF vars, IInv, TypeOK, ByteAccounting, CutIsCancelled, CutBeforeReload,
              HdmaPlace, Active
<1> QED
  BY <1>1, <1>2, <1>3, <1>4, <1>5, <1>6 DEF Next

LEMMA Inductive == Spec => []IInv
BY InitIInv, NextIInv, PTL DEF Spec

\* Every register, flag and history of the controller keeps its type: no step of
\* an HDMA or DMA leaves the 8 or 16 bits of its register.
THEOREM TypeCorrect == Spec => []TypeOK
<1>1. IInv => TypeOK
  BY DEF IInv
<1> QED
  BY Inductive, <1>1, PTL

\* However HDMAs of other channels interrupt it, a general DMA has always moved
\* what it was asked for less what its size register still counts.
THEOREM BytesAccounted == Spec => []ByteAccounting
<1>1. IInv => ByteAccounting
  BY DEF IInv
<1> QED
  BY Inductive, <1>1, PTL

\* A general DMA that an HDMA of its channel has cut moves no further byte; one
\* that was left alone ends with all its bytes moved.
THEOREM CutsAreFinal == Spec => CutIsFinal
<1>1. IInv /\ [Next]_vars =>
        [\A c \in Channels :
           /\ xfers[c].cut /\ xfers'[c].cut => xfers'[c].moved = xfers[c].moved
           /\ EndChannel /\ c = gp /\ ~xfers[c].cut
                => xfers[c].moved = xfers[c].want /\ ch'[c].size = 0]_vars
  <2> SUFFICES ASSUME IInv, Next, NEW c \in Channels
               PROVE  /\ xfers[c].cut /\ xfers'[c].cut => xfers'[c].moved = xfers[c].moved
                      /\ EndChannel /\ c = gp /\ ~xfers[c].cut
                           => xfers[c].moved = xfers[c].want /\ ch'[c].size = 0
    OBVIOUS
  <2> USE DEF IInv
  <2>1. ASSUME EndChannel, c = gp, ~xfers[c].cut
        PROVE  xfers[c].moved = xfers[c].want /\ ch'[c].size = 0
    <3>1. pc = "byte" /\ ch[gp].dma
      BY <2>1 DEF EndChannel, AtBoundary, CutIsCancelled
    <3>2. ch[gp].size = 0
      BY <2>1, <3>1 DEF EndChannel, More
    <3>3. ch'[gp].size = 0
      BY <2>1, <3>2 DEF EndChannel, TypeOK, Channel
    <3>4. xfers[gp].moved \in Nat
      BY <2>1 DEF TypeOK
    <3> QED
      BY <2>1, <3>1, <3>2, <3>3, <3>4 DEF ByteAccounting
  <2>2. ASSUME UNCHANGED xfers
        PROVE  xfers[c].cut /\ xfers'[c].cut => xfers'[c].moved = xfers[c].moved
    BY <2>2
  <2>3. CASE StartChannel
    <3>1. \/ UNCHANGED xfers
          \/ xfers' = [xfers EXCEPT
               ![gp] = [want |-> Asked(ch[gp].size), moved |-> 1, cut |-> FALSE]]
      BY <2>3 DEF StartChannel
    <3> QED
      BY <2>1, <2>2, <3>1 DEF TypeOK
  <2>4. CASE NextByte
    <3>1. ~xfers[gp].cut
      BY <2>4 DEF NextByte, AtBoundary, More, CutIsCancelled
    <3> QED
      BY <2>1, <2>4, <3>1 DEF NextByte, TypeOK
  <2>5. CASE SetupChannel \/ TransferChannel
    <3>1. xfers' = xfers \/ xfers' = [xfers EXCEPT ![hc].cut = TRUE]
      BY <2>5 DEF SetupChannel, TransferChannel, Cut
    <3> QED
      BY <2>1, <3>1 DEF TypeOK
  <2>6. CASE Beam \/ Cpu \/ Program \/ StartDma \/ EndChannel
             \/ StartHdmaSetup \/ StartHdmaRun \/ AdvanceChannel
    <3>1. UNCHANGED xfers
      BY <2>6 DEF Beam, HdmaSetupPoint, HdmaRunPoint, Cpu, BeginCycle, BeginArmedCycle,
        EndService, EndDma, Access, Program, WriteDmaEnable, WriteHdmaEnable, WriteChannel,
        StartDma, EndChannel, StartHdmaSetup, StartHdmaRun, AdvanceChannel, history
    <3> QED
      BY <2>1, <2>2, <3>1
  <2> QED
    BY <2>3, <2>4, <2>5, <2>6 DEF Next, GeneralDma, Hdma
<1> QED
  BY Inductive, <1>1, PTL DEF Spec, CutIsFinal
-----------------------------------------------------------------------------
(***************************************************************************)
(* The table walk.  TableWalk speaks of the moments between two HDMAs; in  *)
(* the middle of one, what a channel has moved depends on whether the pass *)
(* has reached it, and its line counter must be known to agree with the    *)
(* lines the entry has lasted.                                             *)
(***************************************************************************)
\* In this HDMA the transfer pass has reached channel c, and the advance has not.
HasMoved(c) ==
  \/ hop = "transfer" /\ c < hc
  \/ hop = "advance" /\ c >= hc

\* The lines before this one on which an entry has moved data.
LinesMoved(w) ==
  IF w.entry > RepeatBit THEN w.ran ELSE IF w.ran = 0 THEN 0 ELSE 1

\* Channel c is inside the table entry of its history w.
InEntry(w, c, moved) ==
  w.clean /\ Active(c) =>
    /\ w.entry > 0 /\ w.ran < LinesOf(w.entry)
    /\ c.line = w.entry - w.ran
    /\ c.xfer <=> (w.entry > RepeatBit \/ w.ran = 0)
    /\ w.fired = LinesMoved(w) + IF moved /\ c.xfer THEN 1 ELSE 0

WalkInv == \A c \in Channels : InEntry(walk[c], ch[c], HasMoved(c))

Walk == [entry : Byte, ran : 0 .. ByteSize, fired : 0 .. ByteSize, clean : BOOLEAN]

\* An expired counter is reloaded from the table, and no other is.
LEMMA ReloadEntry ==
  ASSUME NEW c \in Channel, NEW last, NEW b \in Byte, NEW lo, NEW hi
  PROVE  LET d == Reload(c, last, b, lo, hi)
         IN  /\ Expired(c.line) => /\ d.line = b /\ (d.done <=> b = 0)
                                   /\ (d.xfer <=> b # 0) /\ (d.hdma <=> c.hdma)
             /\ ~Expired(c.line) => d = c
<1> DEFINE e == LoadEntry(c, b)
           d == Reload(c, last, b, lo, hi)
<1>1. e.line = b /\ (e.done <=> b = 0) /\ (e.xfer <=> b # 0) /\ (e.hdma <=> c.hdma)
  BY DEF LoadEntry, Channel
<1>2. DOMAIN e = DOMAIN c
  BY DEF LoadEntry
<1>3. ~Expired(c.line) => d = c
  BY DEF Reload
<1>4. ASSUME Expired(c.line)
      PROVE  \/ d = e
             \/ \E t, s : d = [e EXCEPT !.tab = t, !.size = s]
  BY <1>4 DEF Reload
<1>5. ASSUME NEW t, NEW s
      PROVE  LET f == [e EXCEPT !.tab = t, !.size = s]
             IN  f.line = e.line /\ f.done = e.done /\ f.xfer = e.xfer /\ f.hdma = e.hdma
  BY <1>2 DEF Channel
<1> HIDE DEF e, d
<1>6. ASSUME Expired(c.line)
      PROVE  d.line = e.line /\ d.done = e.done /\ d.xfer = e.xfer /\ d.hdma = e.hdma
  <2>1. CASE d = e
    BY <2>1
  <2>2. CASE d # e
    <3>1. PICK t, s : d = [e EXCEPT !.tab = t, !.size = s]
      BY <1>4, <1>6, <2>2
    <3> QED
      BY <1>5, <3>1
  <2> QED
    BY <2>1, <2>2
<1> QED
  BY <1>1, <1>3, <1>6 DEF d

\* A channel that has just loaded an entry is at its start.
LEMMA LoadedInEntry ==
  ASSUME NEW d \in Channel, d.done <=> d.line = 0, d.xfer <=> d.line # 0
  PROVE  InEntry(Loaded(d), d, FALSE)
<1> SUFFICES ASSUME Active(d) PROVE InEntry(Loaded(d), d, FALSE)
  BY DEF InEntry
<1>1. d.line \in Nat /\ d.line > 0 /\ d.xfer
  BY Sizes DEF Active, Channel, Byte
<1>2. LinesOf(d.line) > 0
  BY <1>1, RepeatBitAssumption DEF LinesOf
<1> DEFINE w == Loaded(d)
<1>3. w.entry = d.line /\ w.ran = 0 /\ w.fired = 0
  BY DEF Loaded
<1> HIDE DEF w
<1>4. /\ w.entry > 0 /\ w.ran < LinesOf(w.entry)
      /\ d.line = w.entry - w.ran
      /\ LinesMoved(w) = 0
  BY <1>1, <1>2, <1>3 DEF LinesMoved
<1> QED
  BY <1>1, <1>3, <1>4 DEF InEntry, w

LEMMA SetupInEntry ==
  ASSUME NEW c \in Channel, NEW last \in BOOLEAN,
         NEW b \in Byte, NEW lo \in Byte, NEW hi \in Byte
  PROVE  LET d == Setup(c, last, b, lo, hi)
         IN  /\ (d.hdma <=> c.hdma)
             /\ c.hdma => InEntry(Loaded(d), d, FALSE)
<1> DEFINE s == [c EXCEPT !.xfer = TRUE, !.dma = FALSE, !.tab = c.src, !.line = 0]
           d == Setup(c, last, b, lo, hi)
<1>1. 0 \in Byte
  BY Sizes DEF Byte
<1>2. s \in Channel /\ Expired(s.line) /\ (s.hdma <=> c.hdma)
  BY <1>1 DEF Channel, Expired
<1>3. d \in Channel
  BY SetupType
<1>4. CASE c.hdma
  <2>1. d = Reload(s, last, b, lo, hi)
    BY <1>4 DEF Setup
  <2> HIDE DEF d, s
  <2>2. d.line = b /\ (d.done <=> b = 0) /\ (d.xfer <=> b # 0) /\ (d.hdma <=> s.hdma)
    BY <1>2, <2>1, ReloadEntry
  <2>3. InEntry(Loaded(d), d, FALSE)
    BY <1>3, <2>2, LoadedInEntry
  <2> QED
    BY <1>2, <2>2, <2>3 DEF d
<1>5. CASE ~c.hdma
  BY <1>5 DEF Setup, Channel
<1> QED
  BY <1>4, <1>5

\* The transfer of a line counts on the lines that are due.
LEMMA TransferInEntry ==
  ASSUME NEW c \in Channel, NEW w \in Walk, InEntry(w, c, FALSE)
  PROVE  InEntry(IF Active(c) /\ c.xfer
                 THEN [w EXCEPT !.fired = IF @ < ByteSize THEN @ + 1 ELSE @] ELSE w,
                 Transfer(c), TRUE)
<1> DEFINE d == Transfer(c)
           x == IF Active(c) /\ c.xfer
                THEN [w EXCEPT !.fired = IF @ < ByteSize THEN @ + 1 ELSE @] ELSE w
<1>1. /\ (Active(d) <=> Active(c)) /\ d.line = c.line /\ (d.xfer <=> c.xfer)
  BY DEF Transfer, Active, Channel
<1> SUFFICES ASSUME x.clean, Active(d) PROVE InEntry(x, d, TRUE)
  BY DEF InEntry
<1>2. x.entry = w.entry /\ x.ran = w.ran /\ w.clean
  BY DEF Walk
<1>3. /\ w.entry \in Nat /\ w.ran \in Nat /\ w.fired \in Nat
      /\ RepeatBit \in Nat /\ w.entry < 2 * RepeatBit /\ ByteSize = 2 * RepeatBit
  BY RepeatBitAssumption DEF Walk, Byte, ByteSize
<1>4. /\ w.entry > 0 /\ w.ran < LinesOf(w.entry)
      /\ c.line = w.entry - w.ran
      /\ c.xfer <=> (w.entry > RepeatBit \/ w.ran = 0)
      /\ w.fired = LinesMoved(w)
  BY <1>1, <1>2, <1>3 DEF InEntry, LinesMoved
<1>5. LinesMoved(x) = LinesMoved(w) /\ w.fired < ByteSize
  BY <1>2, <1>3, <1>4, RepeatBitAssumption DEF LinesMoved, LinesOf
<1>6. CASE c.xfer
  <2>1. x = [w EXCEPT !.fired = w.fired + 1]
    BY <1>1, <1>5, <1>6
  <2>2. x.fired = w.fired + 1
    BY <2>1 DEF Walk
  <2> HIDE DEF x, d
  <2> QED
    BY <1>1, <1>2, <1>4, <1>5, <1>6, <2>2 DEF InEntry
<1>7. CASE ~c.xfer
  <2>1. x = w
    BY <1>7
  <2> HIDE DEF x, d
  <2> QED
    BY <1>1, <1>3, <1>4, <1>7, <2>1 DEF InEntry
<1> QED
  BY <1>6, <1>7

\* The end of a line takes the channel to the next line of its entry, or to the
\* start of the next entry.
LEMMA AdvanceInEntry ==
  ASSUME NEW c \in Channel, NEW w \in Walk, InEntry(w, c, TRUE), NEW last \in BOOLEAN,
         NEW b \in Byte, NEW lo \in Byte, NEW hi \in Byte, Active(c)
  PROVE  LET d == Advance(c, last, b, lo, hi)
         IN  InEntry(IF Expired(DecLine(c.line)) THEN Loaded(d)
                     ELSE [w EXCEPT !.ran = IF @ < ByteSize THEN @ + 1 ELSE @],
                     d, FALSE)
<1> DEFINE n == DecLine(c.line)
           s == [c EXCEPT !.line = n, !.xfer = (n >= RepeatBit)]
           d == Advance(c, last, b, lo, hi)
           x == [w EXCEPT !.ran = IF @ < ByteSize THEN @ + 1 ELSE @]
<1>1. d \in Channel
  BY AdvanceType
<1>2. n \in Byte /\ n \in Nat
  BY Sizes DEF DecLine, Byte, Channel
<1>3. d = Reload(s, last, b, lo, hi)
  BY DEF Advance
<1>4. s.line = n /\ (s.xfer <=> n >= RepeatBit) /\ (s.hdma <=> c.hdma) /\ (s.done <=> c.done)
  <2> HIDE DEF n
  <2> QED
    BY DEF Channel
<1>5. s \in Channel
  <2>1. (n >= RepeatBit) \in BOOLEAN
    BY <1>2, RepeatBitAssumption
  <2>2. \A t \in BOOLEAN : [c EXCEPT !.line = n, !.xfer = t] \in Channel
    <3> HIDE DEF n
    <3> QED
      BY <1>2 DEF Channel
  <2> QED
    BY <2>1, <2>2, Zenon
<1> HIDE DEF d, s, n
<1>6. CASE Expired(n)
  <2>1. d.line = b /\ (d.done <=> b = 0) /\ (d.xfer <=> b # 0)
    BY <1>3, <1>4, <1>5, <1>6, ReloadEntry
  <2>2. InEntry(Loaded(d), d, FALSE)
    BY <1>1, <2>1, LoadedInEntry
  <2> QED
    BY <1>6, <2>2 DEF d, n
<1>7. CASE ~Expired(n)
  <2>1. d = s
    BY <1>3, <1>4, <1>5, <1>7, ReloadEntry
  <2>2. InEntry(x, d, FALSE)
    <3> SUFFICES ASSUME x.clean PROVE InEntry(x, d, FALSE)
      BY DEF InEntry
    <3>1. /\ w.entry \in Nat /\ w.ran \in Nat /\ w.fired \in Nat /\ w.clean
          /\ RepeatBit \in Nat /\ RepeatBit > 1 /\ w.entry < 2 * RepeatBit
          /\ ByteSize = 2 * RepeatBit
      BY RepeatBitAssumption DEF Walk, Byte, ByteSize
    <3>2. /\ w.entry > 0 /\ w.ran < LinesOf(w.entry)
          /\ c.line = w.entry - w.ran
          /\ c.xfer <=> (w.entry > RepeatBit \/ w.ran = 0)
          /\ w.fired = LinesMoved(w) + IF c.xfer THEN 1 ELSE 0
      BY <3>1 DEF InEntry
    <3>3. n = w.entry - w.ran - 1 /\ n # 0 /\ n # RepeatBit
      BY <1>7, <3>1, <3>2 DEF n, DecLine, Expired, LinesOf
    <3>4. w.ran < ByteSize
      BY <3>1, <3>2 DEF LinesOf
    <3>5. x = [w EXCEPT !.ran = w.ran + 1]
      BY <3>4
    <3>6. x.entry = w.entry /\ x.ran = w.ran + 1 /\ x.fired = w.fired
      BY <3>5 DEF Walk
    <3> HIDE DEF x
    <3>7. x.entry > 0 /\ x.ran < LinesOf(x.entry) /\ d.line = x.entry - x.ran
      BY <1>4, <2>1, <3>1, <3>2, <3>3, <3>6 DEF LinesOf
    <3>8. d.xfer <=> (x.entry > RepeatBit \/ x.ran = 0)
      BY <1>4, <2>1, <3>1, <3>2, <3>3, <3>6 DEF LinesOf
    <3>9. x.fired = LinesMoved(x)
      BY <3>1, <3>2, <3>6 DEF LinesMoved
    <3>10. LinesMoved(x) \in Nat
      BY <3>1, <3>6 DEF LinesMoved
    <3> QED
      BY <3>7, <3>8, <3>9, <3>10 DEF InEntry
  <2> QED
    BY <1>7, <2>2 DEF d, n
<1> QED
  BY <1>6, <1>7
\* A step that leaves alone what the walk is about, or that the program took and
\* that ends the claim on a channel.
LEMMA SameWalk ==
  ASSUME WalkInv, UNCHANGED <<hop, hc>> \/ (hop = "none" /\ hop' = "none") \/
                  (\A c \in Channels : ~HasMoved(c) /\ ~HasMoved(c)'),
         \A c \in Channels :
           \/ ~walk'[c].clean
           \/ /\ walk'[c] = walk[c] /\ (Active(ch'[c]) <=> Active(ch[c]))
              /\ ch'[c].line = ch[c].line /\ ch'[c].xfer = ch[c].xfer
  PROVE  WalkInv'
<1> SUFFICES ASSUME NEW c \in Channels, walk'[c].clean
             PROVE  InEntry(walk[c], ch[c], HasMoved(c))'
  BY DEF WalkInv, InEntry
<1>1. HasMoved(c)' <=> HasMoved(c)
  BY DEF HasMoved
<1>2. InEntry(walk[c], ch[c], HasMoved(c))
  BY DEF WalkInv
<1> QED
  BY <1>1, <1>2 DEF InEntry, LinesMoved

LEMMA InitWalk == Init => WalkInv
<1> SUFFICES ASSUME Init, NEW c \in Channels PROVE ~walk[c].clean
  BY DEF WalkInv, InEntry
<1> QED
  BY DEF Init, NoEntry

LEMMA BeamWalk == IInv /\ WalkInv /\ Beam => WalkInv'
<1> SUFFICES ASSUME IInv, WalkInv, Beam PROVE WalkInv'
  OBVIOUS
<1>1. CASE HdmaSetupPoint
  <2>1. \A c \in Channels : ~walk'[c].clean
    BY <1>1 DEF HdmaSetupPoint, NoEntry
  <2> QED
    BY <1>1, <2>1, SameWalk DEF HdmaSetupPoint
<1>2. CASE HdmaRunPoint
  BY <1>2, SameWalk DEF HdmaRunPoint, history
<1> QED
  BY <1>1, <1>2 DEF Beam

LEMMA CpuWalk == WalkInv /\ Cpu => WalkInv'
<1> SUFFICES ASSUME WalkInv, Cpu PROVE WalkInv'
  OBVIOUS
<1>1. UNCHANGED <<ch, hop, hc, walk>>
  BY DEF Cpu, BeginCycle, BeginArmedCycle, EndService, EndDma, Access, history
<1> QED
  BY <1>1, SameWalk

LEMMA ProgramWalk == IInv /\ WalkInv /\ Program => WalkInv'
<1> SUFFICES ASSUME IInv, WalkInv, Program PROVE WalkInv'
  OBVIOUS
<1>1. ch \in [Channels -> Channel] /\ walk \in [Channels -> Walk]
  BY DEF IInv, TypeOK, Walk
<1>2. ASSUME NEW m \in Masks, WriteDmaEnable(m)
      PROVE  WalkInv'
  <2>1. ASSUME NEW c \in Channels
        PROVE  /\ Active(ch'[c]) <=> Active(ch[c])
               /\ ch'[c].line = ch[c].line /\ ch'[c].xfer = ch[c].xfer
    <3>1. ch'[c] = [ch[c] EXCEPT !.dma = (c \in m)]
      BY <1>2 DEF WriteDmaEnable
    <3> QED
      BY <1>1, <3>1 DEF Active, Channel
  <2> QED
    BY <1>2, <2>1, SameWalk DEF WriteDmaEnable
<1>3. ASSUME NEW m \in Masks, WriteHdmaEnable(m)
      PROVE  WalkInv'
  <2>1. \A c \in Channels : ~walk'[c].clean
    BY <1>1, <1>3 DEF WriteHdmaEnable, Walk
  <2> QED
    BY <1>3, <2>1, SameWalk DEF WriteHdmaEnable
<1>4. ASSUME NEW k \in Channels, NEW d, WriteChannel(k, d)
      PROVE  WalkInv'
  <2>1. ASSUME NEW c \in Channels
        PROVE  \/ ~walk'[c].clean
               \/ walk'[c] = walk[c] /\ ch'[c] = ch[c]
    BY <1>1, <1>4 DEF WriteChannel, Walk
  <2> QED
    BY <1>4, <2>1, SameWalk DEF WriteChannel
<1>5. \A p \in Pokes : p[1] \in Channels
  BY DmaAssumption
<1>6. \A p \in ControlPokes : p[1] \in Channels
  BY DmaAssumption
<1> QED
  BY <1>2, <1>3, <1>4, <1>5, <1>6 DEF Program

LEMMA GeneralDmaWalk == IInv /\ WalkInv /\ GeneralDma => WalkInv'
<1> SUFFICES ASSUME IInv, WalkInv, GeneralDma PROVE WalkInv'
  OBVIOUS
<1>1. ch \in [Channels -> Channel] /\ gp \in Channels
  BY DEF IInv, TypeOK
<1>2. UNCHANGED <<hop, hc, walk>>
  BY DEF GeneralDma, StartDma, StartChannel, NextByte, EndChannel, history
<1>3. \/ ch' = ch
      \/ ch' = [ch EXCEPT ![gp] = AfterByte(ch[gp])]
      \/ ch' = [ch EXCEPT ![gp] = [ch[gp] EXCEPT !.dma = FALSE]]
  BY DEF GeneralDma, StartDma, StartChannel, NextByte, EndChannel
<1>4. ASSUME NEW c \in Channel
      PROVE  /\ Active(AfterByte(c)) <=> Active(c)
             /\ AfterByte(c).line = c.line /\ AfterByte(c).xfer = c.xfer
  BY DEF AfterByte, Active, Channel
<1>5. ASSUME NEW c \in Channel
      PROVE  LET d == [c EXCEPT !.dma = FALSE]
             IN  (Active(d) <=> Active(c)) /\ d.line = c.line /\ d.xfer = c.xfer
  BY DEF Active, Channel
<1>6. ASSUME NEW c \in Channels
      PROVE  /\ Active(ch'[c]) <=> Active(ch[c])
             /\ ch'[c].line = ch[c].line /\ ch'[c].xfer = ch[c].xfer
  <2>1. CASE c = gp
    <3>1. ch[gp] \in Channel
      BY <1>1
    <3>2. CASE ch' = ch
      BY <2>1, <3>2
    <3>3. CASE ch' = [ch EXCEPT ![gp] = AfterByte(ch[gp])]
      <4>1. ch'[gp] = AfterByte(ch[gp])
        BY <1>1, <3>3
      <4> QED
        BY <1>4, <2>1, <3>1, <4>1
    <3>4. CASE ch' = [ch EXCEPT ![gp] = [ch[gp] EXCEPT !.dma = FALSE]]
      <4>1. ch'[gp] = [ch[gp] EXCEPT !.dma = FALSE]
        BY <1>1, <3>4
      <4> QED
        BY <1>5, <2>1, <3>1, <4>1
    <3> QED
      BY <1>3, <3>2, <3>3, <3>4
  <2>2. CASE c # gp
    BY <1>1, <1>3, <2>2
  <2> QED
    BY <2>1, <2>2
<1> QED
  BY <1>2, <1>6, SameWalk

\* A pass changes the claim on the channel it is at, and on no other.
LEMMA PassWalk ==
  ASSUME WalkInv, NEW k \in Channels,
         InEntry(walk'[k], ch'[k], HasMoved(k)'),
         \A c \in Channels : c # k =>
           /\ walk'[c] = walk[c] /\ ch'[c] = ch[c]
           /\ HasMoved(c)' <=> HasMoved(c)
  PROVE  WalkInv'
<1> SUFFICES ASSUME NEW c \in Channels
             PROVE  InEntry(walk'[c], ch'[c], HasMoved(c)')
  BY DEF WalkInv
<1>1. CASE c = k
  BY <1>1
<1>2. CASE c # k
  <2>1. InEntry(walk[c], ch[c], HasMoved(c))
    BY DEF WalkInv
  <2> QED
    BY <1>2, <2>1 DEF InEntry
<1> QED
  BY <1>1, <1>2

LEMMA HdmaWalk == IInv /\ WalkInv /\ Hdma => WalkInv'
<1> SUFFICES ASSUME IInv, WalkInv, Hdma PROVE WalkInv'
  OBVIOUS
<1>1. /\ hc \in Channels /\ ch[hc] \in Channel /\ walk[hc] \in Walk
      /\ ch \in [Channels -> Channel] /\ walk \in [Channels -> Walk]
  BY DEF IInv, TypeOK, Walk
<1>2. HdmaFinished(hc) \in BOOLEAN
  BY Zenon DEF HdmaFinished
<1>3. PICK k \in Channels : k = hc
  BY <1>1
<1>4. InEntry(walk[hc], ch[hc], HasMoved(hc))
  BY <1>1 DEF WalkInv
<1>5. \A c \in Channels : c \in Nat /\ c < NumChannels
  BY ChannelNumbers DEF Channels
<1>6. hc + 1 \notin Channels => hc = NumChannels - 1
  BY <1>1, ChannelNumbers
<1>7. CASE StartHdmaSetup \/ StartHdmaRun
  <2>1. hop = "none" /\ hop' \in {"none", "setup", "transfer"} /\ hc' = 0
    BY <1>7 DEF StartHdmaSetup, StartHdmaRun
  <2>2. UNCHANGED <<ch, walk>>
    BY <1>7 DEF StartHdmaSetup, StartHdmaRun, history
  <2>3. \A c \in Channels : ~HasMoved(c) /\ ~HasMoved(c)'
    BY <1>5, <2>1 DEF HasMoved
  <2> QED
    BY <2>2, <2>3, SameWalk
<1>8. CASE SetupChannel
  <2>1. PICK b \in TableBytes(hc, ch[hc].src) :
          LET d == Setup(ch[hc], HdmaFinished(hc), b[1], b[2], b[3])
          IN  /\ ch' = [ch EXCEPT ![hc] = d]
              /\ walk' = IF d.hdma THEN [walk EXCEPT ![hc] = Loaded(d)] ELSE walk
    BY <1>8 DEF SetupChannel
  <2> DEFINE d == Setup(ch[hc], HdmaFinished(hc), b[1], b[2], b[3])
  <2>2. b[1] \in Byte /\ b[2] \in Byte /\ b[3] \in Byte
    BY <1>1, TableBytesType DEF Channel
  <2>3. (d.hdma <=> ch[hc].hdma) /\ (ch[hc].hdma => InEntry(Loaded(d), d, FALSE))
    BY <1>1, <1>2, <2>2, SetupInEntry
  <2>4. hop = "setup" /\ hop' \in {"setup", "none"}
    BY <1>8 DEF SetupChannel, PassTo
  <2>5. \A c \in Channels : ~HasMoved(c) /\ ~HasMoved(c)'
    BY <2>4 DEF HasMoved
  <2>6. ch'[hc] = d /\ walk'[hc] = IF d.hdma THEN Loaded(d) ELSE walk[hc]
    BY <1>1, <2>1
  <2>7. \A c \in Channels : c # k => walk'[c] = walk[c] /\ ch'[c] = ch[c]
    BY <1>1, <1>3, <2>1
  <2> HIDE DEF d
  <2>8. InEntry(walk'[hc], ch'[hc], HasMoved(k)')
    BY <1>3, <1>1, <2>3, <2>5, <2>6 DEF InEntry, Active
  <2> QED
    BY <1>1, <2>5, <2>7, <2>8, <1>3, PassWalk
<1>9. CASE TransferChannel
  <2>1. /\ ch' = [ch EXCEPT ![hc] = Transfer(ch[hc])]
        /\ hop = "transfer" /\ PassTo("advance")
        /\ walk' = IF Active(ch[hc]) /\ ch[hc].xfer
                   THEN [walk EXCEPT ![hc].fired = IF @ < ByteSize THEN @ + 1 ELSE @]
                   ELSE walk
    BY <1>9 DEF TransferChannel
  <2>2. ~HasMoved(hc)
    BY <1>1, <1>5, <2>1 DEF HasMoved
  <2>3. HasMoved(k)' /\ \A c \in Channels : c # k => (HasMoved(c)' <=> HasMoved(c))
    <3>1. CASE hc + 1 \in Channels
      <4>1. hop' = "transfer" /\ hc' = hc + 1
        BY <2>1, <3>1 DEF PassTo
      <4> QED
        BY <1>3, <1>1, <1>5, <2>1, <4>1 DEF HasMoved
    <3>2. CASE hc + 1 \notin Channels
      <4>1. hop' = "advance" /\ hc' = 0 /\ hc = NumChannels - 1
        BY <1>6, <2>1, <3>2 DEF PassTo
      <4> QED
        BY <1>3, <1>1, <1>5, <2>1, <4>1, ChannelNumbers DEF HasMoved
    <3> QED
      BY <3>1, <3>2
  <2>4. walk'[hc] = IF Active(ch[hc]) /\ ch[hc].xfer
                    THEN [walk[hc] EXCEPT !.fired = IF @ < ByteSize THEN @ + 1 ELSE @]
                    ELSE walk[hc]
    BY <1>1, <2>1
  <2>5. ch'[hc] = Transfer(ch[hc])
    BY <1>1, <2>1
  <2>6. \A c \in Channels : c # k => walk'[c] = walk[c] /\ ch'[c] = ch[c]
    BY <1>1, <1>3, <2>1
  <2>7. InEntry(walk[hc], ch[hc], FALSE)
    BY <1>4, <2>2 DEF InEntry
  <2>8. InEntry(walk'[hc], ch'[hc], TRUE)
    BY <1>1, <2>4, <2>5, <2>7, TransferInEntry
  <2>9. InEntry(walk'[hc], ch'[hc], HasMoved(k)')
    BY <1>3, <2>3, <2>8 DEF InEntry
  <2> QED
    BY <1>1, <2>3, <2>6, <2>9, <1>3, PassWalk
<1>10. CASE AdvanceChannel
  <2>1. PICK b \in TableBytes(hc, ch[hc].tab) :
          LET c == ch[hc]
              d == Advance(c, HdmaFinished(hc), b[1], b[2], b[3])
          IN  /\ ch' = [ch EXCEPT ![hc] = d]
              /\ walk' = IF ~Active(c) THEN walk
                         ELSE IF Expired(DecLine(c.line)) THEN [walk EXCEPT ![hc] = Loaded(d)]
                         ELSE [walk EXCEPT ![hc].ran = IF @ < ByteSize THEN @ + 1 ELSE @]
    BY <1>10 DEF AdvanceChannel
  <2> DEFINE d == Advance(ch[hc], HdmaFinished(hc), b[1], b[2], b[3])
  <2>2. b[1] \in Byte /\ b[2] \in Byte /\ b[3] \in Byte
    BY <1>1, TableBytesType DEF Channel
  <2>3. hop = "advance" /\ PassTo("none")
    BY <1>10 DEF AdvanceChannel
  <2>4. HasMoved(hc)
    BY <1>1, <1>5, <2>3 DEF HasMoved
  <2>5. ~HasMoved(k)' /\ \A c \in Channels : c # k => (HasMoved(c)' <=> HasMoved(c))
    <3>1. CASE hc + 1 \in Channels
      <4>1. hop' = "advance" /\ hc' = hc + 1
        BY <2>3, <3>1 DEF PassTo
      <4> QED
        BY <1>3, <1>1, <1>5, <2>3, <4>1 DEF HasMoved
    <3>2. CASE hc + 1 \notin Channels
      <4>1. hop' = "none" /\ hc = NumChannels - 1
        BY <1>6, <2>3, <3>2 DEF PassTo
      <4> QED
        BY <1>3, <1>1, <1>5, <2>3, <4>1, ChannelNumbers DEF HasMoved
    <3> QED
      BY <3>1, <3>2
  <2>6. ch'[hc] = d
    BY <1>1, <2>1
  <2>7. \A c \in Channels : c # k => walk'[c] = walk[c] /\ ch'[c] = ch[c]
    BY <1>1, <1>3, <2>1
  <2>8. CASE Active(ch[hc])
    <3>1. walk'[hc] = IF Expired(DecLine(ch[hc].line)) THEN Loaded(d)
                      ELSE [walk[hc] EXCEPT !.ran = IF @ < ByteSize THEN @ + 1 ELSE @]
      BY <1>1, <2>1, <2>8
    <3>2. InEntry(walk[hc], ch[hc], TRUE)
      BY <1>4, <2>4 DEF InEntry
    <3>3. InEntry(walk'[hc], ch'[hc], FALSE)
      <4>1. InEntry(IF Expired(DecLine(ch[hc].line)) THEN Loaded(d)
                    ELSE [walk[hc] EXCEPT !.ran = IF @ < ByteSize THEN @ + 1 ELSE @],
                    d, FALSE)
        BY <1>1, <1>2, <2>2, <2>8, <3>2, AdvanceInEntry, Zenon
      <4> QED
        BY <2>6, <3>1, <4>1, Zenon
    <3>4. InEntry(walk'[hc], ch'[hc], HasMoved(k)')
      BY <1>3, <2>5, <3>3 DEF InEntry
    <3> QED
      BY <1>1, <2>5, <2>7, <3>4, <1>3, PassWalk
  <2>9. CASE ~Active(ch[hc])
    <3>1. d = ch[hc]
      BY <2>9 DEF Advance
    <3>2. InEntry(walk'[hc], ch'[hc], HasMoved(k)')
      BY <1>3, <2>6, <2>9, <3>1 DEF InEntry
    <3> QED
      BY <1>1, <2>5, <2>7, <3>2, <1>3, PassWalk
  <2> QED
    BY <2>8, <2>9
<1> QED
  BY <1>7, <1>8, <1>9, <1>10 DEF Hdma

LEMMA NextWalk == IInv /\ WalkInv /\ [Next]_vars => WalkInv'
<1> SUFFICES ASSUME IInv, WalkInv, [Next]_vars PROVE WalkInv'
  OBVIOUS
<1>1. CASE UNCHANGED vars
  BY <1>1, SameWalk DEF vars
<1> QED
  BY <1>1, BeamWalk, CpuWalk, ProgramWalk, GeneralDmaWalk, HdmaWalk DEF Next

\* A channel no one has meddled with has moved data on exactly the lines its table
\* entry asks for, however general DMA, the other channels and the beam come in
\* between, and for tables of any contents.
THEOREM TablesWalked == Spec => []TableWalk
<1>1. IInv /\ WalkInv => TableWalk
  <2> SUFFICES ASSUME WalkInv, hop = "none", NEW c \in Channels, walk[c].clean, Active(ch[c]),
                      walk[c] \in Walk
               PROVE  LET w == walk[c]
                      IN  /\ w.ran < LinesOf(w.entry)
                          /\ w.fired = IF w.entry > RepeatBit THEN w.ran
                                       ELSE IF w.ran = 0 THEN 0 ELSE 1
                          /\ ch[c].xfer <=> (w.entry > RepeatBit \/ w.ran = 0)
    BY DEF TableWalk, IInv, TypeOK, Walk
  <2>1. ~HasMoved(c) /\ InEntry(walk[c], ch[c], HasMoved(c))
    BY DEF HasMoved, WalkInv
  <2>2. LinesMoved(walk[c]) \in Nat
    BY DEF LinesMoved, Walk
  <2> QED
    BY <2>1, <2>2 DEF InEntry, LinesMoved
<1>2. Init => IInv /\ WalkInv
  BY InitIInv, InitWalk
<1>3. (IInv /\ WalkInv) /\ [Next]_vars => (IInv /\ WalkInv)'
  BY NextIInv, NextWalk
<1> QED
  BY <1>1, <1>2, <1>3, PTL DEF Spec
=============================================================================
