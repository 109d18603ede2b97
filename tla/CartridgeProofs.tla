-------------------------- MODULE CartridgeProofs --------------------------
(***************************************************************************)
(* Proofs about what a cartridge has of its own: the save files, for any   *)
(* number of files and any contents; the memory pack, for any number of    *)
(* blocks; the receivers, for any channels, assets and packets; the SA-1's *)
(* transfers, its NMI and its timer; the MSU-1, for any tracks and rates.  *)
(***************************************************************************)
EXTENDS SaveFiles, BsFlash, BsRadio, Sa1Dma, Sa1Processor, Sa1Timer, Msu1,
        WellFoundedInduction, TLAPS

Flushing == {"flushing", "writing", "renaming"}

Types ==
  /\ phase \in Phases
  /\ todo \in Seq(Indices)
  /\ memory \in [Indices -> Versions]
  /\ disk \in [Indices -> Versions \cup {Absent}]
  /\ saved \in [Indices -> Versions \cup {Absent}]

\* The file being written is one of those to do, and its temporary file is the memory's.
FileInHand ==
  /\ phase \in {"writing", "renaming"} => todo # <<>>
  /\ phase = "renaming" => temporary = memory[File]

\* What is not to be done any more has been done: the memory rests during a flush.
RestDone ==
  phase \in Flushing =>
    \A i \in Indices : (\A k \in DOMAIN todo : todo[k] # i) => memory[i] = disk[i]

IInv == Types /\ SavesWhole /\ ExitSavesAll /\ FileInHand /\ RestDone

LEMMA InitHolds == Init => IInv
<1> SUFFICES ASSUME Init PROVE IInv
  OBVIOUS
<1>1. Types
  BY SaveFilesAssumption DEF Init, Types, Phases, New, Nothing, Absent
<1>2. SavesWhole /\ ExitSavesAll /\ FileInHand /\ RestDone
  BY DEF Init, SavesWhole, ExitSavesAll, FileInHand, RestDone, Flushing
<1> QED
  BY <1>1, <1>2 DEF IInv

\* A file is done: it is on the disk and no other file has changed.
LEMMA FileDone ==
  ASSUME IInv, phase \in Flushing, todo # <<>>, todo' = Tail(todo), memory' = memory,
         disk' \in [Indices -> Versions \cup {Absent}], disk'[File] = memory[File],
         \A i \in Indices : i # File => disk'[i] = disk[i]
  PROVE  /\ todo' \in Seq(Indices)
         /\ \A i \in Indices : (\A k \in DOMAIN todo' : todo'[k] # i) => memory'[i] = disk'[i]
<1>1. todo \in Seq(Indices) /\ File \in Indices
  BY DEF IInv, Types, File
<1>2. todo' \in Seq(Indices)
  BY <1>1
<1>3. ASSUME NEW i \in Indices, \A k \in DOMAIN todo' : todo'[k] # i, i # File
      PROVE  memory[i] = disk[i]
  <2>1. ASSUME NEW k \in DOMAIN todo PROVE todo[k] # i
    <3>1. CASE k = 1
      BY <3>1, <1>3, <1>1 DEF File
    <3>2. CASE k # 1
      <4>1. k - 1 \in DOMAIN todo' /\ todo'[k - 1] = todo[k]
        BY <3>2, <1>1, <2>1
      <4> QED
        BY <4>1, <1>3
    <3> QED
      BY <3>1, <3>2
  <2> QED
    BY <2>1 DEF IInv, RestDone
<1> QED
  BY <1>2, <1>3, <1>1

LEMMA NextHolds == IInv /\ [Next]_vars => IInv'
<1> SUFFICES ASSUME IInv, [Next]_vars PROVE IInv'
  OBVIOUS
<1> USE DEF Phases, Flushing, Indices
<1>1. CASE Load
  <2>1. memory' \in [Indices -> Versions]
    BY <1>1, SaveFilesAssumption DEF Load, IInv, Types
  <2> QED
    BY <1>1, <2>1 DEF Load, IInv, Types, SavesWhole, ExitSavesAll, FileInHand, RestDone
<1>2. CASE Play
  <2>1. memory' \in [Indices -> Versions]
    BY <1>2 DEF Play, IInv, Types
  <2> QED
    BY <1>2, <2>1 DEF Play, IInv, Types, SavesWhole, ExitSavesAll, FileInHand, RestDone
<1>3. ASSUME NEW last \in BOOLEAN, FlushSaves(last) PROVE IInv'
  <2>1. todo' \in Seq(Indices) /\ \A i \in Indices : i \in DOMAIN todo' /\ todo'[i] = i
    BY <1>3, SaveFilesAssumption DEF FlushSaves
  <2> QED
    BY <1>3, <2>1 DEF FlushSaves, IInv, Types, SavesWhole, ExitSavesAll, FileInHand, RestDone
<1>4. CASE Skip
  <2>1. File \in Indices /\ disk[File] = memory[File]
    BY <1>4 DEF Skip, Unchanged, File, IInv, Types, ExitSavesAll
  <2>2. /\ todo' \in Seq(Indices)
        /\ \A i \in Indices : (\A k \in DOMAIN todo' : todo'[k] # i) => memory'[i] = disk'[i]
    BY <1>4, <2>1, FileDone DEF Skip, IInv, Types
  <2> QED
    BY <1>4, <2>2 DEF Skip, IInv, Types, SavesWhole, ExitSavesAll, FileInHand, RestDone
<1>5. CASE Create
  BY <1>5 DEF Create, IInv, Types, SavesWhole, ExitSavesAll, FileInHand, RestDone
<1>6. CASE Write
  BY <1>6 DEF Write, IInv, Types, SavesWhole, ExitSavesAll, FileInHand, RestDone, File
<1>7. CASE Rename
  <2>1. /\ File \in Indices /\ todo # <<>> /\ temporary = memory[File]
        /\ memory[File] \in Versions
    BY <1>7 DEF Rename, File, IInv, Types, FileInHand
  <2>2. /\ disk' = [disk EXCEPT ![File] = memory[File]]
        /\ saved' = [saved EXCEPT ![File] = memory[File]]
        /\ flushed' = [flushed EXCEPT ![File] = memory[File]]
        /\ disk = saved /\ disk = flushed
    BY <1>7, <2>1 DEF Rename, IInv, SavesWhole, ExitSavesAll
  <2>3. disk' \in [Indices -> Versions \cup {Absent}] /\ saved' = disk' /\ flushed' = disk'
    BY <2>1, <2>2 DEF IInv, Types
  <2>4. /\ todo' \in Seq(Indices)
        /\ \A i \in Indices : (\A k \in DOMAIN todo' : todo'[k] # i) => memory'[i] = disk'[i]
    <3>1. disk'[File] = memory[File] /\ \A i \in Indices : i # File => disk'[i] = disk[i]
      BY <2>1, <2>2 DEF IInv, Types
    <3> QED
      BY <1>7, <2>1, <2>3, <3>1, FileDone DEF Rename
  <2> QED
    BY <1>7, <2>3, <2>4 DEF Rename, IInv, Types, SavesWhole, ExitSavesAll, FileInHand, RestDone
<1>8. CASE Fail
  <2>1. todo' \in Seq(Indices)
    BY <1>8 DEF Fail, IInv, Types, FileInHand
  <2> QED
    BY <1>8, <2>1 DEF Fail, AfterFailure, IInv, Types, SavesWhole, ExitSavesAll, FileInHand, RestDone
<1>9. CASE Done
  <2>1. \A i \in Indices : memory[i] = disk[i]
    BY <1>9 DEF Done, IInv, RestDone
  <2> QED
    BY <1>9, <2>1 DEF Done, IInv, Types, SavesWhole, ExitSavesAll, FileInHand, RestDone
<1>10. CASE Kill
  BY <1>10 DEF Kill, DiskAfterKill, IInv, Types, SavesWhole, ExitSavesAll, FileInHand, RestDone
<1>11. CASE Start
  <2>1. memory' \in [Indices -> Versions] /\ saved' \in [Indices -> Versions \cup {Absent}]
    BY <1>11, SaveFilesAssumption DEF Start, New, Nothing
  <2> QED
    BY <1>11, <2>1 DEF Start, IInv, Types, SavesWhole, ExitSavesAll, FileInHand, RestDone
<1>12. CASE UNCHANGED vars
  BY <1>12 DEF vars, IInv, Types, SavesWhole, ExitSavesAll, FileInHand, RestDone, File
<1> QED
  BY <1>1, <1>2, <1>3, <1>4, <1>5, <1>6, <1>7, <1>8, <1>9, <1>10, <1>11, <1>12 DEF Next

\* Each save file holds, whole, what its last flush wrote, and a program that ends well
\* has written all of them (SaveRamFile::Flush and main's flushSaves), whatever fails and
\* whenever the process is killed.
THEOREM SavesAlwaysExact == Spec => []SavesExact
<1>1. Init => IInv
  BY InitHolds
<1>2. IInv /\ [Next]_vars => IInv'
  BY NextHolds
<1>3. IInv => SavesExact
  BY DEF IInv, SavesExact
<1> QED
  BY <1>1, <1>2, <1>3, PTL DEF Spec

-----------------------------------------------------------------------------
(***************************************************************************)
(* The memory pack.                                                        *)
(***************************************************************************)
Chips ==
  [pack : [Blocks -> {0, 1}], on : SUBSET {"program", "status", "extended", "vendor"},
   last : Commands]

\* The two boards hold the same chip: the interrupt is the only difference.
SameChips == bsx \in Chips /\ slot = bsx

LEMMA BlankChip ==
  ASSUME NEW pack \in [Blocks -> {0, 1}]
  PROVE  [Blank EXCEPT !.pack = pack] \in Chips
<1>1. "read" \in Commands
  BY DEF Commands
<1> QED
  BY <1>1 DEF Blank, Chips

\* A command has the same effect on both.
LEMMA SameCommand ==
  ASSUME SameChips, NEW byte \in Commands, NEW b \in Blocks
  PROVE  SlotCommand(byte, b) = BsxCommand(bsx, byte, b) /\ BsxCommand(bsx, byte, b) \in Chips
<1>1. bsx.pack \in [Blocks -> {0, 1}] /\ slot = bsx /\ bsx \in Chips
  BY DEF SameChips, Chips
<1>2. ModeFlags(byte) \subseteq {"program", "status", "extended"}
  BY DEF ModeFlags
<1>3. CASE byte = "confirm" /\ bsx.last = "erase"
  <2>1. /\ byte \notin Modes /\ byte # "clear" /\ byte # "vendor"
    BY <1>3 DEF Modes
  <2>2. BsxCommand(bsx, byte, b) = [bsx EXCEPT !.last = byte, !.pack[b] = 1]
    BY <1>1, <1>3, <2>1 DEF BsxCommand, Chips
  <2>3. SlotCommand(byte, b) = [bsx EXCEPT !.last = byte, !.pack[b] = 1]
    BY <1>1, <1>3 DEF SlotCommand, SlotErases
  <2>4. [bsx EXCEPT !.last = byte, !.pack[b] = 1] \in Chips
    <3>1. [bsx.pack EXCEPT ![b] = 1] \in [Blocks -> {0, 1}]
      BY <1>1
    <3> QED
      BY <1>1, <3>1 DEF Chips
  <2> QED
    BY <2>2, <2>3, <2>4
<1>4. CASE ~(byte = "confirm" /\ bsx.last = "erase")
  <2>1. [bsx.pack EXCEPT ![b] = bsx.pack[b]] = bsx.pack
    BY <1>1
  <2>2. BsxCommand(bsx, byte, b) = [bsx EXCEPT !.last = byte,
           !.on = CASE byte \in Modes -> ModeFlags(byte)
                    [] byte = "clear" -> @ \ {"status", "extended"}
                    [] byte = "vendor" -> (@ \ {"status"}) \cup {"vendor"}
                    [] OTHER -> @]
    BY <1>1, <1>4, <2>1 DEF BsxCommand, Chips, Modes
  <2> QED
    BY <1>1, <1>2, <1>4, <2>2, ZenonT(60) DEF SlotCommand, SlotErases, Chips
<1> QED
  BY <1>3, <1>4

LEMMA FlashStep == SameChips /\ [FlashNext]_flashVars => SameChips'
<1> SUFFICES ASSUME SameChips, [FlashNext]_flashVars PROVE SameChips'
  OBVIOUS
<1>1. ASSUME NEW byte \in Commands, NEW bit \in {0, 1}, NEW b \in Blocks,
             GameWrites(byte, bit, b)
      PROVE  SameChips'
  <2>1. CASE 12 \notin active
    BY <1>1, <2>1 DEF GameWrites, SameChips
  <2>2. CASE 12 \in active /\ "program" \in bsx.on
    <3>1. bsx' = ProgramBit(bsx, b, bit) /\ slot' = ProgramBit(slot, b, bit) /\ slot = bsx
      BY <1>1, <2>2 DEF GameWrites, WritePack, WriteMemoryPack, SameChips
    <3>2. ProgramBit(bsx, b, bit) \in Chips
      <4>1. [bsx.pack EXCEPT ![b] = IF bit = 0 THEN 0 ELSE @] \in [Blocks -> {0, 1}]
        BY DEF SameChips, Chips
      <4> QED
        BY <4>1 DEF ProgramBit, SameChips, Chips
    <3> QED
      BY <3>1, <3>2 DEF SameChips
  <2>3. CASE 12 \in active /\ "program" \notin bsx.on
    BY <1>1, <2>3, SameCommand DEF GameWrites, WritePack, WriteMemoryPack, SameChips
  <2> QED
    BY <2>1, <2>2, <2>3
<1>2. CASE GameReads
  BY <1>2 DEF GameReads, SameChips, Chips
<1>3. ASSUME NEW index \in {0, 1, 12, 14}, NEW bit \in BOOLEAN, WriteMapper(index, bit)
      PROVE  SameChips'
  BY <1>3 DEF WriteMapper, SameChips
<1>4. ASSUME NEW pack \in [Blocks -> {0, 1}], LoadMemoryPack(pack) PROVE SameChips'
  BY <1>4, BlankChip DEF LoadMemoryPack, SameChips
<1>5. CASE UNCHANGED flashVars
  BY <1>5 DEF flashVars, SameChips
<1> QED
  BY <1>1, <1>2, <1>3, <1>4, <1>5 DEF FlashNext

\* Bsx::Impl and BroadcastCartridge implement one chip: whatever commands, complete or
\* broken off, a game sends, both answer the next read alike, for any number of blocks.
THEOREM FlashesAlwaysAgree == FlashSpec => []FlashesAgree
<1>1. FlashInit => SameChips
  <2>1. [b \in Blocks |-> 1] \in [Blocks -> {0, 1}]
    OBVIOUS
  <2>2. Blank = [Blank EXCEPT !.pack = [b \in Blocks |-> 1]]
    BY DEF Blank
  <2> QED
    BY <2>1, <2>2, BlankChip DEF FlashInit, SameChips
<1>2. SameChips => FlashesAgree
  BY DEF SameChips, FlashesAgree, BsxAnswer, SlotAnswer, Places
<1> QED
  BY <1>1, <1>2, FlashStep, PTL DEF FlashSpec

-----------------------------------------------------------------------------
(***************************************************************************)
(* The receivers.                                                          *)
(***************************************************************************)
ReceiverRecords ==
  [prefix : BOOLEAN, data : BOOLEAN, loaded : BOOLEAN, first : BOOLEAN,
   next : 0 .. Sequences - 1, asset : Keys \cup {NoAsset}, cursor : Nat, remaining : Int]

RadioTypes ==
  /\ DOMAIN assets \subseteq Keys /\ assets \in [DOMAIN assets -> Nat]
  /\ channel \in [Receivers -> Channels \cup {0}]
  /\ receiver \in [Receivers -> ReceiverRecords]
  /\ read \in [Receivers -> Nat]

RadioInv == RadioTypes /\ StreamsCurrent

\* What StreamsCurrent says of one receiver.
Current(r) ==
  LET rec == receiver[r]
  IN  rec.loaded =>
        /\ rec.asset \in DOMAIN assets /\ rec.asset[1] = channel[r]
        /\ rec.cursor <= assets[rec.asset]
        /\ read[r] + rec.remaining = PacketCount(rec.asset)
        /\ rec.first <=> read[r] = 0

LEMMA OfEachReceiver == StreamsCurrent <=> \A r \in Receivers : Current(r)
  BY DEF StreamsCurrent, Current

LEMMA Counted ==
  ASSUME RadioTypes, NEW k \in DOMAIN assets
  PROVE  PacketCount(k) \in Int
<1>1. assets[k] \in Nat /\ PacketBytes \in Nat \ {0}
  BY BsRadioAssumption DEF RadioTypes
<1>2. assets[k] + PacketBytes - 1 \in Int
  BY <1>1
<1> QED
  BY <1>1, <1>2 DEF PacketCount

LEMMA DroppedIsIdle ==
  ASSUME NEW rec \in ReceiverRecords
  PROVE  Dropped(rec) \in ReceiverRecords /\ ~Dropped(rec).loaded
<1>1. 0 \in 0 .. Sequences - 1 /\ 0 \in Nat /\ 0 \in Int
  BY BsRadioAssumption
<1>2. Dropped(rec) \in ReceiverRecords
  BY <1>1, Zenon DEF Dropped, ReceiverRecords
<1> QED
  BY <1>2 DEF Dropped, ReceiverRecords

\* A receiver is given the asset it wants, from the first packet.
LEMMA AssetSelected ==
  ASSUME RadioInv, NEW r \in Receivers, SelectAsset(r), UNCHANGED <<assets, channel, clockIndex>>
  PROVE  RadioInv'
<1>1. /\ receiver[r] \in ReceiverRecords /\ Following(r) \in 0 .. Sequences - 1
      /\ Sequences \in Nat \ {0}
  <2>1. receiver[r] \in ReceiverRecords /\ Sequences \in Nat \ {0}
    BY BsRadioAssumption DEF RadioInv, RadioTypes
  <2>2. receiver[r].next + 1 \in Int
    BY <2>1 DEF ReceiverRecords
  <2>3. (receiver[r].next + 1) % Sequences \in 0 .. Sequences - 1
    BY <2>1, <2>2
  <2>4. 1 % Sequences \in 0 .. Sequences - 1
    BY <2>1
  <2> QED
    BY <2>1, <2>3, <2>4 DEF Following
<1>2. CASE Selected(r) \in DOMAIN assets
  <2>1. Selected(r) \in Keys /\ Selected(r)[1] = channel[r] /\ PacketCount(Selected(r)) \in Int
    BY <1>2, Counted DEF RadioInv, RadioTypes, Selected, Wanted
  <2> DEFINE given == [receiver[r] EXCEPT !.next = Following(r), !.loaded = TRUE,
                         !.remaining = PacketCount(Selected(r)), !.cursor = 0, !.first = TRUE,
                         !.asset = Selected(r)]
  <2>2. given \in ReceiverRecords
    BY <1>1, <2>1 DEF ReceiverRecords
  <2>3. receiver' = [receiver EXCEPT ![r] = given] /\ read' = [read EXCEPT ![r] = 0]
    BY <1>1, <1>2 DEF SelectAsset, ReceiverRecords
  <2>4. RadioTypes'
    BY <2>2, <2>3 DEF RadioInv, RadioTypes
  <2>5. given.loaded /\ given.first /\ given.asset = Selected(r) /\ given.cursor = 0
        /\ given.remaining = PacketCount(Selected(r))
    BY <1>1 DEF ReceiverRecords
  <2> HIDE DEF given
  <2>6. Current(r)'
    <3>1. receiver'[r] = given /\ read'[r] = 0 /\ assets[Selected(r)] \in Nat
      BY <1>2, <2>3 DEF RadioInv, RadioTypes
    <3> QED
      BY <1>2, <2>1, <2>5, <3>1 DEF Current, PacketCount
  <2>7. ASSUME NEW q \in Receivers, q # r PROVE Current(q)'
    BY <2>3, <2>7, OfEachReceiver DEF RadioInv, RadioTypes, Current, PacketCount
  <2> QED
    BY <2>4, <2>6, <2>7, OfEachReceiver DEF RadioInv, StreamsCurrent, Current
<1>3. CASE Selected(r) \notin DOMAIN assets
  <2> DEFINE idle == [receiver[r] EXCEPT !.next = Following(r), !.loaded = FALSE,
                        !.remaining = 0, !.cursor = 0, !.first = FALSE]
  <2>1. idle \in ReceiverRecords /\ ~idle.loaded
    <3>1. 0 \in Nat /\ 0 \in Int
      OBVIOUS
    <3>2. idle \in ReceiverRecords
      BY <1>1, <3>1, Zenon DEF ReceiverRecords
    <3> QED
      BY <1>1, <3>2 DEF ReceiverRecords
  <2>2. receiver' = [receiver EXCEPT ![r] = idle] /\ read' = [read EXCEPT ![r] = 0]
    <3>1. (Selected(r) \in DOMAIN assets) = FALSE
      BY <1>3
    <3> QED
      BY <1>3, <3>1, Zenon DEF SelectAsset
  <2> HIDE DEF idle
  <2>3. RadioTypes'
    BY <2>1, <2>2 DEF RadioInv, RadioTypes
  <2>4. ASSUME NEW q \in Receivers PROVE Current(q)'
    <3>1. CASE q = r
      BY <2>1, <2>2, <3>1 DEF RadioInv, RadioTypes, Current
    <3>2. CASE q # r
      BY <2>2, <3>2, OfEachReceiver DEF RadioInv, RadioTypes, Current, PacketCount
    <3> QED
      BY <3>1, <3>2
  <2> QED
    BY <2>3, <2>4 DEF RadioInv, StreamsCurrent, Current
<1> QED
  BY <1>2, <1>3

\* A receiver that is dropped has no asset.
LEMMA IdleIsCurrent ==
  ASSUME NEW r \in Receivers, ~receiver[r].loaded PROVE Current(r)
  BY DEF Current

\* The host replaces or removes asset k.
LEMMA AssetReplaced ==
  ASSUME RadioInv, NEW k \in Keys, NEW stored, Replace(k, stored),
         DOMAIN stored \subseteq Keys, stored \in [DOMAIN stored -> Nat],
         \A j \in DOMAIN assets : j # k => j \in DOMAIN stored /\ stored[j] = assets[j]
  PROVE  RadioInv'
<1>1. ASSUME NEW q \in Receivers
      PROVE  Interrupted(receiver[q], k) \in ReceiverRecords
  <2>1. receiver[q] \in ReceiverRecords /\ k[2] \in 0 .. Sequences - 1
    BY DEF RadioInv, RadioTypes, Keys
  <2>2. 0 \in Nat /\ 0 \in Int
    OBVIOUS
  <2> QED
    BY <2>1, <2>2, Zenon DEF Interrupted, ReceiverRecords
<1>2. RadioTypes'
  BY <1>1 DEF Replace, RadioInv, RadioTypes
<1>3. ASSUME NEW q \in Receivers PROVE Current(q)'
  <2>1. receiver'[q] = Interrupted(receiver[q], k) /\ receiver[q] \in ReceiverRecords
    BY DEF Replace, RadioInv, RadioTypes
  <2>2. CASE receiver[q].loaded /\ receiver[q].asset = k
    BY <2>1, <2>2 DEF Interrupted, ReceiverRecords, Current
  <2>3. CASE ~receiver[q].loaded
    BY <2>1, <2>3 DEF Interrupted, Current
  <2>4. CASE receiver[q].loaded /\ receiver[q].asset # k
    <3>1. receiver'[q] = receiver[q]
      BY <2>1, <2>4 DEF Interrupted
    <3>2. receiver[q].asset \in DOMAIN assets /\ Current(q)
      BY <2>4, OfEachReceiver DEF RadioInv, Current
    <3>3. assets'[receiver[q].asset] = assets[receiver[q].asset]
          /\ receiver[q].asset \in DOMAIN assets'
      BY <2>4, <3>2 DEF Replace
    <3> QED
      BY <3>1, <3>2, <3>3 DEF Current, PacketCount, Replace
  <2> QED
    BY <2>2, <2>3, <2>4
<1> QED
  BY <1>2, <1>3 DEF RadioInv, StreamsCurrent, Current

LEMMA FlagsRead ==
  ASSUME RadioInv, NEW r \in Receivers, ReadFlags(r) PROVE RadioInv'
<1>1. receiver[r] \in ReceiverRecords /\ Current(r) /\ read[r] \in Nat
  BY OfEachReceiver DEF RadioInv, RadioTypes
<1>2. CASE channel[r] = 0
  BY <1>2 DEF ReadFlags, RadioInv, RadioTypes, StreamsCurrent, PacketCount
<1>3. CASE channel[r] # 0
  <2> DEFINE left == [receiver[r] EXCEPT !.remaining = receiver[r].remaining - 1, !.first = FALSE]
  <2>1. receiver[r].loaded /\ receiver' = [receiver EXCEPT ![r] = left]
        /\ read' = [read EXCEPT ![r] = read[r] + 1]
    BY <1>1, <1>3 DEF ReadFlags, Prefix
  <2>2. receiver[r].remaining \in Int /\ receiver[r].remaining - 1 \in Int
    BY <1>1 DEF ReceiverRecords
  <2>3. left \in ReceiverRecords
    BY <1>1, <2>2, Zenon DEF ReceiverRecords
  <2>4. /\ left.remaining = receiver[r].remaining - 1 /\ ~left.first
        /\ left.asset = receiver[r].asset /\ left.cursor = receiver[r].cursor
    BY <1>1 DEF ReceiverRecords
  <2> HIDE DEF left
  <2>5. RadioTypes'
    BY <1>1, <2>1, <2>3 DEF RadioInv, RadioTypes, ReadFlags
  <2>6. ASSUME NEW q \in Receivers PROVE Current(q)'
    <3>1. CASE q = r
      <4>1. receiver'[r] = left /\ read'[r] = read[r] + 1
        BY <2>1 DEF RadioInv, RadioTypes
      <4>2. PacketCount(receiver[r].asset) \in Int
        BY <1>1, <2>1, Counted DEF RadioInv, Current
      <4> QED
        BY <1>1, <2>1, <2>2, <2>4, <3>1, <4>1, <4>2 DEF Current, ReadFlags, PacketCount
    <3>2. CASE q # r
      BY <2>1, <3>2, OfEachReceiver DEF RadioInv, RadioTypes, Current, ReadFlags, PacketCount
    <3> QED
      BY <3>1, <3>2
  <2> QED
    BY <2>5, <2>6 DEF RadioInv, StreamsCurrent, Current
<1> QED
  BY <1>2, <1>3

LEMMA RadioStep == RadioInv /\ [RadioNext]_radioVars => RadioInv'
<1> SUFFICES ASSUME RadioInv, [RadioNext]_radioVars PROVE RadioInv'
  OBVIOUS
<1>1. ASSUME NEW r \in Receivers, ReadCount(r) PROVE RadioInv'
  BY <1>1, AssetSelected DEF ReadCount
<1>2. ASSUME NEW r \in Receivers, ReadFlags(r) PROVE RadioInv'
  BY <1>2, FlagsRead
<1>3. ASSUME NEW r \in Receivers, ReadData(r) PROVE RadioInv'
  <2>1. CASE channel[r] = 0
    BY <1>3, <2>1 DEF ReadData, RadioInv, RadioTypes, StreamsCurrent, PacketCount
  <2>2. CASE channel[r] # 0
    <3>1. receiver[r] \in ReceiverRecords /\ receiver[r].cursor \in Nat
      BY DEF RadioInv, RadioTypes, ReceiverRecords
    <3>2. receiver' = [receiver EXCEPT ![r].cursor = receiver[r].cursor + 1]
      BY <1>3, <2>2 DEF ReadData
    <3>3. assets[receiver[r].asset] \in Nat /\ receiver[r].cursor < assets[receiver[r].asset]
      BY <1>3, <2>2 DEF ReadData, RadioInv, RadioTypes
    <3>4. RadioTypes'
      BY <1>3, <3>1, <3>2 DEF ReadData, RadioInv, RadioTypes, ReceiverRecords
    <3>5. ASSUME NEW q \in Receivers PROVE Current(q)'
      <4>1. CASE q = r
        BY <1>3, <3>1, <3>2, <3>3, <4>1, OfEachReceiver
           DEF ReadData, RadioInv, RadioTypes, ReceiverRecords, Current, PacketCount
      <4>2. CASE q # r
        BY <1>3, <3>2, <4>2, OfEachReceiver
           DEF ReadData, RadioInv, RadioTypes, Current, PacketCount
      <4> QED
        BY <4>1, <4>2
    <3> QED
      BY <3>4, <3>5 DEF RadioInv, StreamsCurrent, Current
  <2> QED
    BY <2>1, <2>2
<1>4. ASSUME NEW r \in Receivers, ReadStatus(r) PROVE RadioInv'
  BY <1>4 DEF ReadStatus, RadioInv, RadioTypes, StreamsCurrent, PacketCount
<1>5. ASSUME NEW r \in Receivers, NEW c \in Channels \cup {0}, WriteChannel(r, c)
      PROVE  RadioInv'
  <2>1. receiver[r] \in ReceiverRecords
    BY DEF RadioInv, RadioTypes
  <2>2. receiver' = [receiver EXCEPT ![r] = Dropped(receiver[r])]
    BY <1>5 DEF WriteChannel
  <2>3. RadioTypes'
    BY <1>5, <2>1, <2>2, DroppedIsIdle DEF WriteChannel, RadioInv, RadioTypes
  <2>4. ASSUME NEW q \in Receivers PROVE Current(q)'
    <3>1. CASE q = r
      BY <2>1, <2>2, <3>1, DroppedIsIdle DEF Current, RadioInv, RadioTypes
    <3>2. CASE q # r
      BY <1>5, <2>2, <3>2, OfEachReceiver
         DEF WriteChannel, RadioInv, RadioTypes, Current, PacketCount
    <3> QED
      BY <3>1, <3>2
  <2> QED
    BY <2>3, <2>4 DEF RadioInv, StreamsCurrent, Current
<1>6. ASSUME NEW r \in Receivers, NEW on \in BOOLEAN, EnablePrefix(r, on) \/ EnableData(r, on)
      PROVE  RadioInv'
  <2>1. PICK rec \in ReceiverRecords :
          /\ receiver' = [receiver EXCEPT ![r] = rec]
          /\ rec.loaded = receiver[r].loaded /\ rec.asset = receiver[r].asset
          /\ rec.cursor = receiver[r].cursor /\ rec.remaining = receiver[r].remaining
          /\ rec.first = receiver[r].first
    <3>1. receiver[r] \in ReceiverRecords
      BY DEF RadioInv, RadioTypes
    <3>2. CASE EnablePrefix(r, on)
      <4>1. [receiver[r] EXCEPT !.prefix = on] \in ReceiverRecords
        BY <3>1, Zenon DEF ReceiverRecords
      <4>2. receiver' = [receiver EXCEPT ![r] = [receiver[r] EXCEPT !.prefix = on]]
        BY <3>2 DEF EnablePrefix
      <4> QED
        BY <3>1, <4>1, <4>2 DEF ReceiverRecords
    <3>3. CASE EnableData(r, on)
      <4>1. [receiver[r] EXCEPT !.data = on] \in ReceiverRecords
        BY <3>1, Zenon DEF ReceiverRecords
      <4>2. receiver' = [receiver EXCEPT ![r] = [receiver[r] EXCEPT !.data = on]]
        BY <3>3 DEF EnableData
      <4> QED
        BY <3>1, <4>1, <4>2 DEF ReceiverRecords
    <3> QED
      BY <1>6, <3>2, <3>3
  <2>2. UNCHANGED <<assets, channel, read>>
    BY <1>6 DEF EnablePrefix, EnableData
  <2>3. receiver' \in [Receivers -> ReceiverRecords]
    BY <2>1 DEF RadioInv, RadioTypes
  <2>4. \A q \in Receivers : /\ receiver'[q].loaded = receiver[q].loaded
                             /\ receiver'[q].asset = receiver[q].asset
                             /\ receiver'[q].cursor = receiver[q].cursor
                             /\ receiver'[q].remaining = receiver[q].remaining
                             /\ receiver'[q].first = receiver[q].first
    BY <2>1 DEF RadioInv, RadioTypes
  <2> QED
    BY <2>2, <2>3, <2>4 DEF RadioInv, RadioTypes, StreamsCurrent, PacketCount
<1>7. ASSUME NEW k \in Keys, RemoveStream(k) PROVE RadioInv'
  <2> DEFINE stored == [j \in DOMAIN assets \ {k} |-> assets[j]]
  <2>1. stored \in [DOMAIN stored -> Nat] /\ DOMAIN stored \subseteq Keys
    BY DEF RadioInv, RadioTypes
  <2> QED
    BY <1>7, <2>1, AssetReplaced DEF RemoveStream
<1>8. ASSUME NEW k \in Keys, NEW length \in AssetLengths, LoadStream(k, length) PROVE RadioInv'
  <2> DEFINE stored == [j \in DOMAIN assets \cup {k} |-> IF j = k THEN length ELSE assets[j]]
  <2>1. stored \in [DOMAIN stored -> Nat] /\ DOMAIN stored \subseteq Keys
    BY BsRadioAssumption DEF RadioInv, RadioTypes
  <2> QED
    BY <1>8, <2>1, AssetReplaced DEF LoadStream
<1>9. CASE ClearStreams
  <2>1. RadioTypes'
    BY <1>9, DroppedIsIdle DEF ClearStreams, RadioInv, RadioTypes
  <2>2. ASSUME NEW q \in Receivers PROVE Current(q)'
    BY <1>9, DroppedIsIdle DEF ClearStreams, RadioInv, RadioTypes, Current
  <2> QED
    BY <2>1, <2>2 DEF RadioInv, StreamsCurrent, Current
<1>10. CASE UNCHANGED radioVars
  BY <1>10 DEF radioVars, RadioInv, RadioTypes, StreamsCurrent, PacketCount
<1> QED
  BY <1>1, <1>2, <1>3, <1>4, <1>5, <1>6, <1>7, <1>8, <1>9, <1>10 DEF RadioNext, Game

\* A receiver delivers the packets of an asset that is loaded, of the channel it is tuned
\* to, from the first to the last one, however the host replaces assets while they are
\* read (Bsx::LoadStream), for any number of receivers, channels and packets.
THEOREM StreamsStayCurrent == RadioSpec => []StreamsCurrent
<1>1. RadioInit => RadioInv
  <2> SUFFICES ASSUME RadioInit PROVE RadioInv
    OBVIOUS
  <2>1. 0 \in 0 .. Sequences - 1 /\ 0 \in Nat /\ 0 \in Int
    BY BsRadioAssumption
  <2>2. IdleReceiver \in ReceiverRecords
    BY <2>1, Zenon DEF IdleReceiver, ReceiverRecords
  <2>3. ~IdleReceiver.loaded
    BY DEF IdleReceiver
  <2> QED
    BY <2>2, <2>3 DEF RadioInit, RadioInv, RadioTypes, StreamsCurrent
<1> QED
  BY <1>1, RadioStep, PTL DEF RadioSpec, RadioInv

-----------------------------------------------------------------------------
(***************************************************************************)
(* The NMI of the SA-1.                                                    *)
(***************************************************************************)
Chip ==
  [flags : SUBSET Flags, enable : SUBSET Flags, serviced : BOOLEAN, length : Nat, left : Nat]

\* An NMI that would be taken has a cause.
CauseInv ==
  /\ chip \in Chip /\ cause \in BOOLEAN
  /\ NmiPending(chip) => cause

\* The flags of timer and transfers are not the NMI's.
LEMMA OwnFlag ==
  ASSUME NEW c \in Chip, NEW d \in Chip, NEW flag \in {"timer", "dma"},
         d.flags \in {c.flags, c.flags \cup {flag}}, d.enable = c.enable,
         d.serviced <=> c.serviced
  PROVE  NmiPending(d) <=> NmiPending(c)
<1>1. "nmi" \in d.flags <=> "nmi" \in c.flags
  OBVIOUS
<1> QED
  BY <1>1 DEF NmiPending

\* The timer adds its own flag and no NMI.
LEMMA ClockedKeeps ==
  ASSUME NEW c \in Chip, NEW d \in Clocked(c)
  PROVE  d \in Chip /\ (NmiPending(d) <=> NmiPending(c)) /\ d.enable = c.enable
<1>1. CASE d = c
  BY <1>1
<1>2. CASE d = [c EXCEPT !.flags = c.flags \cup {"timer"}]
  <2>1. c.flags \cup {"timer"} \in SUBSET Flags
    BY DEF Chip, Flags, Irqs
  <2>2. d \in Chip
    BY <1>2, <2>1, Zenon DEF Chip
  <2>3. d.flags = c.flags \cup {"timer"} /\ d.enable = c.enable /\ (d.serviced <=> c.serviced)
    BY <1>2 DEF Chip
  <2> QED
    BY <2>2, <2>3, OwnFlag
<1> QED
  BY <1>1, <1>2, Zenon DEF Clocked

\* So do a transfer's beginning
LEMMA StartedKeeps ==
  ASSUME NEW c \in Chip
  PROVE  Started(c) \in Chip /\ (NmiPending(Started(c)) <=> NmiPending(c))
<1> DEFINE flags == c.flags \cup (IF c.length = 0 THEN {"dma"} ELSE {})
           d == Started(c)
<1>1. flags \in SUBSET Flags /\ flags \in {c.flags, c.flags \cup {"dma"}}
  BY DEF Chip, Flags, Irqs
<1>2. d = [c EXCEPT !.left = c.length, !.flags = flags]
  BY DEF Started
<1> HIDE DEF flags, d
<1>3. d \in Chip /\ d.flags = flags /\ d.enable = c.enable /\ (d.serviced <=> c.serviced)
  BY <1>1, <1>2 DEF Chip
<1> QED
  BY <1>1, <1>3, OwnFlag DEF d

\* and each of its bytes.
LEMMA ByteDoneKeeps ==
  ASSUME NEW c \in Chip, c.left > 0
  PROVE  ByteDone(c) \in Chip /\ (NmiPending(ByteDone(c)) <=> NmiPending(c))
<1> DEFINE flags == c.flags \cup (IF c.left = 1 THEN {"dma"} ELSE {})
           left == c.left - 1
           d == ByteDone(c)
<1>1. flags \in SUBSET Flags /\ flags \in {c.flags, c.flags \cup {"dma"}} /\ left \in Nat
  BY DEF Chip, Flags, Irqs
<1>2. d = [c EXCEPT !.left = left, !.length = left, !.flags = flags]
  BY DEF ByteDone
<1> HIDE DEF flags, left, d
<1>3. d \in Chip /\ d.flags = flags /\ d.enable = c.enable /\ (d.serviced <=> c.serviced)
  BY <1>1, <1>2 DEF Chip
<1> QED
  BY <1>1, <1>3, OwnFlag DEF d

\* A register write of the SA-1 makes an NMI pending only when it enables it anew.
LEMMA WriteRises ==
  ASSUME NEW c \in Chip, NEW w \in Sa1Writes
  PROVE  Written(c, w) \in Chip /\ (NmiPending(Written(c, w)) => NmiPending(c) \/ Rises(c, w))
<1>1. CASE w \in EnableWrites
  <2>1. w.reg = "enable" /\ w.set \in SUBSET Flags
    BY <1>1, Sa1ProcessorAssumption DEF EnableWrites, Store
  <2> DEFINE serviced == c.serviced /\ ~Rearmed(c, w)
             d == Written(c, w)
  <2>2. serviced \in BOOLEAN
    OBVIOUS
  <2>3. d = [c EXCEPT !.enable = w.set, !.serviced = serviced]
    BY <2>1 DEF Written
  <2>4. Rises(c, w) => Rearmed(c, w)
    BY DEF Rearmed
  <2>5. Rearmed(c, w) => Rises(c, w)
    BY <2>1 DEF Rearmed
  <2>6. Rises(c, w) <=> "nmi" \in w.set /\ "nmi" \notin c.enable
    BY <2>1 DEF Rises
  <2> HIDE DEF serviced, d
  <2>7. d \in Chip /\ d.flags = c.flags /\ d.enable = w.set /\ (d.serviced <=> serviced)
    BY <2>1, <2>2, <2>3 DEF Chip
  <2>8. NmiPending(d) /\ ~Rises(c, w) => NmiPending(c)
    BY <2>5, <2>6, <2>7 DEF NmiPending, serviced
  <2> QED
    BY <2>7, <2>8 DEF d
<1>2. CASE w \in ClearWrites
  <2>1. w.reg = "clear"
    BY <1>2 DEF ClearWrites, Store
  <2> DEFINE serviced == c.serviced /\ ~Rearmed(c, w)
             flags == c.flags \ w.set
             d == Written(c, w)
  <2>2. serviced \in BOOLEAN /\ flags \in SUBSET Flags
    BY DEF Chip
  <2>3. d = [c EXCEPT !.flags = flags, !.serviced = serviced]
    BY <2>1 DEF Written
  <2>4. Rearmed(c, w) => "nmi" \in w.set
    BY DEF Rearmed, Rises
  <2> HIDE DEF serviced, d
  <2>5. d \in Chip /\ d.flags = flags /\ d.enable = c.enable /\ (d.serviced <=> serviced)
    BY <2>2, <2>3 DEF Chip
  <2>6. NmiPending(d) => NmiPending(c)
    BY <2>4, <2>5 DEF NmiPending, serviced
  <2> QED
    BY <2>5, <2>6 DEF d
<1>3. CASE w \in LengthWrites
  <2>1. w.reg = "length" /\ w.bytes \in Nat
    BY <1>3, Sa1ProcessorAssumption DEF LengthWrites, Store
  <2> DEFINE d == Written(c, w)
  <2>2. d = [c EXCEPT !.length = w.bytes]
    BY <2>1 DEF Written
  <2> HIDE DEF d
  <2>3. d \in Chip /\ d.flags = c.flags /\ d.enable = c.enable /\ (d.serviced <=> c.serviced)
    BY <2>1, <2>2 DEF Chip
  <2> QED
    BY <2>3 DEF NmiPending, d
<1>4. CASE w \in StartWrites
  <2>1. Written(c, w) = Started(c)
    BY <1>4 DEF StartWrites, Store, Written
  <2> QED
    BY <2>1, StartedKeeps
<1>5. CASE w = NoWrite
  <2>1. Written(c, w) = c
    BY <1>5 DEF NoWrite, Store, Written
  <2> QED
    BY <2>1
<1> QED
  BY <1>1, <1>2, <1>3, <1>4, <1>5 DEF Sa1Writes

LEMMA StoresWrite ==
  ASSUME NEW s \in Stores
  PROVE  s[1] \in Sa1Writes /\ s[2] \in Sa1Writes
BY DEF Stores, Pairs, Sa1Writes

LEMMA CauseStep == CauseInv /\ [Sa1Next]_sa1Vars => CauseInv'
<1> SUFFICES ASSUME CauseInv, [Sa1Next]_sa1Vars PROVE CauseInv'
  OBVIOUS
<1>1. ASSUME chip' \in Clocked(chip), UNCHANGED cause PROVE CauseInv'
  BY <1>1, ClockedKeeps DEF CauseInv
<1>2. CASE CpuWrites
  <2>1. ASSUME NEW bits \in SUBSET {"reset", "wait"}, NEW message \in BOOLEAN, NEW nmi \in BOOLEAN,
               WriteControl(bits, message, nmi)
        PROVE  CauseInv'
    <3> DEFINE released == "reset" \in control /\ "reset" \notin bits
               flagged == chip.flags \cup (IF message THEN {"message"} ELSE {})
                                    \cup (IF nmi THEN {"nmi"} ELSE {})
    <3>1. flagged \in SUBSET Flags
      BY DEF CauseInv, Chip, Flags, Irqs
    <3>2. chip' = [chip EXCEPT !.flags = flagged, !.serviced = chip.serviced /\ ~nmi /\ ~released]
          /\ cause' = (cause \/ nmi \/ released)
      BY <2>1 DEF WriteControl
    <3>3. chip' \in Chip /\ cause' \in BOOLEAN
      BY <3>1, <3>2, Zenon DEF CauseInv, Chip
    <3>4. chip'.flags = flagged /\ chip'.enable = chip.enable
          /\ (chip'.serviced <=> chip.serviced /\ ~nmi /\ ~released)
      BY <3>2, Zenon DEF CauseInv, Chip
    <3>5. ~nmi /\ ~released => (NmiPending(chip') => NmiPending(chip))
      BY <3>4 DEF NmiPending
    <3> QED
      BY <3>2, <3>3, <3>5, Zenon DEF CauseInv
  <2>2. CASE WriteDestinationEnd
    BY <2>2, StartedKeeps DEF WriteDestinationEnd, CauseInv
  <2> QED
    BY <1>2, <2>1, <2>2 DEF CpuWrites
<1>3. CASE TakeNmi
  <2>1. chip' \in Clocked([chip EXCEPT !.serviced = TRUE]) /\ cause' = FALSE
    BY <1>3 DEF TakeNmi
  <2>2. [chip EXCEPT !.serviced = TRUE] \in Chip /\ [chip EXCEPT !.serviced = TRUE].serviced = TRUE
    BY Zenon DEF CauseInv, Chip
  <2>3. ~NmiPending([chip EXCEPT !.serviced = TRUE])
    BY <2>2, Zenon DEF NmiPending
  <2> QED
    BY <2>1, <2>2, <2>3, ClockedKeeps DEF CauseInv
<1>4. CASE TakeIrq
  BY <1>1, <1>4 DEF TakeIrq
<1>5. CASE Wait
  BY <1>1, <1>5 DEF Wait
<1>6. ASSUME NEW kind, NEW early \in Sa1Writes, NEW late \in Sa1Writes, NEW i1, NEW i2,
             Execute(kind, early, late, i1, i2)
      PROVE  CauseInv'
  <2>1. PICK atSample \in Clocked(Written(chip, early)) :
          /\ \E atEnd \in Clocked(atSample) : chip' = Written(atEnd, late)
          /\ cause' = (cause \/ Rises(chip, early) \/ Rises(atSample, late))
    BY <1>6 DEF Execute
  <2>2. PICK atEnd \in Clocked(atSample) : chip' = Written(atEnd, late)
    BY <2>1
  <2>3. /\ Written(chip, early) \in Chip
        /\ NmiPending(Written(chip, early)) => cause \/ Rises(chip, early)
    BY WriteRises DEF CauseInv
  <2>4. atSample \in Chip /\ (NmiPending(atSample) => cause \/ Rises(chip, early))
    BY <2>1, <2>3, ClockedKeeps
  <2>5. /\ atEnd \in Chip /\ atEnd.enable = atSample.enable
        /\ NmiPending(atEnd) => cause \/ Rises(chip, early)
    BY <2>2, <2>4, ClockedKeeps
  <2>6. Rises(atEnd, late) <=> Rises(atSample, late)
    BY <2>5 DEF Rises
  <2>7. /\ chip' \in Chip
        /\ NmiPending(chip') => cause \/ Rises(chip, early) \/ Rises(atSample, late)
    BY <2>2, <2>5, <2>6, WriteRises
  <2>8. cause' \in BOOLEAN /\ (cause' <=> cause \/ Rises(chip, early) \/ Rises(atSample, late))
    BY <2>1, Zenon DEF CauseInv
  <2> QED
    BY <2>7, <2>8, Zenon DEF CauseInv
<1>7. CASE Instruction
  <2>1. NoWrite \in Sa1Writes
    BY DEF Sa1Writes
  <2>2. CASE \E s \in Stores : Execute("plain", s[1], s[2], cpu.masked, cpu.masked)
    BY <1>6, <2>2, StoresWrite
  <2>3. CASE \E i1, i2 \in BOOLEAN : Execute("plain", NoWrite, NoWrite, i1, i2)
    BY <1>6, <2>1, <2>3
  <2>4. ASSUME NEW kind, Plain(kind) PROVE CauseInv'
    BY <1>6, <2>1, <2>4 DEF Plain
  <2> QED
    BY <1>7, <2>2, <2>3, <2>4 DEF Instruction
<1>8. CASE Idle
  BY <1>1, <1>8 DEF Idle
<1>9. CASE TransferByte
  <2>1. PICK c \in Clocked(chip) : chip' = ByteDone(c)
    BY <1>9 DEF TransferByte
  <2>2. c.left = chip.left
    BY <2>1 DEF Clocked, CauseInv, Chip
  <2>3. c \in Chip /\ (NmiPending(c) <=> NmiPending(chip)) /\ c.left > 0
    BY <1>9, <2>1, <2>2, ClockedKeeps DEF TransferByte, Busy, CauseInv
  <2>4. chip' \in Chip /\ (NmiPending(chip') <=> NmiPending(chip))
    BY <2>1, <2>3, ByteDoneKeeps
  <2> QED
    BY <1>9, <2>4 DEF TransferByte, CauseInv
<1>10. CASE TransferSlice
  BY <1>1, <1>10 DEF TransferSlice
<1>11. CASE UNCHANGED sa1Vars
  BY <1>11 DEF sa1Vars, CauseInv
<1> QED
  BY <1>2, <1>3, <1>4, <1>5, <1>7, <1>8, <1>9, <1>10, <1>11 DEF Sa1Next, Step

\* The SA-1 takes an NMI only when the CPU has asked for one, the SA-1 has enabled it anew
\* or was reset since it took the last (Sa1::StepProcessor, nmiServiced_), whatever the
\* CPU, the SA-1's program, its timer and its transfers do.
THEOREM NmisHaveCauses == Sa1Spec => NmiOncePerCause
<1>1. Sa1Init => CauseInv
  <2> DEFINE c == [flags |-> {}, enable |-> {}, serviced |-> FALSE, length |-> 0, left |-> 0]
  <2>1. c \in Chip
    BY DEF Chip
  <2>2. ~NmiPending(c)
    BY DEF NmiPending
  <2> QED
    BY <2>1, <2>2 DEF Sa1Init, CauseInv
<1>2. CauseInv => HasCause
  BY DEF CauseInv, HasCause, TakeNmi
<1>3. CauseInv /\ [Sa1Next]_sa1Vars => [HasCause]_sa1Vars
  BY <1>2
<1> QED
  BY <1>1, <1>3, CauseStep, PTL DEF Sa1Spec, NmiOncePerCause

-----------------------------------------------------------------------------
(***************************************************************************)
(* The transfers of the SA-1.                                              *)
(***************************************************************************)
LEMMA RemainderHas ==
  ASSUME NEW m \in Nat \ {0}, NEW x \in Int
  PROVE  \E p \in Int, t \in 0 .. m - 1 : x = m * p + t /\ x % m = t
<1>1. x \div m \in Int
  OBVIOUS
<1>2. x % m \in 0 .. m - 1
  OBVIOUS
<1>3. x = m * (x \div m) + (x % m)
  OBVIOUS
<1> QED
  BY <1>1, <1>2, <1>3

\* A remainder is known by its multiple.
LEMMA RemainderIs ==
  ASSUME NEW m \in Nat \ {0}, NEW q \in Int, NEW r \in 0 .. m - 1
  PROVE  (m * q + r) % m = r
<1>1. PICK x \in Int : x = m * q + r
  OBVIOUS
<1>2. PICK p \in Int, t \in 0 .. m - 1 : x = m * p + t /\ x % m = t
  BY RemainderHas
<1>3. m * (q - p) = t - r
  BY <1>1, <1>2
<1>4. PICK d \in Int : d = q - p
  OBVIOUS
<1>5. m * d = t - r
  BY <1>3, <1>4
<1>6. (d >= 1 => m * d >= m) /\ (d <= -1 => m * d <= -m)
  OBVIOUS
<1>7. d = 0
  BY <1>5, <1>6
<1>8. t = r
  BY <1>5, <1>7
<1> QED
  BY <1>1, <1>2, <1>8

LEMMA RemainderStep ==
  ASSUME NEW m \in Nat \ {0}, NEW a \in Int, NEW d \in Int
  PROVE  ((a % m) + d) % m = (a + d) % m
<1>1. PICK p \in Int, t \in 0 .. m - 1 : a = m * p + t /\ a % m = t
  BY RemainderHas
<1>2. PICK q \in Int, u \in 0 .. m - 1 : t + d = m * q + u /\ (t + d) % m = u
  <2>1. t + d \in Int
    OBVIOUS
  <2> QED
    BY <2>1, RemainderHas
<1>3. a + d = m * (p + q) + u
  BY <1>1, <1>2
<1>4. PICK n \in Int : n = p + q
  OBVIOUS
<1>5. (m * n + u) % m = u
  BY RemainderIs
<1> QED
  BY <1>1, <1>2, <1>3, <1>4, <1>5

\* Two addresses that agree in a memory agree after the next byte.
LEMMA NextAddress ==
  ASSUME NEW m \in Nat \ {0}, NEW a \in Int, NEW b \in Int, a % m = b % m
  PROVE  ((a + 1) % m) % m = (b + 1) % m /\ (a + 1) % m \in Int
<1>1. 0 \in Int /\ 1 \in Int /\ a + 1 \in Int /\ (a + 1) + 0 = a + 1
  OBVIOUS
<1>2. (a + 1) % m = (b + 1) % m
  <2>1. ((a % m) + 1) % m = (a + 1) % m
    BY <1>1, RemainderStep, Zenon
  <2>2. ((b % m) + 1) % m = (b + 1) % m
    BY <1>1, RemainderStep, Zenon
  <2> QED
    BY <2>1, <2>2, Zenon
<1>3. (((a + 1) % m) + 0) % m = ((a + 1) + 0) % m
  BY <1>1, RemainderStep, Zenon
<1>4. (a + 1) % m \in Int
  OBVIOUS
<1>5. ((a + 1) % m) + 0 = (a + 1) % m
  BY <1>4
<1> QED
  BY <1>1, <1>2, <1>3, <1>4, <1>5, Zenon

TransferTypes ==
  /\ owed \in Int
  /\ registers \in [control : Controls, source : Int, destination : Int, length : Nat]
  /\ dma \in [active : BOOLEAN, from : Devices, toBwram : BOOLEAN, source : Int,
              destination : Int, remaining : Int, left : Int]
  /\ run \in [state : {"none", "moving", "done"}, source : Int, destination : Int,
              length : Nat, moved : Int, clocks : Int]

DmaInv == TransferTypes /\ DmaExact

\* A transfer of length 0 is over at once, another one starts with its first byte.
LEMMA DmaStarts ==
  ASSUME DmaInv, Defined(registers.control), NEW a \in Int,
         StartDma([registers EXCEPT !.destination = a]), owed' \in Int,
         registers' = [registers EXCEPT !.destination = a]
  PROVE  DmaInv'
<1> DEFINE p == [registers EXCEPT !.destination = a]
           c == registers.control
           T == [active : BOOLEAN, from : Devices, toBwram : BOOLEAN, source : Int,
                 destination : Int, remaining : Int, left : Int]
<1>1. /\ p \in [control : Controls, source : Int, destination : Int, length : Nat]
      /\ p.control = c /\ c \in Controls
  BY DEF DmaInv, TransferTypes
<1>2. c.from \in Devices /\ c.toBwram \in BOOLEAN
  BY <1>1 DEF Defined, Controls
<1>3. p.source \in Int /\ p.destination \in Int /\ p.length \in Nat
  BY <1>1
<1>4. Cost(c.from, c.toBwram) \in {2, 4}
  BY DEF Cost
<1>5. dma \in T
  BY DEF DmaInv, TransferTypes
<1> HIDE DEF p, c
<1>6. CASE p.length = 0
  <2> DEFINE d == [dma EXCEPT !.source = p.source, !.destination = p.destination,
                              !.remaining = p.length, !.active = FALSE]
  <2>1. (p.length # 0) = FALSE
    BY <1>6
  <2>2. dma' = d
    BY <2>1, Zenon DEF StartDma, p
  <2>3. run' = [state |-> "done", source |-> p.source, destination |-> p.destination,
                length |-> p.length, moved |-> 0, clocks |-> 0]
    BY <1>6 DEF StartDma, p
  <2>4. d \in T /\ ~d.active
    <3>1. p.length \in Int
      BY <1>3
    <3> QED
      BY <1>3, <1>5, <3>1, Zenon
  <2> HIDE DEF d
  <2>5. TransferTypes'
    BY <1>1, <1>3, <2>2, <2>3, <2>4 DEF DmaInv, TransferTypes, p
  <2> QED
    BY <1>6, <2>2, <2>3, <2>4, <2>5 DEF DmaInv, DmaExact
<1>7. CASE p.length # 0
  <2> DEFINE e == [dma EXCEPT !.source = p.source, !.destination = p.destination,
                              !.remaining = p.length, !.active = TRUE, !.from = c.from,
                              !.toBwram = c.toBwram, !.left = Cost(c.from, c.toBwram)]
  <2>1. (p.length # 0) = TRUE
    BY <1>7
  <2>2. dma' = e
    BY <1>1, <1>5, <2>1 DEF StartDma, p
  <2>3. run' = [state |-> "moving", source |-> p.source, destination |-> p.destination,
                length |-> p.length, moved |-> 0, clocks |-> 0]
    BY <1>7 DEF StartDma, p
  <2>4. e.from = c.from /\ e.toBwram = c.toBwram /\ e.left = Cost(c.from, c.toBwram)
        /\ e.source = p.source /\ e.destination = p.destination /\ e.remaining = p.length
        /\ e.active
    BY <1>5
  <2>5. e \in T
    <3>1. p.length \in Int /\ Cost(c.from, c.toBwram) \in Int
      BY <1>3, <1>4
    <3> QED
      BY <1>2, <1>3, <1>5, <3>1, Zenon
  <2> HIDE DEF e
  <2>6. TransferTypes'
    BY <1>1, <1>3, <2>2, <2>3, <2>5 DEF DmaInv, TransferTypes, p
  <2>7. /\ dma'.left = Cost(dma'.from, dma'.toBwram) /\ dma'.left \in {2, 4}
        /\ dma'.source = p.source /\ dma'.destination = p.destination /\ dma'.active
        /\ dma'.remaining = p.length
        /\ run'.state = "moving" /\ run'.source = p.source /\ run'.destination = p.destination
        /\ run'.length = p.length /\ run'.moved = 0 /\ run'.clocks = 0
    BY <1>4, <2>2, <2>3, <2>4
  <2>8. p.source + 0 = p.source /\ p.destination + 0 = p.destination
    BY <1>3
  <2> QED
    BY <1>3, <1>7, <2>6, <2>7, <2>8 DEF DmaInv, DmaExact
<1> QED
  BY <1>6, <1>7

\* A byte is moved: the addresses go on by one, the clocks by its cost.
LEMMA ByteMoved ==
  ASSUME DmaInv, dma.active, Move(dma.left), owed' \in Int PROVE DmaInv'
<1> DEFINE from == Size[dma.from]
           to == Size[Target(dma.toBwram)]
           source == (dma.source + 1) % from
           destination == (dma.destination + 1) % to
           T == [active : BOOLEAN, from : Devices, toBwram : BOOLEAN, source : Int,
                 destination : Int, remaining : Int, left : Int]
           R == [state : {"none", "moving", "done"}, source : Int, destination : Int,
                 length : Nat, moved : Int, clocks : Int]
<1>1. /\ dma \in T /\ run \in R
      /\ registers \in [control : Controls, source : Int, destination : Int, length : Nat]
  BY DEF DmaInv, TransferTypes
<1>2. from \in Nat \ {0} /\ to \in Nat \ {0}
  BY <1>1, Sa1DmaAssumption DEF Devices, Target
<1>3. /\ dma.from \in Devices /\ dma.toBwram \in BOOLEAN
      /\ dma.source \in Int /\ dma.destination \in Int /\ dma.remaining \in Int
      /\ dma.left \in Int /\ run.source \in Int /\ run.destination \in Int /\ run.moved \in Int
      /\ run.clocks \in Int /\ run.length \in Nat
  BY <1>1
<1>4. Cost(dma.from, dma.toBwram) \in {2, 4}
  BY DEF Cost
<1>5. /\ run.state = "moving" /\ run.moved + dma.remaining = run.length /\ dma.remaining > 0
      /\ run.clocks + dma.left = (run.moved + 1) * Cost(dma.from, dma.toBwram)
      /\ dma.source % from = (run.source + run.moved) % from
      /\ dma.destination % to = (run.destination + run.moved) % to
  BY DEF DmaInv, DmaExact
<1> HIDE DEF from, to
<1>6. /\ source % from = ((run.source + run.moved) + 1) % from /\ source \in Int
      /\ destination % to = ((run.destination + run.moved) + 1) % to /\ destination \in Int
  <2>1. run.source + run.moved \in Int /\ run.destination + run.moved \in Int
    BY <1>3
  <2> QED
    BY <1>2, <1>3, <1>5, <2>1, NextAddress, ZenonT(60)
<1>7. /\ (run.source + run.moved) + 1 = run.source + (run.moved + 1)
      /\ (run.destination + run.moved) + 1 = run.destination + (run.moved + 1)
      /\ run.moved + 1 \in Int /\ dma.remaining - 1 \in Int /\ dma.remaining - 1 \in Nat
      /\ run.clocks + dma.left \in Int
  BY <1>3, <1>5
<1> HIDE DEF source, destination
<1>8. registers' = [registers EXCEPT !.source = source, !.destination = destination,
                                     !.length = dma.remaining - 1]
  BY <1>1 DEF Move, from, to, source, destination
<1>9. registers' \in [control : Controls, source : Int, destination : Int, length : Nat]
  BY <1>1, <1>6, <1>7, <1>8, Zenon
<1>10. CASE dma.remaining - 1 = 0
  <2> DEFINE d == [dma EXCEPT !.source = source, !.destination = destination,
                              !.remaining = dma.remaining - 1, !.left = 0, !.active = FALSE]
             f == [run EXCEPT !.moved = run.moved + 1, !.clocks = run.clocks + dma.left,
                              !.state = "done"]
  <2>1. dma' = d /\ run' = f
    BY <1>1, <1>10 DEF Move, from, to, source, destination
  <2>2. d \in T /\ ~d.active /\ d.from = dma.from /\ d.toBwram = dma.toBwram
    <3>1. 0 \in Int
      OBVIOUS
    <3> QED
      BY <1>1, <1>6, <1>7, <3>1, Zenon
  <2>3. f \in R /\ f.state = "done" /\ f.moved = run.moved + 1 /\ f.length = run.length
        /\ f.clocks = run.clocks + dma.left
    BY <1>1, <1>7, Zenon
  <2> HIDE DEF d, f
  <2>4. f.moved = f.length
    BY <1>3, <1>5, <1>10, <2>3
  <2>5. f.clocks = f.length * Cost(d.from, d.toBwram)
    BY <1>5, <2>2, <2>3, <2>4
  <2>6. TransferTypes'
    BY <1>9, <2>1, <2>2, <2>3 DEF TransferTypes
  <2> QED
    BY <2>1, <2>2, <2>3, <2>4, <2>5, <2>6 DEF DmaInv, DmaExact
<1>11. CASE dma.remaining - 1 # 0
  <2> DEFINE cost == Cost(dma.from, dma.toBwram)
             d == [dma EXCEPT !.source = source, !.destination = destination,
                              !.remaining = dma.remaining - 1, !.left = cost]
             f == [run EXCEPT !.moved = run.moved + 1, !.clocks = run.clocks + dma.left]
  <2>1. dma' = d /\ run' = f
    BY <1>1, <1>11 DEF Move, NextByte, from, to, source, destination
  <2>2. /\ d \in T /\ d.active /\ d.from = dma.from /\ d.toBwram = dma.toBwram
        /\ d.left = cost /\ d.source = source /\ d.destination = destination
        /\ d.remaining = dma.remaining - 1
    <3>1. cost \in Int
      BY <1>4
    <3> QED
      BY <1>1, <1>6, <1>7, <3>1, Zenon
  <2>3. /\ f \in R /\ f.state = "moving" /\ f.moved = run.moved + 1 /\ f.length = run.length
        /\ f.clocks = run.clocks + dma.left /\ f.source = run.source
        /\ f.destination = run.destination
    BY <1>1, <1>5, <1>7, Zenon
  <2> HIDE DEF d, f
  <2>4. /\ d.remaining > 0 /\ f.moved + d.remaining = f.length
        /\ d.source % from = (f.source + f.moved) % from
        /\ d.destination % to = (f.destination + f.moved) % to
    BY <1>3, <1>5, <1>6, <1>7, <1>11, <2>2, <2>3
  <2>5. d.left \in 1 .. cost /\ f.clocks + d.left = (f.moved + 1) * cost
    BY <1>3, <1>4, <1>5, <2>2, <2>3
  <2>6. TransferTypes'
    BY <1>9, <2>1, <2>2, <2>3 DEF TransferTypes
  <2> QED
    BY <2>1, <2>2, <2>3, <2>4, <2>5, <2>6 DEF DmaInv, DmaExact, from, to
<1> QED
  BY <1>10, <1>11

\* A slice does not finish the byte.
LEMMA ByteSliced ==
  ASSUME DmaInv, dma.active, NEW clocks \in Int, clocks > 0, clocks < dma.left, Slice(clocks),
         owed' \in Int
  PROVE  DmaInv'
<1>1. dma.left \in Int /\ run.clocks \in Int /\ dma.left - clocks \in Int
      /\ run.clocks + clocks \in Int /\ Cost(dma.from, dma.toBwram) \in {2, 4}
  BY DEF DmaInv, TransferTypes, Cost
<1> DEFINE d == [dma EXCEPT !.left = dma.left - clocks]
           f == [run EXCEPT !.clocks = run.clocks + clocks]
<1>2. dma' = d /\ run' = f /\ UNCHANGED registers
  BY DEF Slice
<1>3. TransferTypes'
  BY <1>1, <1>2, Zenon DEF Slice, DmaInv, TransferTypes
<1>4. /\ d.active = dma.active /\ d.from = dma.from /\ d.toBwram = dma.toBwram
      /\ d.left = dma.left - clocks /\ d.source = dma.source /\ d.destination = dma.destination
      /\ d.remaining = dma.remaining
  BY DEF DmaInv, TransferTypes
<1>5. /\ f.state = run.state /\ f.moved = run.moved /\ f.length = run.length
      /\ f.clocks = run.clocks + clocks /\ f.source = run.source
      /\ f.destination = run.destination
  BY DEF DmaInv, TransferTypes
<1> HIDE DEF d, f
<1>6. d.left \in 1 .. Cost(d.from, d.toBwram)
  BY <1>1, <1>4 DEF DmaInv, DmaExact
<1>7. f.clocks + d.left = run.clocks + dma.left
  BY <1>1, <1>4, <1>5
<1> QED
  BY <1>2, <1>3, <1>4, <1>5, <1>6, <1>7 DEF DmaInv, DmaExact

\* A register write of either processor; only one that starts a transfer touches it.
LEMMA EitherKeeps ==
  ASSUME DmaInv, EitherWrites, owed' \in Int PROVE DmaInv'
<1>1. ASSUME NEW end \in BOOLEAN, WriteConversionControl(end) PROVE DmaInv'
  BY <1>1 DEF WriteConversionControl, DmaInv, TransferTypes, DmaExact
<1>2. \A a \in Addresses : a \in Int
  BY Sa1DmaAssumption DEF Addresses, Devices
<1>3. ASSUME NEW a \in Addresses, WriteSource(a) PROVE DmaInv'
  <2>1. registers' = [registers EXCEPT !.source = a] /\ UNCHANGED <<dma, run>> /\ a \in Int
    BY <1>2, <1>3 DEF WriteSource
  <2>2. TransferTypes'
    BY <2>1 DEF DmaInv, TransferTypes
  <2> QED
    BY <2>1, <2>2 DEF DmaInv, DmaExact
<1>4. ASSUME NEW a \in Addresses, NEW bank \in BOOLEAN, WriteDestination(a, bank) PROVE DmaInv'
  <2>1. registers' = [registers EXCEPT !.destination = a] /\ a \in Int
    BY <1>2, <1>4 DEF WriteDestination
  <2>2. [registers EXCEPT !.destination = a].control = registers.control
    BY DEF DmaInv, TransferTypes
  <2>3. CASE UNCHANGED <<dma, run>>
    <3>1. TransferTypes'
      BY <2>1, <2>3 DEF DmaInv, TransferTypes
    <3> QED
      BY <2>3, <3>1 DEF DmaInv, DmaExact
  <2>4. CASE StartDma([registers EXCEPT !.destination = a]) /\ Defined(registers.control)
    BY <2>1, <2>4, DmaStarts
  <2> QED
    BY <1>4, <2>2, <2>3, <2>4 DEF WriteDestination
<1> QED
  BY <1>1, <1>3, <1>4 DEF EitherWrites

LEMMA TransferStep == DmaInv /\ [TransferNext]_transferVars => DmaInv'
<1> SUFFICES ASSUME DmaInv, [TransferNext]_transferVars PROVE DmaInv'
  OBVIOUS
<1>1. owed \in Int
  BY DEF DmaInv, TransferTypes
<1>2. ASSUME owed' \in Int, UNCHANGED <<registers, dma, run>> PROVE DmaInv'
  BY <1>2 DEF DmaInv, TransferTypes, DmaExact
<1>3. CASE Advance
  BY <1>1, <1>2, <1>3, Sa1DmaAssumption DEF Advance
<1>4. CASE StepDma
  <2>1. dma.active /\ dma.left \in Int /\ dma.left > 0 /\ owed > 0
    BY <1>4 DEF StepDma, DmaInv, TransferTypes, DmaExact
  <2>2. PICK clocks \in Int :
          /\ clocks = Min(owed, dma.left) /\ clocks > 0 /\ clocks <= dma.left
          /\ owed' = owed - clocks
          /\ IF clocks < dma.left THEN Slice(clocks) ELSE Move(clocks)
    BY <1>1, <1>4, <2>1 DEF StepDma, Min
  <2>3. owed' \in Int
    BY <1>1, <2>2
  <2>4. CASE clocks < dma.left
    BY <2>1, <2>2, <2>3, <2>4, ByteSliced
  <2>5. CASE clocks = dma.left
    BY <2>1, <2>2, <2>3, <2>5, ByteMoved
  <2> QED
    BY <2>1, <2>2, <2>4, <2>5
<1>5. CASE Processor
  <2>1. owed' \in Int /\ ~dma.active
    BY <1>1, <1>5, Sa1DmaAssumption DEF Processor
  <2>2. ASSUME NEW c \in Settings, WriteDmaControl(c) PROVE DmaInv'
    <3>1. c \in Controls
      BY Sa1DmaAssumption
    <3>2. registers' = [registers EXCEPT !.control = c] /\ UNCHANGED run
      BY <2>2 DEF WriteDmaControl
    <3>3. dma' = dma
      <4>1. dma' = [dma EXCEPT !.active = dma.active /\ c.on] /\ dma.active = FALSE
        BY <2>1, <2>2 DEF WriteDmaControl, DmaInv, TransferTypes
      <4>2. (dma.active /\ c.on) = FALSE
        BY <4>1
      <4>3. dma' = [dma EXCEPT !.active = FALSE]
        BY <4>1, <4>2, Zenon
      <4> QED
        BY <4>1, <4>3 DEF DmaInv, TransferTypes
    <3>4. TransferTypes'
      BY <2>1, <3>1, <3>2, <3>3 DEF DmaInv, TransferTypes
    <3> QED
      BY <3>2, <3>3, <3>4 DEF DmaInv, DmaExact
  <2>3. ASSUME NEW n \in TransferLengths, WriteLength(n) PROVE DmaInv'
    <3>1. registers' = [registers EXCEPT !.length = n] /\ UNCHANGED <<dma, run>> /\ n \in Nat
      BY <2>3, Sa1DmaAssumption DEF WriteLength
    <3>2. TransferTypes'
      BY <2>1, <3>1 DEF DmaInv, TransferTypes
    <3> QED
      BY <3>1, <3>2 DEF DmaInv, DmaExact
  <2>4. CASE WriteRow
    BY <1>2, <2>1, <2>4 DEF WriteRow
  <2>5. CASE Acknowledge("dma")
    BY <1>2, <2>1, <2>5 DEF Acknowledge
  <2> QED
    BY <1>2, <1>5, <2>1, <2>2, <2>3, <2>4, <2>5, EitherKeeps DEF Processor
<1>6. CASE CpuDmaWrites
  <2>1. CASE Acknowledge("conversion")
    BY <1>1, <1>2, <1>6, <2>1 DEF Acknowledge, CpuDmaWrites
  <2> QED
    BY <1>1, <1>6, <2>1, EitherKeeps DEF CpuDmaWrites
<1>7. ASSUME NEW t \in Tiles, ReadConverted(t) PROVE DmaInv'
  BY <1>1, <1>2, <1>7 DEF ReadConverted
<1>8. CASE UNCHANGED transferVars
  BY <1>1, <1>2, <1>8 DEF transferVars
<1> QED
  BY <1>3, <1>4, <1>5, <1>6, <1>7, <1>8 DEF TransferNext

\* A transfer of the SA-1 (Sa1::StartDma, StepDma) moves one byte for each full cost of
\* the clocks it is given, between the addresses that follow its first ones, and ends with
\* its last byte, for memories and transfers of any length, any budgets, and either
\* processor writing the registers between two slices.
THEOREM TransfersExact == TransferSpec => []DmaExact
<1>1. TransferInit => DmaInv
  <2> SUFFICES ASSUME TransferInit PROVE DmaInv
    OBVIOUS
  <2>1. registers.control \in Controls
    BY DEF TransferInit, Controls, Devices
  <2>2. TransferTypes
    BY <2>1 DEF TransferInit, TransferTypes, Devices
  <2>3. DmaExact
    BY DEF TransferInit, DmaExact
  <2> QED
    BY <2>2, <2>3 DEF DmaInv
<1>2. DmaInv => DmaExact
  BY DEF DmaInv
<1> QED
  BY <1>1, <1>2, TransferStep, PTL DEF TransferSpec
-----------------------------------------------------------------------------
(***************************************************************************)
(* The timer of the SA-1.                                                  *)
(***************************************************************************)
\* The line and the dot of a position are its quotient and its remainder.
LEMMA DotOfLine ==
  ASSUME NEW w \in Nat \ {0}, NEW v \in Int, NEW d \in 0 .. w - 1
  PROVE  (w * v + d) % w = d /\ (w * v + d) \div w = v
<1>1. PICK x \in Int : x = w * v + d
  OBVIOUS
<1>2. x % w = d
  BY <1>1, RemainderIs
<1>3. x \div w \in Int /\ x = w * (x \div w) + (x % w)
  OBVIOUS
<1>4. PICK q \in Int : q = x \div w
  BY <1>3
<1>5. w * q = w * v
  <2>1. x = w * q + d
    BY <1>2, <1>3, <1>4
  <2>2. PICK a \in Int, b \in Int : a = w * q /\ b = w * v
    OBVIOUS
  <2> QED
    BY <1>1, <2>1, <2>2
<1>6. PICK e \in Int : e = q - v
  OBVIOUS
<1>7. w * e = 0
  BY <1>5, <1>6
<1>8. (e >= 1 => w * e >= w) /\ (e <= -1 => w * e <= 0 - w)
  OBVIOUS
<1>9. q = v
  BY <1>6, <1>7, <1>8
<1> QED
  BY <1>1, <1>2, <1>4, <1>9

LEMMA FrameDot ==
  ASSUME NEW w \in Nat \ {0}, NEW h \in Nat \ {0}, NEW x \in Int
  PROVE  (x % (w * h)) % w = x % w
<1>1. PICK m \in Nat \ {0} : m = w * h
  OBVIOUS
<1>2. PICK p \in Int, t \in 0 .. m - 1 : x = m * p + t /\ x % m = t
  BY RemainderHas
<1>3. PICK q \in Int, s \in 0 .. w - 1 : t = w * q + s /\ t % w = s
  <2>1. t \in Int
    OBVIOUS
  <2> QED
    BY <2>1, RemainderHas
<1>4. PICK n \in Int : n = h * p + q
  OBVIOUS
<1>5. x = w * n + s
  BY <1>1, <1>2, <1>3, <1>4
<1>6. (w * n + s) % w = s
  BY RemainderIs
<1> QED
  BY <1>1, <1>2, <1>3, <1>5, <1>6

LEMMA OneBack ==
  ASSUME NEW m \in Nat \ {0}, NEW x \in Int
  PROVE  (x - 1) % m = IF x % m = 0 THEN m - 1 ELSE (x % m) - 1
<1>1. PICK p \in Int, t \in 0 .. m - 1 : x = m * p + t /\ x % m = t
  BY RemainderHas
<1>2. CASE t = 0
  <2>1. PICK q \in Int : q = p - 1
    OBVIOUS
  <2>2. x - 1 = m * q + (m - 1)
    BY <1>1, <1>2, <2>1
  <2>3. m - 1 \in 0 .. m - 1
    OBVIOUS
  <2>4. (m * q + (m - 1)) % m = m - 1
    BY <2>3, RemainderIs
  <2> QED
    BY <1>1, <1>2, <2>2, <2>4
<1>3. CASE t # 0
  <2>1. x - 1 = m * p + (t - 1) /\ t - 1 \in 0 .. m - 1
    BY <1>1, <1>3
  <2>2. (m * p + (t - 1)) % m = t - 1
    BY <2>1, RemainderIs
  <2> QED
    BY <1>1, <1>3, <2>1, <2>2
<1> QED
  BY <1>2, <1>3

\* The dots to go until a period is at a target: never none.
ToGo(m, target, p) == LET d == (target + m - (p % m)) % m IN IF d = 0 THEN m ELSE d

LEMMA FirstHit ==
  ASSUME NEW m \in Nat \ {0}, NEW target \in 0 .. m - 1, NEW p \in Int, NEW n \in Nat
  PROVE  (\E k \in 1 .. n : (p + k) % m = target) <=> n >= ToGo(m, target, p)
<1>1. PICK q \in Int, t \in 0 .. m - 1 : p = m * q + t /\ p % m = t
  BY RemainderHas
<1>2. PICK g \in 1 .. m : g = IF target > t THEN target - t ELSE target + m - t
  OBVIOUS
<1>3. ToGo(m, target, p) = g
  <2>1. CASE target > t
    <3>1. target + m - t = m * 1 + (target - t) /\ target - t \in 0 .. m - 1 /\ 1 \in Int
      BY <2>1
    <3>2. (m * 1 + (target - t)) % m = target - t
      BY <3>1, RemainderIs
    <3> QED
      BY <1>1, <1>2, <2>1, <3>1, <3>2 DEF ToGo
  <2>2. CASE target = t
    <3>1. target + m - t = m * 1 + 0 /\ 0 \in 0 .. m - 1 /\ 1 \in Int
      BY <2>2
    <3>2. (m * 1 + 0) % m = 0
      BY <3>1, RemainderIs
    <3> QED
      BY <1>1, <1>2, <2>2, <3>1, <3>2 DEF ToGo
  <2>3. CASE target < t
    <3>1. target + m - t = m * 0 + (target + m - t) /\ target + m - t \in 0 .. m - 1 /\ 0 \in Int
      BY <2>3
    <3>2. (m * 0 + (target + m - t)) % m = target + m - t
      BY <3>1, RemainderIs
    <3> QED
      BY <1>1, <1>2, <2>3, <3>1, <3>2 DEF ToGo
  <2> QED
    BY <2>1, <2>2, <2>3
<1>4. ASSUME NEW k \in Int, k >= 1, k <= g PROVE (p + k) % m = target <=> k = g
  <2>1. CASE t + k < m
    <3>1. p + k = m * q + (t + k) /\ t + k \in 0 .. m - 1
      BY <1>1, <1>4, <2>1
    <3>2. (m * q + (t + k)) % m = t + k
      BY <3>1, RemainderIs
    <3> QED
      BY <1>2, <1>4, <2>1, <3>1, <3>2
  <2>2. CASE t + k >= m
    <3>1. PICK r \in Int : r = q + 1
      OBVIOUS
    <3>2. p + k = m * r + (t + k - m) /\ t + k - m \in 0 .. m - 1
      BY <1>1, <1>2, <1>4, <2>2, <3>1
    <3>3. (m * r + (t + k - m)) % m = t + k - m
      BY <3>2, RemainderIs
    <3> QED
      BY <1>2, <1>4, <2>2, <3>2, <3>3
  <2> QED
    BY <2>1, <2>2
<1>5. CASE n >= g
  <2>1. g \in Int /\ g >= 1 /\ g <= g /\ g \in 1 .. n
    BY <1>5
  <2>2. (p + g) % m = target
    BY <1>4, <2>1
  <2> QED
    BY <1>3, <1>5, <2>1, <2>2, Zenon
<1>6. CASE ~(n >= g)
  <2>1. ASSUME NEW k \in 1 .. n PROVE (p + k) % m # target
    <3>1. k \in Int /\ k >= 1 /\ k <= g /\ k # g
      BY <1>6
    <3> QED
      BY <1>4, <3>1
  <2> QED
    BY <1>3, <1>6, <2>1, Zenon
<1> QED
  BY <1>5, <1>6

\* The beam is on the raster of the timer's mode.
TimerInv ==
  /\ timer \in [h : BOOLEAN, v : BOOLEAN, mode : TimerModes, hTarget : Nat, vTarget : Nat]
  /\ timerMatch \in BOOLEAN /\ raised \in BOOLEAN
  /\ hClocks \in Nat /\ hClocks < LineWidth * Dot
  /\ vCounter \in 0 .. Height - 1

LEMMA Raster ==
  ASSUME TimerInv
  PROVE  /\ LineWidth \in Nat \ {0, 1} /\ Height \in Nat \ {0, 1}
         /\ timer.h \in BOOLEAN /\ timer.v \in BOOLEAN
         /\ timer.hTarget \in Nat /\ timer.vTarget \in Nat
         /\ hClocks \div Dot \in 0 .. LineWidth - 1 /\ vCounter \in 0 .. Height - 1
<1>1. timer \in [h : BOOLEAN, v : BOOLEAN, mode : TimerModes, hTarget : Nat, vTarget : Nat]
  BY DEF TimerInv
<1>2. timer.mode \in TimerModes
  BY <1>1
<1>3. Geometries[timer.mode] \in [width : Nat \ (0 .. 1), height : Nat \ (0 .. 1)]
  BY <1>2, Sa1TimerAssumption
<1>4. LineWidth \in Nat \ {0, 1} /\ Height \in Nat \ {0, 1}
  BY <1>3 DEF LineWidth, Height
<1>5. hClocks \div Dot \in 0 .. LineWidth - 1
  BY <1>4 DEF TimerInv, Dot
<1> QED
  BY <1>1, <1>4, <1>5 DEF TimerInv

\* The matching interval is entered where the position, in the period, is the target.
LEMMA EntryAt ==
  ASSUME TimerInv, NEW k \in Nat \ {0}
  PROVE  MatchesAfter(k) /\ ~MatchesAfter(k - 1)
           <=> Reachable /\ (Position + k) % Period = TargetDot
<1> DEFINE w == LineWidth
           h == Height
<1>1. /\ w \in Nat \ {0, 1} /\ h \in Nat \ {0, 1} /\ timer.h \in BOOLEAN /\ timer.v \in BOOLEAN
      /\ timer.hTarget \in Nat /\ timer.vTarget \in Nat
      /\ hClocks \div Dot \in 0 .. w - 1 /\ vCounter \in 0 .. h - 1
  BY Raster
<1>2. PICK ht \in Nat, vt \in Nat : ht = timer.hTarget /\ vt = timer.vTarget
  BY <1>1
<1>3. /\ MatchesAfter(k) <=> Matches(((Position + k) % (w * h)) % w, ((Position + k) % (w * h)) \div w)
      /\ MatchesAfter(k - 1) <=> Matches(((Position + (k - 1)) % (w * h)) % w,
                                         ((Position + (k - 1)) % (w * h)) \div w)
      /\ Reachable <=> /\ timer.h \/ timer.v
                       /\ (timer.h => ht < w) /\ (timer.v => vt < h)
      /\ Period = IF timer.v THEN w * h ELSE w
      /\ TargetDot = (IF timer.v THEN vt * w ELSE 0) + (IF timer.h THEN ht ELSE 0)
  <2>1. /\ MatchesAfter(k) <=> Matches(((Position + k) % (w * h)) % w, ((Position + k) % (w * h)) \div w)
        /\ MatchesAfter(k - 1) <=> Matches(((Position + (k - 1)) % (w * h)) % w,
                                           ((Position + (k - 1)) % (w * h)) \div w)
    BY Zenon DEF MatchesAfter
  <2>2. Reachable <=> /\ timer.h \/ timer.v
                      /\ (timer.h => ht < w) /\ (timer.v => vt < h)
    BY <1>2, Zenon DEF Reachable
  <2>3. /\ Period = IF timer.v THEN w * h ELSE w
        /\ TargetDot = (IF timer.v THEN vt * w ELSE 0) + (IF timer.h THEN ht ELSE 0)
    BY <1>2, Zenon DEF Period, TargetDot
  <2> QED
    BY <2>1, <2>2, <2>3, Zenon
<1>4. Position \in Int
  BY <1>1 DEF Position
<1> HIDE DEF w, h
<1>5. PICK q \in Int : q = Position + k /\ q - 1 = Position + (k - 1)
  BY <1>4
<1>6. PICK m \in Nat \ {0} : m = w * h
  BY <1>1
<1>7. PICK p \in 0 .. m - 1, before \in 0 .. m - 1 :
        p = q % m /\ before = (q - 1) % m /\ before = IF p = 0 THEN m - 1 ELSE p - 1
  <2>1. q % m \in 0 .. m - 1 /\ (q - 1) % m \in 0 .. m - 1
    OBVIOUS
  <2>2. (q - 1) % m = IF q % m = 0 THEN m - 1 ELSE (q % m) - 1
    BY OneBack
  <2> QED
    BY <2>1, <2>2
<1>8. PICK a \in 0 .. w - 1, y \in Nat : p = w * y + a /\ p % w = a /\ p \div w = y
  <2>1. w \in Nat \ {0} /\ p \in Int
    BY <1>1
  <2>2. PICK y \in Int, a \in 0 .. w - 1 : p = w * y + a /\ p % w = a
    BY <2>1, RemainderHas
  <2>3. p \div w = y
    BY <2>1, <2>2, DotOfLine
  <2>4. y >= 0
    <3>1. y <= -1 => w * y <= 0 - w
      BY <1>1
    <3> QED
      BY <1>1, <2>2, <3>1
  <2> QED
    BY <2>2, <2>3, <2>4
<1>9. y \in 0 .. h - 1
  <2>1. y >= h => w * y >= w * h
    BY <1>1
  <2>2. PICK c \in Int : c = w * y
    BY <1>1
  <2> QED
    BY <1>1, <1>6, <1>8, <2>1, <2>2
<1>10. /\ before % w = IF a = 0 THEN w - 1 ELSE a - 1
       /\ before \div w = IF a # 0 THEN y ELSE IF y = 0 THEN h - 1 ELSE y - 1
  <2>1. w \in Nat \ {0}
    BY <1>1
  <2>2. CASE a # 0
    <3>1. before = w * y + (a - 1) /\ a - 1 \in 0 .. w - 1
      <4>1. PICK c \in Nat : c = w * y
        BY <1>1
      <4> QED
        BY <1>1, <1>7, <1>8, <2>2, <4>1
    <3>2. (w * y + (a - 1)) % w = a - 1 /\ (w * y + (a - 1)) \div w = y
      BY <2>1, <3>1, DotOfLine
    <3> QED
      BY <2>2, <3>1, <3>2
  <2>3. CASE a = 0 /\ y # 0
    <3>1. PICK z \in Int : z = y - 1
      OBVIOUS
    <3>2. w * y = w * z + w
      BY <1>1, <3>1
    <3>3. before = w * z + (w - 1) /\ w - 1 \in 0 .. w - 1
      <4>1. PICK c \in Int : c = w * z
        BY <1>1
      <4>2. c >= 0
        BY <1>1, <2>3, <3>1, <4>1
      <4> QED
        BY <1>1, <1>7, <1>8, <2>3, <3>2, <4>1, <4>2
    <3>4. (w * z + (w - 1)) % w = w - 1 /\ (w * z + (w - 1)) \div w = z
      BY <2>1, <3>3, DotOfLine
    <3> QED
      BY <2>3, <3>1, <3>3, <3>4
  <2>4. CASE a = 0 /\ y = 0
    <3>1. PICK z \in Int : z = h - 1
      BY <1>1
    <3>2. w * h = w * z + w
      BY <1>1, <3>1
    <3>3. w * y = 0
      BY <1>1, <2>4
    <3>4. before = w * z + (w - 1) /\ w - 1 \in 0 .. w - 1
      <4>1. PICK c \in Int : c = w * z
        BY <1>1
      <4> QED
        BY <1>1, <1>6, <1>7, <1>8, <2>4, <3>2, <3>3, <4>1
    <3>5. (w * z + (w - 1)) % w = w - 1 /\ (w * z + (w - 1)) \div w = z
      BY <2>1, <3>4, DotOfLine
    <3> QED
      BY <2>4, <3>1, <3>4, <3>5
  <2> QED
    BY <2>2, <2>3, <2>4
<1>11. /\ MatchesAfter(k) <=> Matches(a, y)
       /\ MatchesAfter(k - 1) <=> Matches(IF a = 0 THEN w - 1 ELSE a - 1,
                                    IF a # 0 THEN y ELSE IF y = 0 THEN h - 1 ELSE y - 1)
  BY <1>3, <1>5, <1>6, <1>7, <1>8, <1>10
<1>12. CASE timer.v
  <2>1. (Position + k) % Period = p
    BY <1>3, <1>5, <1>6, <1>7, <1>12
  <2>2. vt < h => (p = vt * w + (IF timer.h THEN ht ELSE 0) /\ (timer.h => ht < w)
                     <=> y = vt /\ a = (IF timer.h THEN ht ELSE 0))
    <3>1. ASSUME NEW d \in 0 .. w - 1, p = vt * w + d PROVE y = vt /\ a = d
      <4>1. w \in Nat \ {0} /\ vt \in Int /\ vt * w = w * vt
        BY <1>1
      <4>2. (w * vt + d) % w = d /\ (w * vt + d) \div w = vt
        BY <4>1, DotOfLine
      <4> QED
        BY <1>8, <3>1, <4>1, <4>2
    <3>2. y = vt => p = vt * w + a
      BY <1>1, <1>8
    <3>3. PICK d \in Nat : d = IF timer.h THEN ht ELSE 0
      OBVIOUS
    <3>4. (timer.h => ht < w) <=> d \in 0 .. w - 1
      BY <1>1, <3>3
    <3> QED
      BY <1>1, <3>1, <3>2, <3>3, <3>4
  <2>3. TargetDot = vt * w + (IF timer.h THEN ht ELSE 0)
    BY <1>3, <1>12, Zenon
  <2>4. Reachable <=> vt < h /\ (timer.h => ht < w)
    BY <1>3, <1>12, Zenon
  <2>5. MatchesAfter(k) <=> y = vt /\ (timer.h => a = ht)
    BY <1>2, <1>11, <1>12 DEF Matches
  <2>6. a = (IF timer.h THEN ht ELSE 0) /\ y = vt => ~MatchesAfter(k - 1)
    BY <1>1, <1>2, <1>9, <1>11, <1>12 DEF Matches
  <2>7. ~timer.h /\ a # 0 /\ y = vt => MatchesAfter(k - 1)
    BY <1>1, <1>2, <1>9, <1>11, <1>12 DEF Matches
  <2>8. y = vt => vt < h
    BY <1>1, <1>9
  <2> QED
    BY <2>1, <2>2, <2>3, <2>4, <2>5, <2>6, <2>7, <2>8, Zenon
<1>13. CASE ~timer.v
  <2>1. (Position + k) % Period = a
    <3>1. p % w = q % w
      BY <1>1, <1>6, <1>7, FrameDot
    <3> QED
      BY <1>3, <1>5, <1>8, <1>13, <3>1
  <2> QED
    BY <1>1, <1>2, <1>3, <1>11, <1>13, <2>1 DEF Matches
<1> QED
  BY <1>12, <1>13

\* A call raises the timer's flag exactly when an entry is among its dots.
LEMMA RaisedOnEntry == TimerInv => OnEntry
<1> SUFFICES ASSUME TimerInv, NEW n \in Batches, ~raised, AdvanceTimer(n)
             PROVE  raised' <=> \/ ~timerMatch /\ MatchesAfter(0)
                                \/ \E k \in 1 .. Dots(n) : MatchesAfter(k) /\ ~MatchesAfter(k - 1)
  BY DEF OnEntry
<1>1. raised' <=> \/ ~timerMatch /\ Matches(hClocks \div Dot, vCounter)
                  \/ Reachable /\ Dots(n) >= Distance
  BY Zenon DEF AdvanceTimer
<1>2. n \in Nat /\ hClocks \in Nat /\ Dots(n) \in Nat
  BY Sa1TimerAssumption DEF TimerInv, Dots, Dot
<1>3. /\ LineWidth \in Nat \ {0, 1} /\ Height \in Nat \ {0, 1}
      /\ timer.h \in BOOLEAN /\ timer.v \in BOOLEAN
      /\ timer.hTarget \in Nat /\ timer.vTarget \in Nat
      /\ hClocks \div Dot \in 0 .. LineWidth - 1 /\ vCounter \in 0 .. Height - 1
  BY Raster
<1>4. PICK w \in Nat \ {0}, h \in Nat \ {0}, m \in Nat \ {0} :
        w = LineWidth /\ h = Height /\ m = w * h
  BY <1>3
<1>5. PICK d \in 0 .. w - 1 : d = hClocks \div Dot
  BY <1>3, <1>4
<1>6. Position = w * vCounter + d
  BY <1>3, <1>4, <1>5 DEF Position
<1>7. MatchesAfter(0) <=> Matches(hClocks \div Dot, vCounter)
  <2>1. PICK p \in Nat : p = w * vCounter + d
    BY <1>3
  <2>2. p \in 0 .. m - 1
    <3>1. w * vCounter <= w * (h - 1) /\ w * (h - 1) = w * h - w
      BY <1>3, <1>4
    <3>2. PICK b \in Int, c \in Int : b = w * vCounter /\ c = w * (h - 1)
      BY <1>3
    <3> QED
      BY <1>4, <2>1, <3>1, <3>2
  <2>3. (m * 0 + p) % m = p /\ m * 0 + p = p + 0
    <3>1. 0 \in Int
      OBVIOUS
    <3>2. (m * 0 + p) % m = p
      BY <2>2, <3>1, RemainderIs
    <3> QED
      BY <3>2
  <2>4. (w * vCounter + d) % w = d /\ (w * vCounter + d) \div w = vCounter
    <3>1. vCounter \in Int
      BY <1>3
    <3> QED
      BY <3>1, DotOfLine
  <2> QED
    BY <1>4, <1>5, <1>6, <2>1, <2>3, <2>4 DEF MatchesAfter
<1>8. CASE Reachable
  <2>1. Period \in Nat \ {0} /\ TargetDot \in 0 .. Period - 1
    <3>1. CASE timer.v
      <4>1. PICK vt \in 0 .. h - 1, t \in 0 .. w - 1 :
              vt = timer.vTarget /\ t = IF timer.h THEN timer.hTarget ELSE 0
        BY <1>3, <1>4, <1>8, <3>1 DEF Reachable
      <4>2. w * vt <= w * (h - 1) /\ w * (h - 1) = w * h - w /\ w * vt >= 0 /\ vt * w = w * vt
        BY <4>1
      <4>3. PICK b \in Int, c \in Int : b = w * vt /\ c = w * (h - 1)
        OBVIOUS
      <4>4. Period = m /\ TargetDot = w * vt + t
        BY <1>4, <3>1, <4>1, <4>2 DEF Period, TargetDot
      <4> QED
        BY <1>4, <4>2, <4>3, <4>4
    <3>2. CASE ~timer.v
      BY <1>3, <1>4, <1>8, <3>2 DEF Reachable, Period, TargetDot
    <3> QED
      BY <3>1, <3>2
  <2>2. Position \in Int
    BY <1>3, <1>6
  <2>3. Distance = ToGo(Period, TargetDot, Position)
    BY DEF Distance, ToGo
  <2>4. (\E k \in 1 .. Dots(n) : (Position + k) % Period = TargetDot) <=> Dots(n) >= Distance
    BY <1>2, <2>1, <2>2, <2>3, FirstHit
  <2>5. ASSUME NEW k \in 1 .. Dots(n)
        PROVE  MatchesAfter(k) /\ ~MatchesAfter(k - 1) <=> (Position + k) % Period = TargetDot
    <3>1. k \in Nat \ {0}
      BY <1>2
    <3> QED
      BY <1>8, <3>1, EntryAt
  <2> QED
    BY <1>1, <1>7, <1>8, <2>4, <2>5, Zenon
<1>9. CASE ~Reachable
  <2>1. ASSUME NEW k \in 1 .. Dots(n) PROVE ~(MatchesAfter(k) /\ ~MatchesAfter(k - 1))
    <3>1. k \in Nat \ {0}
      BY <1>2
    <3> QED
      BY <1>9, <3>1, EntryAt
  <2> QED
    BY <1>1, <1>7, <1>9, <2>1, Zenon
<1> QED
  BY <1>8, <1>9

LEMMA TimerStep == TimerInv /\ [TimerNext]_timerVars => TimerInv'
<1> SUFFICES ASSUME TimerInv, [TimerNext]_timerVars PROVE TimerInv'
  OBVIOUS
<1> DEFINE TimerSettings == [h : BOOLEAN, v : BOOLEAN, mode : TimerModes, hTarget : Nat, vTarget : Nat]
<1>1. CASE ClockTimer
  <2>1. PICK n \in Batches : AdvanceTimer(n)
    BY <1>1 DEF ClockTimer
  <2>2. /\ LineWidth \in Nat \ {0, 1} /\ Height \in Nat \ {0, 1} /\ n \in Nat /\ hClocks \in Nat
        /\ hClocks \div Dot \in 0 .. LineWidth - 1 /\ vCounter \in 0 .. Height - 1
        /\ Dots(n) \in Nat
    BY Raster, Sa1TimerAssumption DEF TimerInv, Dots, Dot
  <2>3. PICK w \in Nat \ {0}, h \in Nat \ {0}, m \in Nat \ {0} :
          w = LineWidth /\ h = Height /\ m = w * h
    BY <2>2
  <2>4. Position + Dots(n) \in Int
    BY <2>2 DEF Position
  <2>5. PICK next \in 0 .. m - 1 : next = (Position + Dots(n)) % (LineWidth * Height)
    BY <2>3, <2>4
  <2>6. /\ vCounter' = next \div w /\ hClocks' = (next % w) * Dot + ((hClocks + n) % Dot)
        /\ timer' = timer
    BY <2>1, <2>3, <2>5 DEF AdvanceTimer
  <2>7. next \div w \in Int /\ next % w \in 0 .. w - 1 /\ next = w * (next \div w) + (next % w)
    OBVIOUS
  <2>8. next \div w \in 0 .. h - 1
    <3>1. PICK y \in Int, a \in 0 .. w - 1 : y = next \div w /\ next = w * y + a
      BY <2>7
    <3>2. (y >= h => w * y >= w * h) /\ (y <= -1 => w * y <= 0 - w)
      OBVIOUS
    <3>3. PICK c \in Int : c = w * y
      OBVIOUS
    <3> QED
      BY <2>3, <3>1, <3>2, <3>3
  <2>9. hClocks' \in Nat /\ hClocks' < w * Dot
    <3>1. PICK a \in 0 .. w - 1 : a = next % w
      BY <2>7
    <3>2. (hClocks + n) % Dot \in 0 .. Dot - 1
      BY <2>2 DEF Dot
    <3> QED
      BY <2>6, <3>1, <3>2 DEF Dot
  <2>10. raised' \in BOOLEAN /\ timerMatch' \in BOOLEAN
    <3>1. \A x, y : Matches(x, y) \in BOOLEAN
      BY DEF Matches
    <3> QED
      BY <2>1, <3>1 DEF AdvanceTimer, TimerInv
  <2> QED
    BY <2>3, <2>6, <2>8, <2>9, <2>10 DEF TimerInv, LineWidth, Height
<1>2. ASSUME NEW h \in BOOLEAN, NEW v \in BOOLEAN, NEW mode \in TimerModes,
             WriteTimerControl(h, v, mode)
      PROVE  TimerInv'
  <2>1. Geometries[mode] \in [width : Nat \ (0 .. 1), height : Nat \ (0 .. 1)]
    BY Sa1TimerAssumption
  <2>2. PICK x \in Nat \ {0}, y \in Nat \ {0} : x = Geometries[mode].width /\ y = Geometries[mode].height
    BY <2>1
  <2>3. timer' \in TimerSettings /\ timer'.mode = mode
    BY <1>2 DEF WriteTimerControl, TimerInv
  <2>4. LineWidth' = x /\ Height' = y
    BY <2>2, <2>3 DEF LineWidth, Height
  <2>5. hClocks' = hClocks % (x * Dot) /\ vCounter' = vCounter % y
        /\ timerMatch' = FALSE /\ raised' = raised
    BY <1>2, <2>2 DEF WriteTimerControl
  <2>6. hClocks \in Nat /\ vCounter \in Int
    BY Raster DEF TimerInv
  <2>7. hClocks' \in Nat /\ hClocks' < x * Dot
    <3>1. PICK z \in Nat \ {0} : z = x * Dot
      BY DEF Dot
    <3> QED
      BY <2>5, <2>6, <3>1
  <2>8. vCounter' \in 0 .. y - 1
    BY <2>5, <2>6
  <2> QED
    BY <2>3, <2>4, <2>5, <2>7, <2>8 DEF TimerInv
<1>3. CASE Restart
  <2>1. LineWidth' = LineWidth /\ Height' = Height /\ timer' = timer /\ raised' = raised
    BY <1>3 DEF Restart, LineWidth, Height
  <2>2. hClocks' = 0 /\ vCounter' = 0 /\ timerMatch' = FALSE
    BY <1>3 DEF Restart
  <2>3. 0 < LineWidth * Dot /\ 0 \in 0 .. Height - 1
    BY Raster DEF Dot
  <2> QED
    BY <2>1, <2>2, <2>3 DEF TimerInv
<1>4. ASSUME NEW h \in HTargets, NEW v \in VTargets, WriteTarget(h, v) PROVE TimerInv'
  <2>1. h \in Nat /\ v \in Nat
    BY Sa1TimerAssumption
  <2>2. timer' \in TimerSettings /\ timer'.mode = timer.mode
    BY <1>4, <2>1 DEF WriteTarget, TimerInv
  <2> QED
    BY <1>4, <2>2 DEF WriteTarget, TimerInv, LineWidth, Height
<1>5. CASE AcknowledgeTimer
  BY <1>5 DEF AcknowledgeTimer, TimerInv, LineWidth, Height
<1>6. CASE UNCHANGED timerVars
  BY <1>6 DEF timerVars, TimerInv, LineWidth, Height
<1> QED
  BY <1>1, <1>2, <1>3, <1>4, <1>5, <1>6 DEF TimerNext

\* The timer's closed form (Sa1::AdvanceTimer) raises the flag exactly when a comparator
\* clocked dot by dot would: for a raster of any size of at least two dots and lines, any
\* batch and targets, targets outside the raster included.
THEOREM TimerMatchesDots == TimerSpec => TimerOnEntry
<1>1. TimerInit => TimerInv
  <2> SUFFICES ASSUME TimerInit PROVE TimerInv
    OBVIOUS
  <2>1. Geometries["video"] \in [width : Nat \ (0 .. 1), height : Nat \ (0 .. 1)]
    BY Sa1TimerAssumption DEF TimerModes
  <2>2. LineWidth \in Nat \ (0 .. 1) /\ Height \in Nat \ (0 .. 1)
    BY <2>1 DEF TimerInit, LineWidth, Height
  <2>3. 0 < LineWidth * Dot /\ 0 \in 0 .. Height - 1
    BY <2>2 DEF Dot
  <2>4. timer \in [h : BOOLEAN, v : BOOLEAN, mode : TimerModes, hTarget : Nat, vTarget : Nat]
    BY DEF TimerInit, TimerModes
  <2> QED
    BY <2>3, <2>4 DEF TimerInit, TimerInv
<1>2. TimerInv /\ [TimerNext]_timerVars => [OnEntry]_timerVars
  BY RaisedOnEntry
<1> QED
  BY <1>1, <1>2, TimerStep, PTL DEF TimerSpec, TimerOnEntry
------------------------------------------------------------------------------
(* The MSU-1. *)

\* Every set of numbers that has a member has a least one: what the inductions over the
\* passes of a loop rest on.
LEMMA Smallest ==
  ASSUME NEW T, T \subseteq Nat, T # {}
  PROVE  \E n \in T : \A m \in T : n <= m
<1> DEFINE R == {ss \in Nat \X Nat : ss[1] < ss[2]}
<1>1. IsWellFoundedOn(R, Nat)
  BY NatLessThanWellFounded, Zenon DEF OpToRel
<1>2. PICK n \in T : \A m \in T : ~ (<<m, n>> \in R)
  <2> HIDE DEF R
  <2> QED
    BY <1>1, WFMin
<1>3. ASSUME NEW m \in T, ~(n <= m) PROVE FALSE
  <2>1. m < n /\ <<m, n>> \in Nat \X Nat /\ <<m, n>>[1] = m /\ <<m, n>>[2] = n
    BY <1>3
  <2>2. <<m, n>> \in R
    BY <2>1, Zenon
  <2> QED
    BY <1>2, <2>2
<1> QED
  BY <1>3

\* Passes is the function its definition describes.
LEMMA PassesDefined ==
  Passes = [n \in 0 .. SampleRate |->
              IF n = 0 THEN Now
              ELSE LET s == Passes[n - 1] IN IF s.end \/ s.remaining = 0 THEN s ELSE Pass(s)]
<1> DEFINE After(s) == IF s.end \/ s.remaining = 0 THEN s ELSE Pass(s)
           Def(g, m) == [n \in 0 .. m |-> IF n = 0 THEN Now ELSE After(g[n - 1])]
<1>1. \A m \in 0 .. SampleRate : \E g : g = Def(g, m)
  <2> SUFFICES ASSUME NEW bad \in 0 .. SampleRate, ~ \E g : g = Def(g, bad) PROVE FALSE
    OBVIOUS
  <2> DEFINE T == {m \in Nat : ~ \E g : g = Def(g, m)}
  <2>1. PICK m \in T : \A other \in T : m <= other
    <3> HIDE DEF Def
    <3>1. T \subseteq Nat /\ T # {}
      BY Msu1Assumption
    <3> QED
      BY <3>1, Smallest
  <2> HIDE DEF After
  <2>2. m # 0
    <3>1. [n \in 0 .. 0 |-> Now] = Def([n \in 0 .. 0 |-> Now], 0)
      OBVIOUS
    <3> QED
      BY <3>1
  <2>3. PICK g : g = Def(g, m - 1)
    <3> HIDE DEF Def
    <3> QED
      BY <2>1, <2>2
  <2> DEFINE h == [n \in 0 .. m |-> IF n = m THEN After(g[m - 1]) ELSE g[n]]
  <2>4. h = Def(h, m)
    BY <2>2, <2>3
  <2> QED
    BY <2>1, <2>4
<1>2. \E g : g = Def(g, SampleRate)
  <2>1. SampleRate \in 0 .. SampleRate
    BY Msu1Assumption
  <2> HIDE DEF Def
  <2> QED
    BY <1>1, <2>1
<1> QED
  BY <1>2 DEF Passes

PlaceOf(s) == s.next * OutputRate - s.left

LoopStart == loop * OutputRate
TrackEnd == frames * OutputRate

Streams ==
  [next : Nat, left : 0 .. OutputRate, cache : [offset : Nat, size : Int],
   remaining : 0 .. SampleRate, end : BOOLEAN, good : BOOLEAN]

MsuTypes ==
  /\ open \in BOOLEAN /\ repeating \in BOOLEAN /\ track \in Nat /\ frames \in Nat /\ loop \in Nat
  /\ nextFrame \in Nat /\ ticksLeft \in 0 .. OutputRate
  /\ cache \in [offset : Nat, size : Int]
  /\ resume \in [valid : BOOLEAN, track : Nat, nextFrame : Nat, ticksLeft : 0 .. OutputRate]
  /\ place \in Int /\ savedPlace \in Int

TrackOpen ==
  open => track \in Tracks /\ frames = Frames[track] /\ loop < frames /\ nextFrame <= frames

\* The resume point is a place in a track, and the place the listener was at.
ResumeHeld ==
  resume.valid => /\ resume.track \in Tracks /\ resume.nextFrame <= Frames[resume.track]
                  /\ savedPlace = resume.nextFrame * OutputRate - resume.ticksLeft

MsuInv == MsuTypes /\ TrackOpen /\ ResumeHeld /\ PlaybackExact

\* After n passes, the part of the sample that is covered has brought the listener from its
\* place to the stream's, through the loop k times; a pass covers something, unless the
\* track ended in it.
PassInv(n, s) ==
  /\ s \in Streams /\ s.good /\ s.next <= frames
  /\ s.end => /\ s.next = 0 /\ s.left = 0 /\ s.remaining > 0 /\ ~repeating
              /\ place + (SampleRate - s.remaining) = TrackEnd
  /\ ~s.end => /\ s.remaining = 0 \/ s.remaining + n <= SampleRate
               /\ \E k \in Nat :
                    /\ k > 0 => repeating /\ LoopStart < PlaceOf(s)
                    /\ place + (SampleRate - s.remaining) = PlaceOf(s) + k * (TrackEnd - LoopStart)

\* A frame is read from the file, or from the cache that holds it.
LEMMA FrameReads ==
  ASSUME MsuInv, open, NEW n \in Nat, NEW s, PassInv(n, s), ~s.end, s.remaining > 0
  PROVE  LET t == Frame(s)
         IN  /\ t \in Streams /\ t.good /\ t.remaining = s.remaining /\ t.next <= frames
             /\ t.end => /\ t.next = 0 /\ t.left = 0 /\ ~repeating
                         /\ place + (SampleRate - t.remaining) = TrackEnd
             /\ ~t.end => /\ t.left > 0
                          /\ \E k \in Nat :
                               /\ k > 0 => repeating /\ LoopStart <= PlaceOf(t)
                               /\ place + (SampleRate - t.remaining) = PlaceOf(t) + k * (TrackEnd - LoopStart)
<1>1. PICK k \in Nat : /\ k > 0 => repeating /\ LoopStart < PlaceOf(s)
                       /\ place + (SampleRate - s.remaining) = PlaceOf(s) + k * (TrackEnd - LoopStart)
  BY DEF PassInv
<1>2. s \in Streams /\ s.good /\ s.next <= frames
  BY DEF PassInv
<1>3. SampleRate \in Nat \ {0} /\ OutputRate \in Nat \ {0}
  BY Msu1Assumption
<1>4. frames \in Nat /\ loop \in Nat /\ loop < frames /\ place \in Int /\ repeating \in BOOLEAN
  BY DEF MsuInv, MsuTypes, TrackOpen
<1>5. CASE s.left > 0
  <2>1. Frame(s) = s
    BY <1>5 DEF Frame
  <2>2. k > 0 => LoopStart <= PlaceOf(s)
    BY <1>1, <1>2, <1>3, <1>4 DEF LoopStart, PlaceOf, Streams
  <2> QED
    BY <1>1, <1>2, <1>5, <2>1, <2>2
<1>6. CASE ~(s.left > 0) /\ s.next >= frames /\ ~repeating
  <2>1. s.left = 0 /\ s.next = frames /\ k = 0
    BY <1>1, <1>2, <1>3, <1>4, <1>6 DEF Streams
  <2>2. Frame(s) = [s EXCEPT !.end = TRUE, !.next = 0]
    BY <1>6 DEF Frame
  <2>3. place + (SampleRate - s.remaining) = TrackEnd
    BY <1>1, <1>2, <1>3, <1>4, <2>1 DEF PlaceOf, TrackEnd, LoopStart, Streams
  <2>4. Frame(s) \in Streams /\ Frame(s).end /\ Frame(s).next = 0 /\ Frame(s).left = 0
        /\ Frame(s).good /\ Frame(s).remaining = s.remaining
    BY <1>2, <2>1, <2>2 DEF Streams
  <2> QED
    BY <1>4, <1>6, <2>3, <2>4
<1>7. CASE ~(s.left > 0) /\ ~(s.next >= frames /\ ~repeating)
  <2>1. PICK frame : frame = IF s.next >= frames THEN loop ELSE s.next
    OBVIOUS
  <2>2. frame \in Nat /\ frame < frames
    BY <1>2, <1>4, <2>1 DEF Streams
  <2>3. PICK held : held = IF Cached(s.cache, Header + frame, 1) THEN s.cache
                           ELSE Fill(Header + frame, FileUnits)
    OBVIOUS
  <2>4. held \in [offset : Nat, size : Int] /\ Holds(held, Header + frame, 1)
    <3>1. CASE Cached(s.cache, Header + frame, 1)
      BY <1>2, <2>2, <2>3, <3>1 DEF Cached, Holds, Header, Streams
    <3>2. CASE ~Cached(s.cache, Header + frame, 1)
      <4>1. held = [offset |-> Header + frame, size |-> Smaller(CacheUnits, FileUnits - (Header + frame))]
        BY <2>3, <3>2 DEF Fill
      <4>2. Smaller(CacheUnits, FileUnits - (Header + frame)) \in Nat \ {0}
        BY <1>4, <2>2, Msu1Assumption DEF Smaller, FileUnits, Header
      <4> QED
        BY <2>2, <4>1, <4>2 DEF Holds, Header
    <3> QED
      BY <3>1, <3>2
  <2>5. Frame(s) = [s EXCEPT !.next = frame + 1, !.left = OutputRate, !.cache = held,
                             !.good = @ /\ Holds(held, Header + frame, 1)]
    BY <1>7, <2>1, <2>3 DEF Frame
  <2>6. /\ Frame(s) \in Streams /\ Frame(s).good /\ Frame(s).remaining = s.remaining /\ ~Frame(s).end
        /\ Frame(s).next = frame + 1 /\ Frame(s).left = OutputRate
    <3>1. frame + 1 \in Nat /\ OutputRate \in 0 .. OutputRate
      BY <1>3, <2>2
    <3>2. s \in Streams /\ s.good
      BY <1>2
    <3>3. PICK f \in Nat, o \in 0 .. OutputRate : f = frame + 1 /\ o = OutputRate
      BY <3>1
    <3>4. Frame(s) = [s EXCEPT !.next = f, !.left = o, !.cache = held, !.good = TRUE]
      BY <2>4, <2>5, <3>2, <3>3 DEF Streams
    <3>5. /\ Frame(s) \in Streams /\ Frame(s).good /\ Frame(s).remaining = s.remaining
          /\ Frame(s).end = s.end /\ Frame(s).next = f /\ Frame(s).left = o
      BY <2>4, <3>2, <3>4 DEF Streams
    <3> QED
      BY <3>3, <3>5
  <2>7. PlaceOf(Frame(s)) = frame * OutputRate
    BY <1>3, <2>2, <2>6 DEF PlaceOf
  <2>8. s.left = 0 /\ PlaceOf(s) = s.next * OutputRate
    BY <1>2, <1>3, <1>7 DEF Streams, PlaceOf
  <2>9. CASE s.next < frames
    <3>1. PlaceOf(Frame(s)) = PlaceOf(s)
      BY <1>2, <1>4, <2>1, <2>7, <2>8, <2>9 DEF Streams
    <3>2. PlaceOf(s) \in Int /\ LoopStart \in Int
      BY <1>2, <1>3, <1>4, <2>8 DEF Streams, LoopStart
    <3> QED
      BY <1>1, <1>3, <2>2, <2>6, <3>1, <3>2, <1>4
  <2>10. CASE s.next >= frames
    <3>1. repeating /\ frame = loop /\ s.next = frames
      BY <1>2, <1>4, <1>7, <2>1, <2>10 DEF Streams
    <3>2. PlaceOf(Frame(s)) = LoopStart /\ PlaceOf(s) = TrackEnd
      BY <2>7, <2>8, <3>1 DEF LoopStart, TrackEnd
    <3>3. LoopStart \in Int /\ TrackEnd \in Int
      BY <1>3, <1>4 DEF LoopStart, TrackEnd
    <3>4. TrackEnd + k * (TrackEnd - LoopStart) = LoopStart + (k + 1) * (TrackEnd - LoopStart)
      BY <3>3
    <3>5. /\ k + 1 \in Nat /\ LoopStart <= PlaceOf(Frame(s))
          /\ place + (SampleRate - Frame(s).remaining) = PlaceOf(Frame(s)) + (k + 1) * (TrackEnd - LoopStart)
      BY <1>1, <2>6, <3>2, <3>3, <3>4
    <3> QED
      BY <1>3, <2>2, <2>6, <3>1, <3>5, <1>4
  <2> QED
    BY <1>2, <1>4, <2>9, <2>10 DEF Streams
<1> QED
  BY <1>5, <1>6, <1>7

\* A pass takes the listener on.
LEMMA PassCovers ==
  ASSUME MsuInv, open, NEW n \in Nat, NEW s, PassInv(n, s), ~s.end, s.remaining > 0
  PROVE  PassInv(n + 1, Pass(s))
<1>1. PICK t : t = Frame(s)
  OBVIOUS
<1>2. /\ t \in Streams /\ t.good /\ t.remaining = s.remaining /\ t.next <= frames
      /\ t.end => /\ t.next = 0 /\ t.left = 0 /\ ~repeating
                  /\ place + (SampleRate - t.remaining) = TrackEnd
      /\ ~t.end => /\ t.left > 0
                   /\ \E k \in Nat :
                        /\ k > 0 => repeating /\ LoopStart <= PlaceOf(t)
                        /\ place + (SampleRate - t.remaining) = PlaceOf(t) + k * (TrackEnd - LoopStart)
  BY <1>1, FrameReads
<1>3. CASE t.end
  <2>1. Pass(s) = t
    BY <1>1, <1>3 DEF Pass
  <2> QED
    BY <1>2, <1>3, <2>1 DEF PassInv
<1>4. CASE ~t.end
  <2>1. PICK c : c = Smaller(t.remaining, t.left)
    OBVIOUS
  <2>2. Pass(s) = [t EXCEPT !.left = @ - c, !.remaining = @ - c]
    BY <1>1, <1>4, <2>1 DEF Pass, Cover
  <2>3. c \in Nat /\ 0 < c /\ c <= t.remaining /\ c <= t.left /\ (c = t.remaining \/ c = t.left)
    BY <1>2, <1>4, <2>1, Msu1Assumption DEF Smaller, Streams
  <2>4. Pass(s) \in Streams /\ ~Pass(s).end /\ Pass(s).good /\ Pass(s).next = t.next
        /\ Pass(s).left = t.left - c /\ Pass(s).remaining = t.remaining - c
    <3>1. t.left \in 0 .. OutputRate /\ t.remaining \in 0 .. SampleRate
      BY <1>2 DEF Streams
    <3>2. PICK l \in 0 .. OutputRate, r \in 0 .. SampleRate : l = t.left - c /\ r = t.remaining - c
      BY <2>3, <3>1, Msu1Assumption
    <3>3. Pass(s) = [t EXCEPT !.left = l, !.remaining = r]
      BY <1>2, <2>2, <3>2 DEF Streams
    <3> QED
      BY <1>2, <1>4, <3>2, <3>3 DEF Streams
  <2>5. PICK k \in Nat : /\ k > 0 => repeating /\ LoopStart <= PlaceOf(t)
                         /\ place + (SampleRate - t.remaining) = PlaceOf(t) + k * (TrackEnd - LoopStart)
    BY <1>2, <1>4
  <2>6. PICK p \in Int : p = t.next * OutputRate
    BY <1>2, Msu1Assumption DEF Streams
  <2>7. PlaceOf(t) = p - t.left /\ PlaceOf(Pass(s)) = p - (t.left - c)
    BY <2>4, <2>6 DEF PlaceOf
  <2>8. PICK l \in Int : l = k * (TrackEnd - LoopStart)
    BY Msu1Assumption DEF MsuInv, MsuTypes, LoopStart, TrackEnd
  <2>9. place \in Int /\ LoopStart \in Int /\ t.left \in Nat /\ t.remaining \in Nat /\ SampleRate \in Nat
        /\ s.remaining + n <= SampleRate
    BY <1>2, Msu1Assumption DEF MsuInv, MsuTypes, LoopStart, Streams, PassInv
  <2>10. k > 0 => repeating /\ LoopStart < PlaceOf(Pass(s))
    BY <2>3, <2>5, <2>6, <2>7, <2>9
  <2>11. place + (SampleRate - Pass(s).remaining) = PlaceOf(Pass(s)) + k * (TrackEnd - LoopStart)
    BY <2>3, <2>4, <2>5, <2>6, <2>7, <2>8, <2>9
  <2>12. Pass(s).remaining + (n + 1) <= SampleRate
    BY <1>2, <2>3, <2>4, <2>9
  <2> QED
    BY <1>2, <2>4, <2>10, <2>11, <2>12 DEF PassInv
<1> QED
  BY <1>3, <1>4

\* So after as many passes as the sample has ticks it is covered, or the track at its end.
LEMMA PassesCover ==
  ASSUME MsuInv, open
  PROVE  LET s == Passes[SampleRate] IN PassInv(SampleRate, s) /\ (s.end \/ s.remaining = 0)
<1>1. PassInv(0, Passes[0])
  <2>1. Passes[0] = Now
    BY PassesDefined, Msu1Assumption
  <2>2. Now \in Streams /\ Now.good /\ ~Now.end /\ Now.next <= frames /\ Now.remaining = SampleRate
    BY Msu1Assumption DEF Now, Streams, MsuInv, MsuTypes, TrackOpen
  <2>3. PlaceOf(Now) = place
    BY DEF Now, PlaceOf, MsuInv, PlaybackExact
  <2>4. TrackEnd - LoopStart \in Int
    BY Msu1Assumption DEF MsuInv, MsuTypes, LoopStart, TrackEnd
  <2>5. place + (SampleRate - Now.remaining) = PlaceOf(Now) + 0 * (TrackEnd - LoopStart)
    BY <2>2, <2>3, <2>4, Msu1Assumption DEF MsuInv, MsuTypes
  <2> QED
    BY <2>1, <2>2, <2>5, Msu1Assumption DEF PassInv
<1>2. \A n \in 0 .. SampleRate : PassInv(n, Passes[n])
  <2> SUFFICES ASSUME NEW bad \in 0 .. SampleRate, ~PassInv(bad, Passes[bad]) PROVE FALSE
    OBVIOUS
  <2> DEFINE T == {n \in 0 .. SampleRate : ~PassInv(n, Passes[n])}
  <2>1. PICK m \in T : \A other \in T : m <= other
    <3>1. T \subseteq Nat /\ T # {}
      BY Msu1Assumption
    <3> QED
      BY <3>1, Smallest
  <2>2. m \in 0 .. SampleRate /\ m # 0 /\ ~PassInv(m, Passes[m])
    BY <1>1, <2>1
  <2>3. PICK s : s = Passes[m - 1]
    OBVIOUS
  <2>4. PassInv(m - 1, s)
    BY <2>1, <2>2, <2>3, Msu1Assumption
  <2>5. Passes[m] = IF s.end \/ s.remaining = 0 THEN s ELSE Pass(s)
    BY <2>2, <2>3, PassesDefined, Msu1Assumption
  <2>6. CASE s.end \/ s.remaining = 0
    BY <2>2, <2>4, <2>5, <2>6 DEF PassInv
  <2>7. CASE ~(s.end \/ s.remaining = 0)
    <3>1. s.remaining > 0 /\ ~s.end /\ m - 1 \in Nat /\ (m - 1) + 1 = m
      BY <2>2, <2>4, <2>7 DEF PassInv, Streams
    <3>2. PassInv((m - 1) + 1, Pass(s))
      BY <2>4, <3>1, PassCovers
    <3> QED
      BY <2>2, <2>5, <2>7, <3>1, <3>2
  <2> QED
    BY <2>6, <2>7
<1>3. PassInv(SampleRate, Passes[SampleRate])
  BY <1>2, Msu1Assumption
<1> QED
  BY <1>3, Msu1Assumption DEF PassInv, Streams

LEMMA LoopModulo ==
  ASSUME NEW m \in Nat \ {0}, NEW r \in 0 .. m - 1, NEW q \in Nat
  PROVE  (r + q * m) % m = r
<1>1. PICK all \in Nat : all = r + q * m
  OBVIOUS
<1>2. all = m * (all \div m) + (all % m) /\ all % m \in 0 .. m - 1 /\ all \div m \in Nat
  BY <1>1
<1>3. PICK d \in Int : d = q - (all \div m)
  BY <1>2
<1>4. d * m = (all % m) - r
  BY <1>1, <1>2, <1>3
<1>5. d = 0
  <2>1. CASE d >= 1
    <3>1. d * m >= m
      BY <2>1
    <3> QED
      BY <1>2, <1>4, <3>1
  <2>2. CASE d <= -1
    <3>1. d * m <= -m
      BY <2>2
    <3> QED
      BY <1>2, <1>4, <3>1
  <2> QED
    BY <2>1, <2>2
<1> QED
  BY <1>1, <1>2, <1>4, <1>5

LEMMA PlaceAfterSample ==
  ASSUME frames \in Nat, loop \in Nat, place \in Int
  PROVE  PlaceAfter = IF place + SampleRate <= TrackEnd THEN place + SampleRate
                      ELSE IF ~repeating THEN 0
                      ELSE LoopStart + 1 + ((place + SampleRate - TrackEnd - 1) % (TrackEnd - LoopStart))
BY Msu1Assumption DEF PlaceAfter, LoopStart, TrackEnd

\* Where a sample takes the listener is where its passes take the stream.
LEMMA SampleKeeps == MsuInv /\ Sample => MsuInv'
<1> SUFFICES ASSUME MsuInv, Sample PROVE MsuInv'
  OBVIOUS
<1>1. open /\ genuine
  BY DEF Sample, MsuInv, PlaybackExact
<1>2. PICK s : s = Passes[SampleRate]
  OBVIOUS
<1>3. PassInv(SampleRate, s) /\ (s.end \/ s.remaining = 0)
  BY <1>1, <1>2, PassesCover
<1>4. /\ genuine' = (genuine /\ s.good) /\ nextFrame' = s.next /\ ticksLeft' = s.left
      /\ cache' = s.cache /\ repeating' = (repeating /\ ~s.end) /\ place' = PlaceAfter
      /\ UNCHANGED <<track, error, open, frames, loop, resume, savedPlace>>
  BY <1>2 DEF Sample
<1>5. /\ frames \in Nat /\ loop \in Nat /\ loop < frames /\ place \in Int
      /\ SampleRate \in Nat \ {0} /\ OutputRate \in Nat \ {0} /\ repeating \in BOOLEAN
  BY <1>1, Msu1Assumption DEF MsuInv, MsuTypes, TrackOpen
<1>6. PICK start \in Nat, finish \in Nat : start = LoopStart /\ finish = TrackEnd /\ start < finish
  BY <1>5 DEF LoopStart, TrackEnd
<1>7. s \in Streams /\ s.good /\ s.next <= frames
  BY <1>3 DEF PassInv
<1>8. PlaceOf(s) \in Int /\ PlaceOf(s) <= finish
  <2>1. PICK f \in Nat : f = s.next /\ f <= frames
    BY <1>7 DEF Streams
  <2>2. f * OutputRate <= frames * OutputRate /\ f * OutputRate \in Nat
    BY <1>5, <2>1
  <2> QED
    BY <1>5, <1>6, <1>7, <2>1, <2>2 DEF PlaceOf, TrackEnd, Streams
<1>9. PlaceAfter = IF place + SampleRate <= finish THEN place + SampleRate
                   ELSE IF ~repeating THEN 0
                   ELSE start + 1 + ((place + SampleRate - finish - 1) % (finish - start))
  BY <1>5, <1>6, PlaceAfterSample
<1>10. PlaceAfter = PlaceOf(s)
  <2>1. CASE s.end
    <3>1. s.next = 0 /\ s.left = 0 /\ s.remaining \in Nat /\ s.remaining > 0 /\ ~repeating
          /\ place + (SampleRate - s.remaining) = finish
      BY <1>3, <1>6, <1>7, <2>1 DEF PassInv, Streams
    <3>2. PlaceAfter = 0
      BY <1>5, <1>9, <3>1
    <3> QED
      BY <1>5, <3>1, <3>2 DEF PlaceOf
  <2>2. CASE ~s.end
    <3>1. PICK k \in Nat : /\ k > 0 => repeating /\ start < PlaceOf(s)
                           /\ place + SampleRate = PlaceOf(s) + k * (finish - start)
      <4>1. s.remaining = 0
        BY <1>3, <2>2
      <4>2. PICK k \in Nat : /\ k > 0 => repeating /\ LoopStart < PlaceOf(s)
                             /\ place + (SampleRate - s.remaining) = PlaceOf(s) + k * (TrackEnd - LoopStart)
        BY <1>3, <2>2 DEF PassInv
      <4>3. place + (SampleRate - s.remaining) = place + SampleRate
        BY <1>5, <4>1
      <4>4. PICK l : l = k * (finish - start)
        OBVIOUS
      <4>5. /\ k > 0 => repeating /\ start < PlaceOf(s)
            /\ place + SampleRate = PlaceOf(s) + l
        BY <1>6, <4>2, <4>3, <4>4
      <4> QED
        BY <4>4, <4>5
    <3>2. CASE k = 0
      BY <1>5, <1>6, <1>8, <1>9, <3>1, <3>2
    <3>3. CASE k > 0
      <4>1. PICK m \in Nat \ {0} : m = finish - start
        BY <1>6
      <4>2. PICK q \in Nat : k = q + 1
        BY <3>3
      <4>3. k * m = q * m + m
        BY <4>1, <4>2
      <4>4. PICK r \in 0 .. m - 1 : r = PlaceOf(s) - start - 1
        BY <1>6, <1>8, <3>1, <3>3, <4>1
      <4>5. q * m \in Nat
        BY <4>1, <4>2
      <4>6. place + SampleRate - finish - 1 = r + q * m
        BY <1>5, <1>6, <1>8, <3>1, <4>1, <4>3, <4>4, <4>5
      <4>7. place + SampleRate > finish
        BY <1>5, <1>6, <4>4, <4>5, <4>6
      <4>8. (place + SampleRate - finish - 1) % (finish - start) = r
        <5>1. (r + q * m) % m = r
          BY <4>1, <4>2, <4>4, LoopModulo
        <5> QED
          BY <4>1, <4>6, <5>1
      <4>9. PlaceAfter = start + 1 + r
        BY <1>5, <1>6, <1>9, <3>1, <3>3, <4>7, <4>8
      <4> QED
        BY <1>6, <1>8, <4>4, <4>9
    <3> QED
      BY <3>2, <3>3
  <2> QED
    BY <2>1, <2>2
<1>11. MsuTypes'
  BY <1>4, <1>5, <1>7, <1>8, <1>10 DEF MsuInv, MsuTypes, Streams
<1>12. TrackOpen' /\ ResumeHeld'
  BY <1>4, <1>7 DEF MsuInv, TrackOpen, ResumeHeld
<1>13. PlaybackExact'
  BY <1>1, <1>4, <1>7, <1>10 DEF PlaybackExact, PlaceOf
<1> QED
  BY <1>11, <1>12, <1>13 DEF MsuInv

LEMMA NothingRead == 0 \in 0 .. OutputRate /\ NoCache \in [offset : Nat, size : Int]
BY Msu1Assumption DEF NoCache

LEMMA SelectKeeps == ASSUME MsuInv, NEW t, SelectTrack(t) PROVE MsuInv'
<1>1. t \in Tracks /\ t \in Nat /\ Frames[t] \in Nat \ {0} /\ LoopField[t] \in Nat
      /\ OutputRate \in Nat \ {0} /\ CacheUnits \in Nat
  BY Msu1Assumption DEF SelectTrack
<1>2. cache' \in [offset : Nat, size : Int]
  BY <1>1 DEF SelectTrack, Fill, Smaller, Header
<1>3. /\ track' = t /\ open' = TRUE /\ repeating' = FALSE /\ frames' = Frames[t]
      /\ loop' \in Nat /\ loop' < frames' /\ UNCHANGED <<savedPlace, genuine>>
  BY <1>1 DEF SelectTrack
<1>4. CASE Resumes(t)
  <2>1. resume.valid /\ resume.track = t
    BY <1>4 DEF Resumes
  <2>2. resume.nextFrame \in Nat /\ resume.ticksLeft \in 0 .. OutputRate
        /\ resume \in [valid : BOOLEAN, track : Nat, nextFrame : Nat, ticksLeft : 0 .. OutputRate]
    BY DEF MsuInv, MsuTypes
  <2>3. /\ resume.nextFrame <= Frames[t]
        /\ savedPlace = resume.nextFrame * OutputRate - resume.ticksLeft
    BY <2>1 DEF MsuInv, ResumeHeld
  <2>4. /\ nextFrame' = resume.nextFrame /\ ticksLeft' = resume.ticksLeft
        /\ place' = savedPlace /\ resume' = [resume EXCEPT !.valid = FALSE]
    BY <1>4, <2>3 DEF SelectTrack, ResumeTicks
  <2>5. resume' \in [valid : BOOLEAN, track : Nat, nextFrame : Nat, ticksLeft : 0 .. OutputRate]
        /\ ~resume'.valid
    BY <2>2, <2>4
  <2>6. MsuTypes'
    BY <1>1, <1>2, <1>3, <2>2, <2>4, <2>5 DEF MsuInv, MsuTypes
  <2>7. TrackOpen' /\ ResumeHeld' /\ PlaybackExact'
    BY <1>1, <1>3, <2>3, <2>4, <2>5 DEF MsuInv, TrackOpen, ResumeHeld, PlaybackExact
  <2> QED
    BY <2>6, <2>7 DEF MsuInv
<1>5. CASE ~Resumes(t)
  <2>1. nextFrame' = 0 /\ ticksLeft' = 0 /\ place' = 0 /\ resume' = resume
    BY <1>5 DEF SelectTrack
  <2>2. MsuTypes'
    <3>1. resume' \in [valid : BOOLEAN, track : Nat, nextFrame : Nat, ticksLeft : 0 .. OutputRate]
      BY <2>1 DEF MsuInv, MsuTypes
    <3>2. nextFrame' \in Nat /\ place' \in Int /\ savedPlace' \in Int
      BY <1>3, <2>1 DEF MsuInv, MsuTypes
    <3>3. ticksLeft' \in 0 .. OutputRate
      BY <2>1, NothingRead
    <3>4. track' \in Nat /\ frames' \in Nat /\ loop' \in Nat
      BY <1>1, <1>3 
    <3>5. open' \in BOOLEAN /\ repeating' \in BOOLEAN
      BY <1>1, <1>3 
    <3> QED
      BY <1>2, <3>1, <3>2, <3>3, <3>4, <3>5 DEF MsuTypes
  <2>3. TrackOpen' /\ ResumeHeld' /\ PlaybackExact'
    BY <1>1, <1>3, <2>1 DEF MsuInv, TrackOpen, ResumeHeld, PlaybackExact
  <2> QED
    BY <2>2, <2>3 DEF MsuInv
<1> QED
  BY <1>4, <1>5

\* Nothing is open, and the resume point stays.
LEMMA StreamStops ==
  ASSUME MsuInv, open' = FALSE, track' \in Nat, repeating' = FALSE, frames' \in Nat, loop' \in Nat,
         nextFrame' \in Nat, ticksLeft' = 0, cache' = NoCache, place' \in Int,
         UNCHANGED <<resume, savedPlace, genuine>>
  PROVE  MsuInv'
<1>1. ticksLeft' \in 0 .. OutputRate /\ cache' \in [offset : Nat, size : Int]
  BY NothingRead
<1>2. MsuTypes'
  BY <1>1 DEF MsuInv, MsuTypes
<1> QED
  BY <1>2 DEF MsuInv, TrackOpen, ResumeHeld, PlaybackExact

LEMMA MsuStep == MsuInv /\ [MsuNext]_msuVars => MsuInv'
<1> SUFFICES ASSUME MsuInv, [MsuNext]_msuVars PROVE MsuInv'
  OBVIOUS
<1>1. ASSUME NEW t \in Tracks \cup Missing, SelectTrack(t) PROVE MsuInv'
  BY <1>1, SelectKeeps
<1>2. ASSUME NEW t \in Tracks \cup Missing, SelectFails(t) PROVE MsuInv'
  <2>1. t \in Nat
    BY Msu1Assumption
  <2>2. /\ track' = t /\ repeating' = FALSE /\ open' = FALSE /\ frames' = 0 /\ loop' = 0
        /\ nextFrame' = 0 /\ ticksLeft' = 0 /\ cache' = NoCache /\ place' = 0
        /\ UNCHANGED <<resume, savedPlace, genuine>>
    BY <1>2 DEF SelectFails
  <2>3. track' \in Nat /\ frames' \in Nat /\ loop' \in Nat /\ nextFrame' \in Nat
    BY <2>1, <2>2
  <2>4. place' \in Int
    BY <2>2
  <2> QED
    BY <2>2, <2>3, <2>4, StreamStops
<1>3. ASSUME NEW play \in BOOLEAN, NEW repeat \in BOOLEAN, NEW save \in BOOLEAN,
             Control(play, repeat, save)
      PROVE  MsuInv'
  <2>1. CASE save /\ ~play /\ open
    <3>1. resume' = [valid |-> TRUE, track |-> track, nextFrame |-> nextFrame, ticksLeft |-> ticksLeft]
          /\ savedPlace' = place
      BY <1>3, <2>1 DEF Control
    <3>2. resume' \in [valid : BOOLEAN, track : Nat, nextFrame : Nat, ticksLeft : 0 .. OutputRate]
      BY <3>1 DEF MsuInv, MsuTypes
    <3>3. repeating' \in BOOLEAN
          /\ UNCHANGED <<track, open, frames, loop, nextFrame, ticksLeft, cache, place, genuine>>
      BY <1>3 DEF Control, position
    <3> QED
      BY <2>1, <3>1, <3>2, <3>3 DEF MsuInv, MsuTypes, TrackOpen, ResumeHeld, PlaybackExact
  <2>2. CASE ~(save /\ ~play /\ open)
    BY <1>3, <2>2 DEF Control, position, MsuInv, MsuTypes, TrackOpen, ResumeHeld, PlaybackExact
  <2> QED
    BY <2>1, <2>2
<1>4. CASE Silence
  BY <1>4 DEF Silence, position, MsuInv, MsuTypes, TrackOpen, ResumeHeld, PlaybackExact
<1>5. CASE Sample
  BY <1>5, SampleKeeps
<1>6. CASE ReadFails
  <2>1. /\ repeating' = FALSE /\ open' = FALSE /\ nextFrame' \in nextFrame .. frames
        /\ ticksLeft' = 0 /\ cache' = NoCache
        /\ UNCHANGED <<track, frames, loop, resume, place, savedPlace, genuine>>
    BY <1>6 DEF ReadFails
  <2>2. nextFrame' \in Nat /\ place' \in Int /\ track' \in Nat /\ frames' \in Nat /\ loop' \in Nat
    BY <2>1 DEF MsuInv, MsuTypes
  <2> QED
    BY <2>1, <2>2, StreamStops
<1>7. CASE UNCHANGED msuVars
  BY <1>7 DEF msuVars, player, position, MsuInv, MsuTypes, TrackOpen, ResumeHeld, PlaybackExact
<1> QED
  BY <1>1, <1>2, <1>3, <1>4, <1>5, <1>6, <1>7 DEF MsuNext, NextSample

\* The music plays on where its listener is (Msu1::NextSample): for tracks of any length with
\* any loop point, any resampling ratio, and any track changes, stops and resume points, no
\* tick of a track is lost or repeated and every frame is the file's.
THEOREM PlaybackStaysExact == MsuSpec => []PlaybackExact
<1>1. MsuInit => MsuInv
  <2> SUFFICES ASSUME MsuInit PROVE MsuInv
    OBVIOUS
  <2>1. ticksLeft \in 0 .. OutputRate /\ cache \in [offset : Nat, size : Int]
        /\ resume \in [valid : BOOLEAN, track : Nat, nextFrame : Nat, ticksLeft : 0 .. OutputRate]
    BY NothingRead DEF MsuInit
  <2>2. MsuTypes
    <3>1. track \in Nat /\ frames \in Nat /\ loop \in Nat /\ nextFrame \in Nat
      BY DEF MsuInit
    <3>2. place \in Int /\ savedPlace \in Int
      BY DEF MsuInit
    <3>3. open \in BOOLEAN /\ repeating \in BOOLEAN
      BY DEF MsuInit
    <3> QED
      BY <2>1, <3>1, <3>2, <3>3 DEF MsuTypes
  <2> QED
    BY <2>2 DEF MsuInit, MsuInv, TrackOpen, ResumeHeld, PlaybackExact
<1>2. MsuInv => PlaybackExact
  BY DEF MsuInv
<1> QED
  BY <1>1, <1>2, MsuStep, PTL DEF MsuSpec
=============================================================================
