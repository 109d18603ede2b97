----------------------------- MODULE PpuRaster -----------------------------
(***************************************************************************)
(* Registers written while a line is drawn (core/src/ppu/Ppu.cpp and       *)
(* RenderFrame, RenderLine of PpuRender.cpp).  The picture is not drawn as *)
(* the beam moves: each visible line caches the registers once, part way   *)
(* through it, the writes of the visible dots are recorded as events with  *)
(* the registers before and after them, and at VBlank every line is drawn  *)
(* from its cache by undoing its events and doing them again, dot by dot.  *)
(* A register field is the data written to it and the latches it takes in; *)
(* dot 0 stands for H below 92, dot Dots for H from 1096, where no event   *)
(* is recorded.  The first line of VBlank does not move here.              *)
(***************************************************************************)
EXTENDS Integers, Sequences, Functions

CONSTANTS
  Dots,         \* dots of a line (256)
  RenderDot,    \* the dot of Timing::kRenderCycle (512 / 4 - 22)
  RasterVDisp,  \* the first line of VBlank (225 or 240)
  PortSets,     \* the sets of registers a program writes
  MosaicSizes,  \* mosaic sizes (1..16)
  MaxWrites     \* bound: writes of one frame

VARIABLES
  ports,       \* the registers this behaviour writes
  io,          \* io_, a function of the fields
  rasterLatch, \* latch_.mode7, latch_.ppu1.bgofs, latch_.ppu2.bgofs
  rasterLine, rasterDot, \* currentLine_, currentHClock_
  lineCounted, \* mosaicCounterLine_ = currentLine_
  rasterFired, \* renderCycleFired_
  lines,       \* lines_[y].io
  lineStart, lineCount,
  events,      \* rasterEvents_
  writes,      \* history: writes since the frame began
  shown,       \* history: the registers each dot of a line was passed with
  wrong,       \* history: the dots the last picture drew with other registers
  ragged       \* history: the lines the last picture drew with a mosaic row outside its block

cached == <<rasterFired, lines, lineStart, lineCount>>
history == <<shown, wrong, ragged>>
rasterVars ==
  <<ports, io, rasterLatch, rasterLine, rasterDot, lineCounted, cached, events, writes, history>>

Scrolls == <<"BG1HOFS", "BG1VOFS", "BG2HOFS", "BG2VOFS", "BG3HOFS", "BG3VOFS", "BG4HOFS", "BG4VOFS">>
Offsets == <<"hoffset1", "voffset1", "hoffset2", "voffset2", "hoffset3", "voffset3", "hoffset4", "voffset4">>
Selects == <<"W12SEL", "W34SEL", "WOBJSEL">>
Selected == <<{"window1", "window2"}, {"window3", "window4"}, {"windowObj", "windowCol"}>>
Composition == {"WH0", "WH1", "WH2", "WH3", "WBGLOG", "WOBJLOG", "TM", "TS", "TMW", "TSW",
                "CGWSEL", "CGADDSUB", "COLDATA"}
Unrecorded == {"OBSEL", "BGMODE", "BG1SC", "BG12NBA", "M7SEL", "M7A"}

RasterData == 0 .. 1

Ports == {"INIDISP", "MOSAIC"} \cup Range(Scrolls) \cup Range(Selects) \cup Composition \cup Unrecorded

\* What the constants are to satisfy.
ASSUME PpuRasterAssumption ==
  /\ Dots \in Nat /\ RenderDot \in 1 .. Dots - 1 /\ RasterVDisp \in Nat \ {0, 1}
  /\ PortSets \subseteq SUBSET Ports
  /\ MosaicSizes \subseteq Nat \ {0} /\ MaxWrites \in Nat

PortIndex(names, port) == CHOOSE i \in DOMAIN names : names[i] = port

Recorded == {"INIDISP", "mosaic", "hoffset7", "voffset7"} \cup Range(Offsets)
              \cup (UNION Range(Selected)) \cup Composition
Fields == Recorded \cup Unrecorded

\* The data a program writes: MOSAIC's enable bits (0 is none) and size, COLDATA's channels
\* and intensity.
Inputs(port) ==
  CASE port = "MOSAIC"  -> [enable : 0 .. 1, size : MosaicSizes]
    [] port = "COLDATA" -> [channels : SUBSET {"red", "green"}, intensity : RasterData]
    [] OTHER            -> RasterData

\* $2106: the counter starts again when the effect begins or changes.
MosaicCounter(old, data) ==
  IF data.enable = 0 THEN 0
  ELSE IF data.enable # old.enable \/ data.size # old.size
       THEN IF rasterLine > 0 THEN data.size ELSE data.size + 1
       ELSE old.counter

\* $210D-$2114: the data over the latched byte, BG1's for Mode 7 as well.
Scrolled(i, data) ==
  LET offset == Offsets[i]
      mode7 == IF i = 1 THEN {"hoffset7"} ELSE IF i = 2 THEN {"voffset7"} ELSE {}
  IN  [f \in {Offsets[i]} \cup mode7 |->
         IF f # offset THEN <<data, rasterLatch.mode7>>
         ELSE IF i % 2 = 1 THEN <<data, rasterLatch.ppu1, rasterLatch.ppu2>>
         ELSE <<data, rasterLatch.ppu1>>]

\* What WriteIO stores: the fields of the register and their new values.
Stored(port, data) ==
  CASE port = "MOSAIC" ->
         [f \in {"mosaic"} |-> [enable  |-> data.enable, size |-> data.size,
                                counter |-> MosaicCounter(io.mosaic, data)]]
    [] port \in Range(Scrolls) -> Scrolled(PortIndex(Scrolls, port), data)
    [] port \in Range(Selects) -> [f \in Selected[PortIndex(Selects, port)] |-> data]
    [] port = "COLDATA" ->
         [f \in {"COLDATA"} |-> [c \in {"red", "green"} |->
            IF c \in data.channels THEN data.intensity ELSE io.COLDATA[c]]]
    [] port = "M7A" -> [f \in {"M7A"} |-> <<data, rasterLatch.mode7>>]
    [] OTHER -> [f \in {port} |-> data]

\* The latches $210D-$2114 and the matrix registers leave behind.
Latched(port, data) ==
  [mode7 |-> IF port \in {"BG1HOFS", "BG1VOFS", "M7A"} THEN data ELSE rasterLatch.mode7,
   ppu1  |-> IF port \in Range(Scrolls) THEN data ELSE rasterLatch.ppu1,
   ppu2  |-> IF port \in Range(Scrolls) /\ PortIndex(Scrolls, port) % 2 = 1 THEN data ELSE rasterLatch.ppu2]

Event(port) ==
  CASE port = "INIDISP"         -> [type |-> "Display", index |-> 0]
    [] port = "MOSAIC"          -> [type |-> "Mosaic", index |-> 0]
    [] port \in Range(Scrolls)  -> [type |-> "Scroll", index |-> PortIndex(Scrolls, port) - 1]
    [] port \in Range(Selects)  -> [type |-> "WindowSelect", index |-> PortIndex(Selects, port) - 1]
    [] OTHER                    -> [type |-> "Composition", index |-> port]

\* RecordRasterEvent: only on a visible line, on its visible dots after the first.
RecordRasterEvent(port, after) ==
  IF port \in Unrecorded \/ rasterLine \notin 1 .. RasterVDisp - 1 \/ rasterDot \notin 1 .. Dots - 1
  THEN events
  ELSE [events EXCEPT ![rasterLine] =
          Append(@, [x |-> rasterDot, event |-> Event(port), before |-> io, after |-> after])]

Write(port, data) ==
  /\ port \in ports /\ writes < MaxWrites
  /\ LET stored == Stored(port, data)
     IN  io' = [f \in Fields |-> IF f \in DOMAIN stored THEN stored[f] ELSE io[f]]
  /\ events' = RecordRasterEvent(port, io')
  /\ rasterLatch' = Latched(port, data)
  /\ writes' = writes + 1
  /\ UNCHANGED <<ports, rasterLine, rasterDot, lineCounted, cached, history>>

WritePort == \E port \in ports : \E data \in Inputs(port) : Write(port, data)

\* ApplyRasterEvent: the fields of an event.
Copied(event) ==
  CASE event.type = "Display"      -> {"INIDISP"}
    [] event.type = "Mosaic"       -> {"mosaic"}
    [] event.type = "Scroll"       -> {Offsets[event.index + 1]}
                                        \cup (IF event.index = 0 THEN {"hoffset7"} ELSE {})
                                        \cup (IF event.index = 1 THEN {"voffset7"} ELSE {})
    [] event.type = "WindowSelect" -> Selected[event.index + 1]
    [] OTHER                       -> {event.index}

ApplyRasterEvent(state, e, value) ==
  [f \in Fields |-> IF f \in Copied(e.event) THEN value[f] ELSE state[f]]

\* Mutant: the events are undone in the order they were made.
StartInOrder(y) ==
  LET undone[i \in 0 .. Len(events[y])] ==
        IF i = 0 THEN lines[y] ELSE ApplyRasterEvent(undone[i - 1], events[y][i], events[y][i].before)
  IN  undone[Len(events[y])]

\* RenderLine: undo the line's events from its cache, the last one first.
Start(y) ==
  LET undone[i \in 0 .. Len(events[y])] ==
        IF i = Len(events[y]) THEN lines[y]
        ELSE ApplyRasterEvent(undone[i + 1], events[y][i + 1], events[y][i + 1].before)
  IN  undone[0]

\* Then do them again, one after the other.
Redone(y) ==
  LET redone[i \in 0 .. Len(events[y])] ==
        IF i = 0 THEN Start(y) ELSE ApplyRasterEvent(redone[i - 1], events[y][i], events[y][i].after)
  IN  redone

\* The events done before a dot is drawn.
Span(y, d) ==
  CHOOSE i \in 0 .. Len(events[y]) :
    /\ \A j \in 1 .. i : events[y][j].x <= d
    /\ i < Len(events[y]) => events[y][i + 1].x > d

RenderLine(y) == LET redone == Redone(y) IN [d \in 0 .. Dots - 1 |-> redone[Span(y, d)]]

\* AdvanceMosaicCounter, once for a line.
AdvanceMosaicCounter(y) ==
  IF y = 0 \/ y >= RasterVDisp THEN io.mosaic
  ELSE LET m == io.mosaic
           c == IF y # 1 THEN m.counter ELSE IF m.enable = 0 THEN 0 ELSE m.size + 1
       IN  [m EXCEPT !.counter = IF c = 0 THEN 0
                                 ELSE IF c > 1 THEN c - 1 ELSE IF m.enable = 0 THEN 0 ELSE m.size]

\* ScanlineBegin, from the timing's render cycle: the line's copy of the registers.
RasterScanlineBegin ==
  /\ ~rasterFired /\ rasterLine \in 1 .. RasterVDisp - 1 /\ rasterDot = RenderDot
  /\ rasterFired' = TRUE
  /\ io' = IF lineCounted THEN io ELSE [io EXCEPT !.mosaic = AdvanceMosaicCounter(rasterLine)]
  /\ lineCounted' = TRUE
  /\ lines' = [lines EXCEPT ![rasterLine] = io']
  /\ lineStart' = IF lineCount = 0 THEN rasterLine ELSE lineStart
  /\ lineCount' = lineCount + 1
  /\ UNCHANGED <<ports, rasterLatch, rasterLine, rasterDot, events, writes, history>>

\* The beam leaves a dot of the line; the render cycle's dot not before the line is cached.
NextDot ==
  /\ rasterDot < Dots
  /\ rasterDot = RenderDot /\ rasterLine \in 1 .. RasterVDisp - 1 => rasterFired
  /\ rasterDot' = rasterDot + 1
  /\ shown' = IF rasterLine \in 1 .. RasterVDisp - 1
              THEN [shown EXCEPT ![rasterLine][rasterDot] = io] ELSE shown
  /\ UNCHANGED <<ports, io, rasterLatch, rasterLine, lineCounted, cached, events, writes, wrong, ragged>>

Unwritten == [y \in 1 .. RasterVDisp - 1 |-> [d \in 0 .. Dots - 1 |-> <<>>]]

InBlock(y, m) == m.enable = 0 \/ (m.counter \in 1 .. m.size /\ m.size - m.counter < y)

\* VBlankBegin: RenderFrame draws the cached lines and forgets them.
RenderFrame ==
  LET rows == lineStart .. lineStart + lineCount - 1
      picture == [y \in lineStart .. lineStart + lineCount - 1 |-> RenderLine(y)]
  IN  /\ wrong' = {p \in rows \X (0 .. Dots - 1) : \E f \in Fields :
                     picture[p[1]][p[2]][f] # (IF f \in Recorded THEN shown[p[1]][p[2]] ELSE lines[p[1]])[f]}
      /\ ragged' = {y \in rows : \E d \in 0 .. Dots - 1 : ~InBlock(y, picture[y][d].mosaic)}
      /\ lineStart' = 0 /\ lineCount' = 0
      /\ shown' = Unwritten

\* advanceScanline: FrameBegin on line 0, SetCurrentLine, VBlankBegin on line RasterVDisp.
NextRasterLine ==
  /\ rasterDot = Dots /\ rasterDot' = 0
  /\ rasterLine' = (rasterLine + 1) % (RasterVDisp + 1)
  /\ io' = [io EXCEPT !.mosaic = AdvanceMosaicCounter(rasterLine')]
  /\ lineCounted' = (rasterLine' \in 1 .. RasterVDisp - 1)
  /\ rasterFired' = FALSE
  /\ IF rasterLine' = RasterVDisp THEN RenderFrame
     ELSE /\ UNCHANGED history
          /\ lineStart' = (IF rasterLine' = 0 THEN 0 ELSE lineStart)
          /\ lineCount' = (IF rasterLine' = 0 THEN 0 ELSE lineCount)
  /\ events' = IF rasterLine' = 0 THEN [y \in DOMAIN events |-> <<>>] ELSE events
  /\ writes' = IF rasterLine' = 0 THEN 0 ELSE writes
  /\ UNCHANGED <<ports, rasterLatch, lines>>

Initial(f) ==
  CASE f = "mosaic"        -> [enable |-> 0, size |-> 1, counter |-> 0]
    [] f = "COLDATA"       -> [c \in {"red", "green"} |-> 0]
    [] f \in {"hoffset1", "hoffset2", "hoffset3", "hoffset4"} -> <<0, 0, 0>>
    [] f \in Range(Offsets) \cup {"hoffset7", "voffset7", "M7A"} -> <<0, 0>>
    [] OTHER -> 0

\* Reset.
RasterInit ==
  /\ ports \in PortSets
  /\ io = [f \in Fields |-> Initial(f)]
  /\ rasterLatch = [mode7 |-> 0, ppu1 |-> 0, ppu2 |-> 0]
  /\ rasterLine = 0 /\ rasterDot = 0 /\ lineCounted = FALSE /\ rasterFired = FALSE
  /\ lines = [y \in 1 .. RasterVDisp - 1 |-> io]
  /\ lineStart = 0 /\ lineCount = 0
  /\ events = [y \in 1 .. RasterVDisp - 1 |-> <<>>]
  /\ writes = 0
  /\ shown = Unwritten /\ wrong = {} /\ ragged = {}

RasterNext == WritePort \/ RasterScanlineBegin \/ NextDot \/ NextRasterLine

RasterSpec == RasterInit /\ [][RasterNext]_rasterVars

\* Every dot of the picture is drawn with the recorded registers the beam passed it with,
\* whichever side of the line's copy they were written on, and with that copy of the others.
\* A line drawn with a mosaic shows a row of the block it is in, never one above the picture.
PictureExact == wrong = {} /\ ragged = {}
=============================================================================
