-------------------------------- MODULE Beam --------------------------------
(***************************************************************************)
(* What Timing promises, without batches, flags or thresholds: the beam    *)
(* moves two clocks at a time through the lines of a field, and each event *)
(* happens at the one position that belongs to it.                         *)
(***************************************************************************)
EXTENDS Naturals

CONSTANTS
  LineClocks,   \* 1364
  OddLine,      \* the line of odd fields that may have another length,
  OddClocks,    \* that length, and whether it takes interlace or the lack
  OddInterlace, \* of it: line 240, 1360, FALSE (NTSC); 311, 1368, TRUE (PAL)
  FieldLines,   \* 262 or 312
  CaptureLine,  \* 128, where an interlaced even field gains a line
  SetupBase, RenderPos, HdmaPos, RefreshBase,  \* 12, 512, 1104, 538
  JoyClocks     \* 128

Events == {"setup", "render", "hdma", "refresh"}

VARIABLES
  h, v, field, interlace, lines,  \* hcounter_, vcounter_, field_, interlace_, vperiod_
  clock,                \* masterClocksElapsed_ modulo JoyClocks
  start, opened,        \* clock when this line and when this field began, modulo 8
  width,                \* hperiod_
  vdisp,                \* first line of VBlank
  settled,              \* vdisp has not been changed on this line
  out                   \* what the last move of the beam has caused

beam == <<h, v, field, interlace, lines, clock, start, opened, width, vdisp, settled, out>>

\* The events of position x on line y.
At(x, y) ==
  {e \in Events :
    CASE e = "setup"   -> y = 0 /\ x = SetupBase + opened
      [] e = "render"  -> y > 0 /\ y < vdisp /\ x = RenderPos
      [] e = "hdma"    -> y < vdisp /\ x = HdmaPos
      [] e = "refresh" -> x = RefreshBase - start}

\* What vdisp decides.  On a line on which it was changed these may come late,
\* or not at all.
Displayed == {"render", "hdma"}

Late == IF settled THEN {{}} ELSE SUBSET Displayed

Caused(x, y) == IF settled THEN At(x, y) ELSE At(x, y) \ Displayed

\* The controller of interrupts is polled every 4 clocks, the pads every
\* JoyClocks.
Polls(x) == (IF x % 4 = 2 THEN {"poll"} ELSE {})
            \cup (IF clock = 0 THEN {"joypad"} ELSE {})

WidthOf(y, f) ==
  IF y = OddLine /\ f /\ interlace = OddInterlace THEN OddClocks ELSE LineClocks

LinesOf(y) ==
  IF y # CaptureLine THEN lines
  ELSE IF interlace /\ ~field THEN FieldLines + 1 ELSE FieldLines

SameLine ==
  /\ h + 2 < width
  /\ h' = h + 2
  /\ \E late \in Late : out' = Caused(h + 2, v) \cup Polls(h + 2) \cup late
  /\ UNCHANGED <<v, field, lines, start, opened, width, settled>>

NextLine ==
  /\ h + 2 = width /\ v + 1 < LinesOf(v + 1)
  /\ h' = 0 /\ v' = v + 1
  /\ lines' = LinesOf(v + 1)
  /\ start' = clock' % 8
  /\ width' = WidthOf(v + 1, field)
  /\ \E late \in Late :
       out' = Polls(0) \cup late \cup (IF v + 1 = vdisp THEN {"vblank"} ELSE {})
  /\ settled' = TRUE
  /\ UNCHANGED <<field, opened>>

NextField ==
  /\ h + 2 = width /\ v + 1 = LinesOf(v + 1)
  /\ h' = 0 /\ v' = 0 /\ field' = ~field
  /\ lines' = FieldLines
  /\ start' = clock' % 8 /\ opened' = clock' % 8
  /\ width' = WidthOf(0, ~field)
  /\ \E late \in Late : out' = Polls(0) \cup late \cup {"frame"}
  /\ settled' = TRUE

Move ==
  /\ clock' = (clock + 2) % JoyClocks
  /\ SameLine \/ NextLine \/ NextField
  /\ UNCHANGED <<interlace, vdisp>>

\* The PPU may change mode between two moves, and SETINI the overscan.
SetInterlace ==
  /\ interlace' \in BOOLEAN
  /\ UNCHANGED <<h, v, field, lines, clock, start, opened, width, vdisp, settled, out>>

SetOverscan ==
  /\ vdisp' # vdisp /\ settled' = FALSE
  /\ UNCHANGED <<h, v, field, interlace, lines, clock, start, opened, width, out>>

BeamInit ==
  /\ h = 0 /\ v = 0 /\ field = FALSE /\ interlace = FALSE
  /\ lines = FieldLines /\ clock = 0 /\ start = 0 /\ opened = 0
  /\ width = LineClocks /\ vdisp \in 2 .. FieldLines - 1 /\ settled = TRUE /\ out = {}

BeamSpec == BeamInit /\ [][Move \/ SetInterlace \/ SetOverscan]_beam
=============================================================================
