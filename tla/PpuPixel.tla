------------------------------ MODULE PpuPixel ------------------------------
(***************************************************************************)
(* One dot of a line (RenderLineSpan and what it calls in core/src/ppu/    *)
(* PpuRender.cpp, with the priorities UpdateVideoMode of Ppu.cpp sets):    *)
(* the layers plot their dot on the two screens one after the other, the   *)
(* windows clip them, and the two screens are blended into a colour of     *)
(* three packed channels.  What a layer has at the dot - nothing, or an    *)
(* opaque dot of one of its priorities - is chosen when it is drawn.       *)
(***************************************************************************)
EXTENDS Integers, Sequences, FiniteSets

CONSTANTS
  Setups,       \* the settings of a behaviour's registers
  LayerColor    \* the colour of each layer and of CGRAM[0], BGR555

VARIABLES
  setup,         \* the registers
  undrawn,          \* the layers still to be drawn
  above, below,  \* line.above[x], line.below[x]
  dots,          \* history: what each layer drew
  blended        \* history: the last blend's operands and result

pixelVars == <<setup, undrawn, above, below, dots, blended>>

Backgrounds == {"BG1", "BG2", "BG3", "BG4"}
Layers == Backgrounds \cup {"OBJ"}
Sources == Backgrounds \cup {"OBJ1", "OBJ2", "COL"}

Bgr555 == 0 .. 32767

\* What the constants are to satisfy.
ASSUME PpuPixelAssumption ==
  /\ \A s \in Setups : /\ s.mode \in 0 .. 7 /\ s.raised \in BOOLEAN /\ s.extbg \in BOOLEAN
                       /\ s.tm \subseteq Layers /\ s.ts \subseteq Layers /\ s.math \subseteq Sources
                       /\ s.fixed \in Bgr555
                       /\ s.subtract \in BOOLEAN /\ s.halve \in BOOLEAN /\ s.addSub \in BOOLEAN
  /\ LayerColor \in [Sources -> Bgr555]

P(bg1, bg2, bg3, bg4, obj) == [BG1 |-> bg1, BG2 |-> bg2, BG3 |-> bg3, BG4 |-> bg4, OBJ |-> obj]

Inactive == <<>>

\* Mutant: the bit that raises BG3 leaves the objects where they were.
RaisedPrioritiesAlone == P(<<5, 8>>, <<4, 7>>, <<1, 10>>, Inactive, <<2, 4, 7, 10>>)

\* Mode 1 with BG3 raised over everything else.
RaisedPriorities == P(<<5, 8>>, <<4, 7>>, <<1, 10>>, Inactive, <<2, 3, 6, 9>>)

\* UpdateVideoMode: the active layers and the priorities of their tiles.
Priorities(mode, raised, extbg) ==
  CASE mode = 0 -> P(<<8, 11>>, <<7, 10>>, <<2, 5>>, <<1, 4>>, <<3, 6, 9, 12>>)
    [] mode = 1 /\ raised -> RaisedPriorities
    [] mode = 1 /\ ~raised -> P(<<6, 9>>, <<5, 8>>, <<1, 3>>, Inactive, <<2, 4, 7, 10>>)
    [] mode \in 2 .. 5 -> P(<<3, 7>>, <<1, 5>>, Inactive, Inactive, <<2, 4, 6, 8>>)
    [] mode = 6 -> P(<<2, 5>>, Inactive, Inactive, Inactive, <<1, 3, 4, 6>>)
    [] mode = 7 /\ ~extbg -> P(<<2, 2>>, Inactive, Inactive, Inactive, <<1, 3, 4, 5>>)
    [] OTHER -> P(<<3, 3>>, <<1, 5>>, Inactive, Inactive, <<2, 4, 6, 7>>)

\* RenderLineSpan: the layers in their order; EXTBG draws BG2 over the objects.
Order(s) == IF s.extbg THEN <<"BG1", "BG3", "BG4", "OBJ", "BG2">> ELSE <<"BG1", "BG2", "BG3", "BG4", "OBJ">>

------------------------------------------------------------------------------
(* Windows. *)

Inside(w) == setup.x >= w.left /\ setup.x <= w.right

\* A window layer's selection at the dot.
Region(sel) ==
  LET one == Inside(setup.one) # sel.oneInvert
      two == Inside(setup.two) # sel.twoInvert
  IN  CASE ~sel.oneEnable /\ ~sel.twoEnable -> FALSE
        [] sel.oneEnable /\ ~sel.twoEnable  -> one
        [] ~sel.oneEnable /\ sel.twoEnable  -> two
        [] sel.mask = "or"  -> one \/ two
        [] sel.mask = "and" -> one /\ two
        [] sel.mask = "xor" -> one # two
        [] OTHER            -> one = two

\* RenderWindow: the layer is clipped.
RenderWindow(layer, enable) == layer \in enable /\ Region(setup.window)

\* RenderWindowColor: the colour window lets the dot through.
RenderWindowColor(mask) ==
  CASE mask = "always"  -> TRUE
    [] mask = "never"   -> FALSE
    [] mask = "inside"  -> Region(setup.colorWindow)
    [] OTHER            -> ~Region(setup.colorWindow)

------------------------------------------------------------------------------
(* Layers. *)

\* The opaque dots a layer may have: a place in its priorities; objects of the lower palettes
\* are another source.
DotsOf(layer) ==
  LET p == Priorities(setup.mode, setup.raised, setup.extbg)[layer]
  IN  [priority : {p[i] : i \in DOMAIN p},
       source   : IF layer = "OBJ" THEN {"OBJ1", "OBJ2"} ELSE {layer}]

PlotDot(screen, dot, color) ==
  IF dot.priority > screen.priority THEN [source |-> dot.source, priority |-> dot.priority, color |-> color]
  ELSE screen

\* RenderBackground, RenderMode7, RenderObjects: a transparent dot, or one plotted on the
\* screens the layer is on.
Draw ==
  /\ undrawn # <<>>
  /\ undrawn' = Tail(undrawn)
  /\ LET layer == Head(undrawn) IN
       \/ UNCHANGED <<above, below, dots>>
       \/ \E dot \in DotsOf(layer) :
            LET color == LayerColor[dot.source]
                onMain == layer \in setup.tm /\ ~RenderWindow(layer, setup.tmw)
                onSub == layer \in setup.ts /\ ~RenderWindow(layer, setup.tsw)
            IN  /\ above' = IF onMain THEN PlotDot(above, dot, color) ELSE above
                /\ below' = IF onSub THEN PlotDot(below, dot, color) ELSE below
                /\ dots' = dots \cup {[dot |-> dot, onMain |-> onMain, onSub |-> onSub]}
  /\ UNCHANGED <<setup, blended>>

------------------------------------------------------------------------------
(* Composition. *)

Carries == 33824 \* $8420, the bit above each channel

ChannelsOf(c) == <<c % 32, (c \div 32) % 32, c \div 1024>>

Packed(c) == c[1] + 32 * c[2] + 1024 * c[3]

\* The bits v & Carries selects, one for each channel.
CarriesOf(v) == <<(v \div 32) % 2, (v \div 1024) % 2, (v \div 32768) % 2>>

\* The lowest bits of a ^ b, channel by channel.
Differ(a, b) == [i \in 1 .. 3 |-> (a[i] + b[i]) % 2]

\* v | (carry - (carry >> 5)), which is all ones in the channels that carried.
Filled(v, carries) == Packed([i \in 1 .. 3 |-> IF carries[i] = 1 THEN 31 ELSE ChannelsOf(v)[i]])

\* v & (borrow - (borrow >> 5)), which is all ones in the channels that did not borrow.
Kept(v, carries) == Packed([i \in 1 .. 3 |-> IF carries[i] = 1 THEN ChannelsOf(v)[i] ELSE 0])

BlendSum(x, y) ==
  LET carries == CarriesOf(x + y - Packed(Differ(ChannelsOf(x), ChannelsOf(y))))
  IN  Filled(x + y - 32 * Packed(carries), carries)

BlendAverage(x, y) == (x + y - Packed(Differ(ChannelsOf(x), ChannelsOf(y)))) \div 2

BlendDifference(x, y) ==
  LET carries == CarriesOf(x - y + Carries - 32 * Packed(Differ(CarriesOf(x), CarriesOf(y))))
  IN  Kept(x - y + Carries - 32 * Packed(carries), carries)

\* (v & $7BDE) >> 1: each channel without its lowest bit, halved.
Halved(v) == Packed([i \in 1 .. 3 |-> ChannelsOf(v)[i] - (ChannelsOf(v)[i] % 2)]) \div 2

Blend(x, y, subtract, halve) ==
  CASE ~subtract /\ ~halve -> BlendSum(x, y)
    [] ~subtract /\ halve  -> BlendAverage(x, y)
    [] subtract /\ ~halve  -> BlendDifference(x, y)
    [] OTHER               -> Halved(BlendDifference(x, y))

\* CompositePixel.
Composite ==
  /\ undrawn = <<>> /\ blended.sum = -1
  /\ LET windowAbove == RenderWindowColor(setup.aboveMask)
         color == IF windowAbove THEN above.color ELSE 0
         hasSub == setup.addSub /\ below.source # "COL"
         other == IF hasSub THEN below.color ELSE setup.fixed
         halve == setup.halve /\ windowAbove /\ (setup.addSub => hasSub)
         math == RenderWindowColor(setup.belowMask) /\ above.source \in setup.math
     IN  blended' = [x |-> color, y |-> other, math |-> math, halve |-> halve,
                     sum |-> IF math THEN Blend(color, other, setup.subtract, halve) ELSE color]
  /\ UNCHANGED <<setup, undrawn, above, below, dots>>

Unblended == [x |-> 0, y |-> 0, math |-> FALSE, halve |-> FALSE, sum |-> -1]

\* InitLineBuffers: the backdrop; the sub screen's is CGRAM[0] in hires.
PixelInit ==
  /\ setup \in Setups
  /\ undrawn = Order(setup)
  /\ above = [source |-> "COL", priority |-> 0, color |-> LayerColor["COL"]]
  /\ below = [source |-> "COL", priority |-> 0,
              color |-> IF setup.mode \in {5, 6} THEN LayerColor["COL"] ELSE setup.fixed]
  /\ dots = {} /\ blended = Unblended

PixelNext == Draw \/ Composite

PixelSpec == PixelInit /\ [][PixelNext]_pixelVars

Front(plotted) == CHOOSE d \in plotted : \A e \in plotted : e.priority <= d.priority

Shown(screen, plotted) == IF plotted = {} THEN "COL" ELSE Front(plotted).source

FrontLayer ==
  LET main == {d.dot : d \in {e \in dots : e.onMain}}
      sub == {d.dot : d \in {e \in dots : e.onSub}}
  IN  /\ above.source = Shown(above, main) /\ below.source = Shown(below, sub)
      /\ \A d, e \in main \cup sub : d # e => d.priority # e.priority

Clamped(v) == IF v < 0 THEN 0 ELSE IF v > 31 THEN 31 ELSE v

BlendExact ==
  blended.math =>
    \A i \in 1 .. 3 :
      LET x == ChannelsOf(blended.x)[i]
          y == ChannelsOf(blended.y)[i]
      IN  ChannelsOf(blended.sum)[i] =
            IF setup.subtract
            THEN Clamped(x - y) \div (IF blended.halve THEN 2 ELSE 1)
            ELSE IF blended.halve THEN (x + y) \div 2 ELSE Clamped(x + y)

\* Each screen shows the layer of the highest priority that has an opaque, unclipped dot on
\* it: no two layers of a mode share a priority, so the order of drawing does not matter.
\* And a blended colour is the two colours added or subtracted channel by channel, no channel
\* reaching into the next: halved before the limit for a sum, after it for a difference.
PixelExact == FrontLayer /\ BlendExact
=============================================================================
