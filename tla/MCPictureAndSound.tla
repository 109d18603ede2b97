------------------------- MODULE MCPictureAndSound --------------------------
(***************************************************************************)
(* The units that make the picture and the sound, the Super FX among them, *)
(* which do not interact: a behaviour is one of any of them, the part.     *)
(* Each has variables of its own, which rest while another part runs.      *)
(*                                                                         *)
(* SPC700: bytes of 0 to 2 and a page of four.  Its arithmetic:            *)
(* hexadecimal digits of four values.  DSP: the voice in the middle of the *)
(* schedule; echo buffers of up to two pages.  Audio: a buffer of three    *)
(* samples.  Raster: lines of three dots, two writes.  Memories: two       *)
(* words, one access of a frame.  Objects: three, four dots of screen, two *)
(* of range and two tiles of a line.  Pixels: every mode, and the corners  *)
(* of a channel.  Super FX: two words of RAM, two rows of two pixels,      *)
(* programs that use one of the memories or plot.                          *)
(***************************************************************************)
EXTENDS PpuMemory, PpuRaster, PpuObjects, PpuPixel, AudioMix, DspEcho, DspVoices, Spc700,
        Spc700Alu, SuperFx, Bitwise

VARIABLE part  \* the component this behaviour is of

pictureVars == <<vars, rasterVars, objectVars, pixelVars>>
spc700Vars == <<spcVars, aluVars>>
dspVars == <<echoVars, voicesVars>>
soundVars == <<mixVars, dspVars, spc700Vars>>
unitVars == <<part, pictureVars, soundVars, gsuVars>>

-----------------------------------------------------------------------------
\* The parameters and the instances.
RasterPorts ==
  {{"INIDISP", "BGMODE"}, {"BG1HOFS"}, {"BG1VOFS"}, {"MOSAIC"}, {"W12SEL"}, {"COLDATA"},
   {"M7A"}, {"WOBJSEL"}}

MemoryPrograms ==
  {{"videoWrite", "display"}, {"writeThrough"},
   {"videoControl", "videoAddress", "videoRead"}, {"display", "objectWrite"},
   {"display", "objectAddress", "objectRead"}, {"colorAddress", "colorWrite", "colorRead"},
   {"latch", "pio", "counterRead", "statusRead"}}

Object(x, y, large, hflip, opaque) ==
  [x |-> x, y |-> y, large |-> large, hflip |-> hflip, opaque |-> opaque]

SomeObjects ==
  {Object(0, 1, TRUE, FALSE, {0, 3}), Object(1, 1, TRUE, TRUE, {0, 1}),
   Object(3, 1, FALSE, FALSE, {0}), Object(3, 15, TRUE, FALSE, 0 .. 3),
   Object(4, 1, TRUE, FALSE, 0 .. 3), Object(5, 1, FALSE, FALSE, 0 .. 3),
   Object(7, 15, FALSE, FALSE, {1}), Object(2, 2, FALSE, TRUE, {0})}

SomeSizes ==
  {[small |-> [w |-> 2, h |-> 2], large |-> [w |-> 4, h |-> 4], quirk |-> FALSE, quirkHeight |-> 4],
   [small |-> [w |-> 4, h |-> 8], large |-> [w |-> 6, h |-> 4], quirk |-> TRUE, quirkHeight |-> 4]}

Selection(one, two, mask) ==
  [oneEnable |-> one, oneInvert |-> FALSE, twoEnable |-> two, twoInvert |-> two, mask |-> mask]

EveryLayer == {"BG1", "BG2", "BG3", "BG4", "OBJ"}

PixelSetup(mode, raised, extbg, fixed, subtract, halve, addSub) ==
  [mode |-> mode, raised |-> raised, extbg |-> extbg, x |-> 1,
   one |-> [left |-> 0, right |-> 1], two |-> [left |-> 2, right |-> 1],
   window |-> Selection(FALSE, FALSE, "or"), colorWindow |-> Selection(TRUE, FALSE, "or"),
   tm |-> EveryLayer, ts |-> {"BG1", "OBJ", "BG3"}, tmw |-> {}, tsw |-> {},
   aboveMask |-> "always", belowMask |-> "inside", math |-> {"BG1", "BG3", "OBJ2", "COL"},
   fixed |-> fixed, subtract |-> subtract, halve |-> halve, addSub |-> addSub]

Corners == {0, 1, 16, 31}
FixedColors == {r + 32 * g + 1024 * b : r \in Corners, g \in Corners, b \in Corners}

PixelSetups ==
  {PixelSetup(mode, FALSE, FALSE, 0, FALSE, FALSE, TRUE) : mode \in 0 .. 7}
  \cup {PixelSetup(1, TRUE, FALSE, 0, FALSE, TRUE, TRUE), PixelSetup(7, FALSE, TRUE, 0, TRUE, FALSE, TRUE)}
  \cup {[PixelSetup(6, FALSE, FALSE, f, s, h, FALSE) EXCEPT !.ts = {}] :
          f \in FixedColors, s \in BOOLEAN, h \in BOOLEAN}
  \cup {[PixelSetup(1, TRUE, FALSE, 0, FALSE, FALSE, TRUE) EXCEPT
           !.window = Selection(one, two, mask), !.colorWindow = Selection(two, one, mask),
           !.tmw = {"BG3", "OBJ"}, !.tsw = {"BG1"}, !.aboveMask = "outside"] :
          one \in BOOLEAN, two \in BOOLEAN, mask \in {"or", "and", "xor", "xnor"}}

LayerColors ==
  [BG1 |-> 32767, BG2 |-> 31, BG3 |-> 16912, BG4 |-> 1057, OBJ1 |-> 992, OBJ2 |-> 21140,
   COL |-> 10570]

PlotProgram == {"plot", "readPixel"}

GsuClasses ==
  {{"store", "load", "ramBank", "stop"},
   {"romByte", "multiply", "plain", "storeByte", "loadByte"}, PlotProgram}

\* The blends' operators on channels are the code's on bits.
ASSUME ChannelsAreBits ==
  \A x, y \in FixedColors :
    LET sum == x + y
        carry == (sum - ((x ^^ y) & 1057)) & Carries
        diff == x - y + Carries
        borrow == (diff - ((x ^^ y) & Carries)) & Carries
        difference == (diff - borrow) & (borrow - (borrow \div 32))
    IN  /\ BlendSum(x, y) = (sum - carry) | (carry - (carry \div 32))
        /\ BlendAverage(x, y) = (sum - ((x ^^ y) & 1057)) \div 2
        /\ BlendDifference(x, y) = difference
        /\ Halved(difference) = (difference & 31710) \div 2

-----------------------------------------------------------------------------
\* What a part does not use rests.
RasterRests ==
  /\ ports = {} /\ io = 0 /\ rasterLatch = 0 /\ rasterLine = 0 /\ rasterDot = 0
  /\ lineCounted = FALSE /\ rasterFired = FALSE /\ lines = 0 /\ lineStart = 0 /\ lineCount = 0
  /\ events = 0 /\ writes = 0 /\ shown = 0 /\ wrong = {} /\ ragged = {}

ObjectsRest ==
  /\ objects = 0 /\ objectSize = 0 /\ interlace = FALSE /\ firstObject = 0 /\ objectLine = 0
  /\ rangeOver = FALSE /\ timeOver = FALSE
  /\ truncated = [objects |-> FALSE, tiles |-> FALSE]

UnitsInit ==
  /\ part \in {"memory", "mix", "superfx", "spc700", "alu", "voices", "echo", "raster", "objects",
              "pixel"}
  /\ Init /\ (part # "memory" => program = {"writeThrough"} /\ ~blank)
  /\ IF part = "raster" THEN RasterInit ELSE RasterRests
  /\ IF part = "objects" THEN ObjectsInit ELSE ObjectsRest
  /\ MixInit /\ (part # "mix" => attached)
  /\ EchoInit /\ SpcInit
  /\ PixelInit /\ (part # "pixel" => setup = PixelSetup(0, FALSE, FALSE, 0, FALSE, FALSE, TRUE))
  /\ GsuInit /\ (part # "superfx" => gsuProgram = PlotProgram /\ r14 = 0)
  /\ AluInit /\ (part # "alu" => xReg = 0)
  /\ VoicesInit

UnitsNext ==
  \/ /\ part = "memory" /\ Next
     /\ UNCHANGED <<part, rasterVars, objectVars, pixelVars, soundVars, gsuVars>>
  \/ /\ part = "raster" /\ RasterNext
     /\ UNCHANGED <<part, vars, objectVars, pixelVars, soundVars, gsuVars>>
  \/ /\ part = "objects" /\ ObjectsNext
     /\ UNCHANGED <<part, vars, rasterVars, pixelVars, soundVars, gsuVars>>
  \/ /\ part = "pixel" /\ PixelNext
     /\ UNCHANGED <<part, vars, rasterVars, objectVars, soundVars, gsuVars>>
  \/ part = "mix" /\ MixNext /\ UNCHANGED <<part, pictureVars, dspVars, spc700Vars, gsuVars>>
  \/ /\ part = "echo" /\ EchoNext
     /\ UNCHANGED <<part, pictureVars, mixVars, voicesVars, spc700Vars, gsuVars>>
  \/ /\ part = "voices" /\ VoicesNext
     /\ UNCHANGED <<part, pictureVars, mixVars, echoVars, spc700Vars, gsuVars>>
  \/ /\ part = "spc700" /\ SpcNext
     /\ UNCHANGED <<part, pictureVars, mixVars, dspVars, aluVars, gsuVars>>
  \/ /\ part = "alu" /\ AluNext
     /\ UNCHANGED <<part, pictureVars, mixVars, dspVars, spcVars, gsuVars>>
  \/ part = "superfx" /\ GsuNext /\ UNCHANGED <<part, pictureVars, soundVars>>

UnitsSpec == UnitsInit /\ [][UnitsNext]_unitVars

=============================================================================
