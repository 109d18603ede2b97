----------------------------- MODULE PpuObjects -----------------------------
(***************************************************************************)
(* The objects of a line, found twice: UpdateObjectOverflow (core/src/ppu/ *)
(* Ppu.cpp) finds them at the line's start for the two overflow flags of   *)
(* $213E, and RenderObjects (PpuRender.cpp) again at VBlank, from the      *)
(* line's copy of OAM, to draw them.  The loops over the objects, and over *)
(* the tiles of an object, are sets: a loop's counter is the number of the *)
(* members before.  Coordinates are scaled: a tile is Tile dots, the       *)
(* screen ScreenDots dots of a space twice as wide, and a line a number    *)
(* below LineSpace.  The rows of an object are alike.                      *)
(***************************************************************************)
EXTENDS Integers, FiniteSets

CONSTANTS
  Tile, ScreenDots,     \* 8 and 256
  LineSpace,            \* 256
  ObjectsVDisp,         \* the first line of VBlank
  ItemLimit, TileLimit, \* 32 and 34
  Count,                \* objects of OAM, 128
  OamObjects,           \* the objects OAM is filled with: x, y, large, hflip, and opaque columns
  ObjectSizes           \* the sizes OBSEL selects: small and large width and height, quirk (base 6, 7)

\* What the constants are to satisfy.
ASSUME PpuObjectsAssumption ==
  /\ {Tile, ScreenDots, LineSpace, ObjectsVDisp, ItemLimit, TileLimit, Count} \subseteq Nat \ {0}
  /\ ObjectsVDisp <= LineSpace
  /\ \A o \in OamObjects : /\ o.x \in 0 .. (2 * ScreenDots) - 1 /\ o.y \in 0 .. LineSpace - 1
                          /\ o.large \in BOOLEAN /\ o.hflip \in BOOLEAN
  /\ \A s \in ObjectSizes : \A w \in {s.small.w, s.large.w} :
       w \in 1 .. 2 * ScreenDots /\ w % Tile = 0

VARIABLES
  objects,    \* OAM, as ParseOam lays it out
  objectSize, interlace, firstObject, \* io_.obj
  objectLine, \* currentLine_
  rangeOver, timeOver,
  truncated   \* history: the lines of this frame whose drawing leaves objects or tiles out

registers == <<objects, objectSize, interlace, firstObject>>
objectVars == <<registers, objectLine, rangeOver, timeOver, truncated>>

Space == 2 * ScreenDots

ObjectWidth(o) == IF o.large THEN objectSize.large.w ELSE objectSize.small.w

Height(o) == IF o.large THEN objectSize.large.h
             ELSE IF interlace /\ objectSize.quirk THEN objectSize.quirkHeight ELSE objectSize.small.h

\* The object evaluated n-th, from the first object on.
Nth(n) == objects[((firstObject + n) % Count) + 1]

OffScreen(o) == o.x > ScreenDots /\ o.x + ObjectWidth(o) - 1 < Space

LinesOf(o) == IF interlace THEN Height(o) \div 2 ELSE Height(o)

OnLine(o, y) == \/ y >= o.y /\ y < o.y + LinesOf(o)
                \/ o.y + LinesOf(o) >= LineSpace /\ y < (o.y + LinesOf(o)) % LineSpace

TileAt(o, t) == (o.x + (t * Tile)) % Space

\* A tile left of the screen or right of it, except for an object that starts at its edge.
Hidden(o, t) == o.x # ScreenDots /\ TileAt(o, t) >= ScreenDots /\ TileAt(o, t) + Tile - 1 < Space

TileSet(o) == 0 .. (ObjectWidth(o) \div Tile) - 1

------------------------------------------------------------------------------
(* $213E: what UpdateObjectOverflow counts. *)

\* The places of the objects on the line, and the first of them, up to the limit.
InRange(y) == {n \in 0 .. Count - 1 : ~OffScreen(Nth(n)) /\ OnLine(Nth(n), y)}

UpToLimit(found) == {n \in found : Cardinality({m \in found : m < n}) < ItemLimit}

\* Mutant: the tiles off the screen are counted.
CountedEvery(o) == TileSet(o)

Counted(o) == {t \in TileSet(o) : ~Hidden(o, t)}

RangeOver(y) == Cardinality(InRange(y)) > ItemLimit

\* The tiles of the first ItemLimit objects.
TimeOver(y) ==
  LET counted == {p \in UpToLimit(InRange(y)) \X (0 .. Space - 1) : p[2] \in Counted(Nth(p[1]))}
  IN  Cardinality(counted) > TileLimit

------------------------------------------------------------------------------
(* The picture: what RenderObjects draws. *)

\* Phase 1: the objects on the line and the items taken of them.
Drawable(y) == {n \in 0 .. Count - 1 : ~OffScreen(Nth(n)) /\ OnLine(Nth(n), y)}

Items(y) == UpToLimit(Drawable(y))

\* Phase 2: the tiles, each an item's place and a column, from the last item to the first,
\* until no room is left.
Tiles(y) ==
  {p \in Items(y) \X (0 .. Space - 1) : p[2] \in TileSet(Nth(p[1])) /\ ~Hidden(Nth(p[1]), p[2])}

FetchedBefore(p, q) == p[1] > q[1] \/ (p[1] = q[1] /\ p[2] < q[2])

Fetched(y) ==
  LET tiles == Tiles(y)
  IN  {p \in tiles : Cardinality({q \in tiles : FetchedBefore(q, p)}) < TileLimit}

\* The column of the object's pattern a tile shows at one of its dots.
Column(p, px) ==
  LET o == Nth(p[1])
      across == ObjectWidth(o) \div Tile
  IN  IF o.hflip THEN ((across - 1 - p[2]) * Tile) + (Tile - 1 - px) ELSE (p[2] * Tile) + px

NoObject == -1

\* Phase 3: each tile writes its opaque dots over the tiles before it.
Covers(p, x) ==
  LET px == (x - TileAt(Nth(p[1]), p[2])) % Space
  IN  px < Tile /\ Column(p, px) \in Nth(p[1]).opaque

Pixel(fetched, x) ==
  LET drawn == {p \in fetched : Covers(p, x)}
  IN  IF drawn = {} THEN NoObject
      ELSE (CHOOSE p \in drawn : \A q \in drawn : ~FetchedBefore(p, q))[1]

------------------------------------------------------------------------------
\* SetCurrentLine and ScanlineBegin: UpdateObjectOverflow on a visible line.
NextObjectLine ==
  /\ objectLine < ObjectsVDisp
  /\ objectLine' = objectLine + 1
  /\ rangeOver' = (rangeOver \/ (objectLine' < ObjectsVDisp /\ RangeOver(objectLine')))
  /\ timeOver' = (timeOver \/ (objectLine' < ObjectsVDisp /\ TimeOver(objectLine')))
  /\ truncated' = IF objectLine' = ObjectsVDisp THEN truncated
                  ELSE [objects |-> truncated.objects \/ Items(objectLine') # Drawable(objectLine'),
                        tiles   |-> truncated.tiles \/ Fetched(objectLine') # Tiles(objectLine')]
  /\ UNCHANGED registers

\* FrameBegin, after OAM and OBSEL were written in VBlank.
ObjectsFrameBegin ==
  /\ objectLine = ObjectsVDisp /\ objectLine' = 0
  /\ rangeOver' = FALSE /\ timeOver' = FALSE
  /\ truncated' = [objects |-> FALSE, tiles |-> FALSE]
  /\ firstObject' = (firstObject + 1) % Count
  /\ UNCHANGED <<objects, objectSize, interlace>>

ObjectsInit ==
  /\ objects \in [1 .. Count -> OamObjects]
  /\ objectSize \in ObjectSizes /\ interlace \in BOOLEAN /\ firstObject = 0
  /\ objectLine = 0
  /\ rangeOver = FALSE /\ timeOver = FALSE
  /\ truncated = [objects |-> FALSE, tiles |-> FALSE]

ObjectsNext == NextObjectLine \/ ObjectsFrameBegin

ObjectsSpec == ObjectsInit /\ [][ObjectsNext]_objectVars

OverflowIsTruncation == rangeOver = truncated.objects /\ timeOver = truncated.tiles

\* The dots of an object: its pattern, mirrored or not, from its x on around the space.
PatternShows(n, x) ==
  LET o == Nth(n)
      across == (x - o.x) % Space
  IN  across < ObjectWidth(o) /\ (IF o.hflip THEN ObjectWidth(o) - 1 - across ELSE across) \in o.opaque

Here(fetched, x) ==
  {n \in 0 .. Count - 1 :
     PatternShows(n, x) /\ <<n, ((x - Nth(n).x) % Space) \div Tile>> \in fetched}

FirstObjectInFront ==
  objectLine \in 1 .. ObjectsVDisp - 1 =>
    LET fetched == Fetched(objectLine)
    IN  \A x \in 0 .. ScreenDots - 1 :
          LET here == Here(fetched, x)
          IN  Pixel(fetched, x) =
                IF here = {} THEN NoObject ELSE CHOOSE n \in here : \A m \in here : n <= m

\* $213E says of a frame that objects or tiles were left out exactly when the drawing of one
\* of its lines leaves objects or tiles out.  And every dot shows the first object, in the
\* order of the evaluation, that has a fetched tile and an opaque column there.
ObjectsExact == OverflowIsTruncation /\ FirstObjectInFront
=============================================================================
