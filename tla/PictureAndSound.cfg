SPECIFICATION UnitsSpec
CONSTANTS
  Words = 2
  Objects = 2
  Colors = 2
  VDisp = 3
  Programs <- MemoryPrograms
  Dots = 3
  RenderDot = 1
  RasterVDisp = 3
  PortSets <- RasterPorts
  MosaicSizes = {1, 2}
  MaxWrites = 2
  Tile = 2
  ScreenDots = 4
  LineSpace = 16
  ObjectsVDisp = 4
  ItemLimit = 2
  TileLimit = 2
  Count = 3
  OamObjects <- SomeObjects
  ObjectSizes <- SomeSizes
  MaxAccesses = 1
  BufSamples = 3
  PhaseSamples = 1
  MaxSamples = 8
  Pages = {0}
  PageFrames = 1
  Delays = {0, 1, 2}
  DelayFrames = 1
  Setups <- PixelSetups
  LayerColor <- LayerColors
  GsuPrograms <- GsuClasses
  RomAddresses = {0, 1}
  PixelRows = {0, 1}
  Lanes = {0, 1}
  CoreCost = 1
  ByteSize = 3
  BitSpace = 4
  MemoryCost = 1
  LineCost = 2
  Digit = 4
  Decimal = 3
  ByteData = {0, 5, 10, 15}
  WordData = {1, 255}
  Divisors = {0, 5}
  Watched = {3}
INVARIANTS EchoExact AudioComplete PictureExact LineMemoryExact ObjectsExact PixelExact MemoryInOrder
PROPERTIES AccessesPair ArithmeticExact VoicesExact
CHECK_DEADLOCK FALSE
