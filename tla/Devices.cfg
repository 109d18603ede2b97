SPECIFICATION DevicesSpec
CONSTANTS
  Bits = 3
  Packets <- SomePackets
  Phases <- Corners
  Ticks = 12
  Width = 2
  Factors <- SomeFactors
  Dividends <- SomeDividends
  Size <- TransferSizes
  Settings <- DmaSettings
  TransferLengths = {0, 2}
  Budgets = {3}
  InstructionClocks = {4}
  Tiles = {0}
  Rows = 2
  Blocks = {0, 1}
  Receivers = {0}
  Channels = {1, 2}
  Sequences = 2
  PacketBytes = 2
  ClockBytes = 2
  AssetLengths = {1, 3}
  Geometries <- TimerGeometries
  Batches = {2, 4, 10, 30}
  HTargets = {0, 1, 2}
  VTargets = {0, 1, 2}
INVARIANTS PollDelivers PollsOnce ExactResult DmaExact FlashesAgree StreamsCurrent
PROPERTIES TimerOnEntry
CHECK_DEADLOCK FALSE
