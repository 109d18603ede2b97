SPECIFICATION ServingSpec
CONSTANTS
  Files <- SaveFileNames
  Versions = {0, 1}
  Enables <- SomeEnables
  Lengths = {0, 1, 2}
  Tracks = {0, 1, 2}
  Missing = {3}
  Frames <- TrackFrames
  LoopField <- TrackLoops
  SampleRate = 5
  OutputRate = 3
  CacheUnits = 2
INVARIANTS SavesExact PlaybackExact
PROPERTIES NmiOncePerCause RequestsEndWaits PicturesFlow
CHECK_DEADLOCK FALSE
