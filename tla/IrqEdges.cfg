SPECIFICATION ControllerSpec
CONSTANTS
  NumLines = 4
  Period <- ShortLine
  VDisp = 2
  Modes <- SomeModes
  Targets <- EdgeTargets
PROPERTIES AssertsOnTarget
