SPECIFICATION Spec
CONSTANTS
  LineClocks = 44
  OddLine = 3
  OddClocks = 40
  OddInterlace = FALSE
  FieldLines = 4
  CaptureLine = 1
  SetupBase = 4
  RenderPos = 14
  HdmaPos = 30
  RefreshBase = 16
  JoyClocks = 16
  RefreshClocks = 6
  Batches = {5, 6, 8}
  VDisps = {2, 3}
PROPERTIES LineEvents BatchesDoNotMatter AdvanceReturns
