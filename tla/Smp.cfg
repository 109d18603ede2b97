SPECIFICATION Spec
CONSTANTS
  Timers = {0}
  Frequency <- OneTimer
  TargetSize = 3
  OutSize = 2
  Targets = {0, 1}
  Ports = {0}
  Values = {0, 1}
  Clears = {{}, {0}}
  Tests <- SomeTests
  Batches = {1, 2}
INVARIANTS AccessTakesItsTicks CountsEdges
PROPERTIES PortReadHolds RunReturns
