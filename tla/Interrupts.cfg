SPECIFICATION Spec
CONSTANTS
  NumLines = 3
  Period <- EvenLines
  VDisp = 2
  Modes <- MixedModes
  Targets <- OneTarget
  CycleTicks = {3}
INVARIANTS FlagsAgree RequestsFaithful
PROPERTIES InnerTargetExact RequestsServed
