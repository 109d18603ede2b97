SPECIFICATION Spec
CONSTANTS
  RepeatBit = 4
  NumChannels = 2
  Lines = 4
  MaxWrites = 2
  Bus <- TablesBus
  Setups <- SomeSetups
  Masks <- AllMasks
  Pokes <- SomePokes
  ControlPokes <- SomeControlPokes
INVARIANTS ByteAccounting TableWalk
PROPERTIES CutIsFinal AllServed
