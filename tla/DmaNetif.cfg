SPECIFICATION FairSpec
CONSTANTS
  Capacity = 1
  MemFlits = 3
  Sizes = {0, 1, 2}
  PacketMod = 1
  Areas = {"here"}
  ProgSizes = {0, 3, 4}
INVARIANTS
  TypeOK
  OnlyOversizeStrays
  HeadExpected
  PacketHeld
PROPERTIES
  CopiesEnd
CHECK_DEADLOCK FALSE
