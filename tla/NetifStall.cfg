SPECIFICATION Spec
CONSTANTS
  Capacity = 1
  MemFlits = 3
  Sizes = {0, 1}
  PacketMod = 1
  Areas = {"here"}
  ProgSizes = {1, 3}
INVARIANT
  StallCoversCopies
