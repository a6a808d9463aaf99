SPECIFICATION DFairSpec
CONSTANTS
  Capacity = 1
  MemFlits = 3
  Sizes = {0, 1}
  PacketMod = 2
  Areas = {"tx", "rx"}
  ProgSizes = {}
INVARIANTS
  StallCoversCopies
  ReceivedWhole
PROPERTIES
  SentOnce
  SendCompletes
  ReceiveCompletes
  StallEnds
