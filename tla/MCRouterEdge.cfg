SPECIFICATION Spec
CONSTANTS
  X = 1
  Y = 1
  Capacity = 2
  Connected <- NoEastNeighbour
  Packets <- OffTheMesh
  Payload = 33
INVARIANTS
  NullNeverReached
CHECK_DEADLOCK FALSE
