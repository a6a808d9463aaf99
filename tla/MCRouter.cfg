SPECIFICATION FairSpec
CONSTANTS
  X = 1
  Y = 1
  Capacity = 1
  Connected <- NoNorthNeighbour
  Packets <- Contention
  Payload = 33
INVARIANTS
  TypeOK
  CrossbarExclusive
  CounterTracksPacket
PROPERTIES
  OutputLinksFramed
  PacketsComplete
  OutputServed
CHECK_DEADLOCK FALSE
