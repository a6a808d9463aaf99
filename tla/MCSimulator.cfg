SPECIFICATION FairSpec
CONSTANTS
  Models <- Tile
  First <- TileFirst
  Costs <- TileCosts
  EpochLength = 5
  EpochsToSim = 0
  EpochsMod = 4
  MaxCost = 3
INVARIANTS
  TypeOK
  BoundedTimes
PROPERTIES
  EveryModelRuns
  InterruptEnds
  ClockSpec
CHECK_DEADLOCK FALSE
