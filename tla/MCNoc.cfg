SPECIFICATION FairSpec
CONSTANTS
  Width = 2
  Height = 2
  Capacity = 1
  Traffic <- ToOneCorner
  Payload = 17
INVARIANTS
  TypeOK
  TurnsXY
PROPERTIES
  ChannelsSpec
  AllDelivered
