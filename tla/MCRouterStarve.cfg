SPECIFICATION SaturatedSpec
CONSTANTS
  X = 1
  Y = 1
  Capacity = 2
  Connected <- AllPorts
  Packets <- TwoStreams
  Payload = 33
PROPERTIES
  PriorityServes
