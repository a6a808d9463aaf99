SPECIFICATION FairSpec
CONSTANTS
    Capacity = 1
    SocketCapacity = 1
    BufferFlits = 3
    PacketMod = 3
    Packets <- MCPackets
INVARIANTS TypeOK DatagramHeld EndpointsWhole
PROPERTIES InboundInOrder OutboundWhole DatagramsForwarded SimulationEnds
CHECK_DEADLOCK FALSE
