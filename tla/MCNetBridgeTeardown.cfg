SPECIFICATION Spec
CONSTANTS
    Capacity = 1
    SocketCapacity = 1
    BufferFlits = 3
    PacketMod = 3
    Packets <- MCPackets
INVARIANTS NoUseAfterDelete
CHECK_DEADLOCK FALSE
