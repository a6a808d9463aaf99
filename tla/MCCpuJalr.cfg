SPECIFICATION Spec
CONSTANTS
    ByteBits = 2
    Registers = 6
    CodeBase = 64
    DataBase = 144
    Last = 178
    Layout <- MCLayout
    Ports <- MCPorts
    CounterMod = 16
    Compare2Mod = 8
    CounterBit = 3
    CounterBit2 = 2
    IrqNoc = 7
    UartBits = {6}
    MaskBits = 8
    CountMod = 2
    Garbage = {1}
    HostWords = {0, 130}
    TileId = 6
    Images <- CallImages
PROPERTIES JumpsToRegister
CHECK_DEADLOCK FALSE
