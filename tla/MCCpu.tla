------------------------------- MODULE MCCpu -------------------------------
(***************************************************************************)
(* Cpu with words of eight bits (ByteBits = 2) and programs of three       *)
(* kinds: two that take interrupts for ever, one for each operation and    *)
(* each pair of operands at the edges of a word, and one for each access   *)
(* to an address of each kind.                                             *)
(*                                                                         *)
(* The memory map has the order of Tile.h, closed up: 20 instructions, 8   *)
(* bytes of data, the wires, the id, the counters.  The wires and most of  *)
(* the counters are one byte wide, for they hold small numbers here; the   *)
(* id and the host time are words.  The last word of the memory misses its *)
(* last byte, as with MEM0_SIZE = 0x41FFFF.                                *)
(***************************************************************************)
EXTENDS Cpu

Mmio == DataBase + 8
At(offset, size) == [at |-> Mmio + offset, size |-> size]
MCLayout ==
    [stall |-> At(0, 1), intr |-> At(1, 1), send_status |-> At(2, 1),
     recv_status |-> At(3, 1), prog_send |-> At(4, 1), prog_recv |-> At(5, 1),
     prog_addr |-> At(6, 1), prog_size |-> At(7, 1), id |-> At(8, 4),
     iarith |-> At(12, 1), ilogical |-> At(13, 1), ishift |-> At(14, 1),
     ibranches |-> At(15, 1), ijumps |-> At(16, 1), iloadstore |-> At(17, 1),
     cycles_total |-> At(18, 1), cycles_stall |-> At(19, 1), hosttime |-> At(20, 4)]

MCPorts ==
    [EXIT_TRAP |-> 224, IRQ_VECTOR |-> 240, IRQ_CAUSE |-> 241, IRQ_MASK |-> 242,
     IRQ_STATUS |-> 243, IRQ_EPC |-> 244, COUNTER |-> 245, COMPARE |-> 246,
     COMPARE2 |-> 247, DEBUG |-> 253, UART |-> 254, UART_DIVISOR |-> 255]

-----------------------------------------------------------------------------
RR(op, rd, rs1, rs2) == [op |-> op, rd |-> rd, rs1 |-> rs1, rs2 |-> rs2, imm |-> 0]
RI(op, rd, rs1, imm) == [op |-> op, rd |-> rd, rs1 |-> rs1, rs2 |-> None,
                         imm |-> Wrap(imm)]
RS(op, rs2, imm, rs1) == [op |-> op, rd |-> 0, rs1 |-> rs1, rs2 |-> rs2,
                          imm |-> Wrap(imm)]
LI(rd, w) == RI("LUI", rd, 0, w)
Index(n) == CodeBase + 4 * n

Toggle == RI("XOR", 3, 3, 1)
Leave  == <<LI(5, 224), RS("SW", 0, 0, 5)>>

\* x1: the ports, x2: 1, x3: the work.  Interrupts are on, from the fourth
\* instruction of the loop on, until the store before its end.
Main(handler, bits) ==
    <<LI(1, 240), LI(2, handler), RS("SW", 2, 0, 1), LI(2, bits),
      RS("SW", 2, 2, 1), RI("ADD", 2, 0, 1),
      RS("SW", 2, 3, 1), Toggle, Toggle, Toggle, Toggle,
      RS("SW", 0, 3, 1), RI("JAL", 0, 0, -24)>>

\* Interrupts on, and back to the instruction that was interrupted: epc is the
\* one after it.
Return == <<RS("SW", 2, 3, 1), RI("LW", 5, 1, 4), RI("ADD", 5, 5, -4),
            RI("JALR", 0, 5, 0)>>

PacketImage ==
    Main(Index(13), 2 ^ IrqNoc)
    \o <<LI(4, MCLayout["prog_recv"].at), RS("SB", 2, 0, 4), RS("SB", 0, 0, 4)>>
    \o Return

TimerImage ==
    Main(Index(13), 2 ^ 4)
    \o <<RI("LW", 5, 1, 5), RI("ADD", 5, 5, 3), RS("SW", 5, 6, 1)>>
    \o Return

-----------------------------------------------------------------------------
Edges == {0, 1, 127, 128, 255}
Apply(a, b, inst) == <<LI(1, a), LI(2, b), inst>>

ArithmeticImages ==
    {Apply(a, b, RR(op, 3, 1, 2)) :
        a \in Edges, b \in Edges \cup {3}, op \in AluOps \cup MulOps \cup DivOps}
    \cup {Apply(a, 0, RI(op, 3, 1, b)) :
             a \in Edges, b \in Edges, op \in AluOps \ {"SUB"}}

BranchImages ==
    {Apply(a, b, [RR(op, 0, 1, 2) EXCEPT !.imm = 8]) :
        a \in {1, 127, 128}, b \in {1, 255}, op \in BranchOps}

\* In the data, at its last word, in the program, below it, at the host time,
\* at a port, at no port.
Places == {DataBase, DataBase + 3, Last - 2, CodeBase, CodeBase + 4, 8,
           MCLayout["hosttime"].at, 241, 247, 254, 230}

MemoryImages ==
    {<<LI(1, a), LI(2, DataBase), LI(3, 200), RS("SW", 3, 0, 2), RI(op, 4, 1, 0)>>
        : a \in Places, op \in Loads}
    \cup {Apply(a, 200, RS(op, 2, 0, 1)) : a \in Places, op \in Stores}

OtherImages ==
    {<<RI("AUIPC", 1, 0, 0), RI("JALR", 2, 1, 12), RR("ILLEGAL", 0, 0, 0)>>
        \o Leave,
     <<RR("ILLEGAL", 0, 0, 0)>>}

\* No packet comes where there is no network.
MCImages ==
    [p \in {"orca-dma", "single-core"} |->
        {TimerImage} \cup
        IF p = "orca-dma" THEN {PacketImage}
        ELSE ArithmeticImages \cup BranchImages \cup MemoryImages \cup OtherImages]

\* call: auipc ra, and jalr ra with its low part.
CallImages ==
    [p \in {"orca-dma", "single-core"} |->
        {<<RI("AUIPC", 1, 0, 0), RI("JALR", 1, 1, 12)>> \o Leave}]

=============================================================================
