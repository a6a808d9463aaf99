-------------------------------- MODULE Cpu --------------------------------
(***************************************************************************)
(* The processor of a tile (class THellfireProcessor) with its main memory *)
(* (UMemory) and the signals mapped into it (USignal): how the tile's      *)
(* constructor brings them up, and what the processor does in each cycle.  *)
(*                                                                         *)
(* Run is one action for each way a cycle can go.  All of them begin with  *)
(* the counter and the interrupt causes, and those that execute an         *)
(* instruction end with Retire and the count of its class.                 *)
(*                                                                         *)
(* A word has WordBits bits and its bytes a quarter of them; everything    *)
(* else about addresses, alignment, sign and carry is as in the code.  The *)
(* program is given as decoded instructions, in memory of its own from     *)
(* CodeBase on, and the data behind it byte by byte.                       *)
(***************************************************************************)
EXTENDS Isa, Sequences

CONSTANTS
    Registers,      \* how many there are (32)
    CodeBase,       \* MEM0_BASE
    DataBase, Last, \* the data bytes of main memory
    Layout,         \* where each signal is mapped, and its size in bytes
    Ports,          \* the addresses of the registers outside of the memory
    CounterMod,     \* the counter and its comparators wrap at this (2^32)
    Compare2Mod,    \* the part of them COMPARE2 looks at (2^24)
    CounterBit, CounterBit2,    \* bits 18 and 16 of the counter
    IrqNoc,         \* the cause bit of the network interface (8)
    UartBits,       \* the cause bits that always read as set (6 and 7)
    MaskBits,       \* the cause bits a store to a comparator may keep (16)
    CountMod,       \* the counters of instructions wrap at this (2^32)
    Garbage,        \* what uninitialised storage may hold
    HostWords,      \* what the host's clock and its terminal may give
    TileId,
    Images          \* the programs of each platform

VARIABLES
    platform,       \* "orca-dma" or "single-core"
    phase,          \* how far main has come
    image, halted,  \* the program; how the processor ended
    r, pc, pcNext,
    vector, cause, mask, status, statusDly, epc, counter, compare, compare2,
    ram,            \* _mem, from DataBase on
    mapped, storage,\* the signals that are mapped; _t_storage of each
    netif,          \* what the network interface is at
    quiet,          \* history: instructions to go until interrupts are on
    resume          \* history: the instruction an interrupt came before

bootVars == <<platform, phase, image>>
coreVars == <<r, pc, pcNext, vector, cause, mask, status, statusDly, epc,
              counter, compare, compare2>>
signalVars == <<mapped, storage>>
vars == <<bootVars, halted, coreVars, ram, signalVars, netif, quiet, resume>>

Never == 4          \* quiet while nothing has turned interrupts on
None  == -1

DataBytes == DataBase .. Last
Counters == {"iarith", "ilogical", "ishift", "ibranches", "ijumps",
             "iloadstore", "cycles_total", "cycles_stall", "hosttime"}
Wires(p) ==
    IF p = "orca-dma"
    THEN {"stall", "intr", "send_status", "recv_status", "prog_send",
          "prog_recv", "prog_addr", "prog_size"}
    ELSE {"stall", "intr"}
Ids(p) == IF p = "orca-dma" THEN {"id"} ELSE {}

Span(s) == Layout[s].at .. Layout[s].at + Layout[s].size - 1
Holds(s) == 0 .. 2 ^ (ByteBits * Layout[s].size) - 1

ASSUME RegistersAssumption == Registers \in Nat \ {0}
ASSUME AddressAssumption ==
    /\ CodeBase \in Nat /\ CodeBase + 4 \in Word
    /\ DataBase \in Nat /\ Last \in Int /\ TileId \in Nat
ASSUME LayoutAssumption ==
    /\ DOMAIN Layout = Wires("orca-dma") \cup Ids("orca-dma") \cup Counters
    /\ \A s \in DOMAIN Layout :
          /\ Layout[s].at \in Nat /\ Layout[s].size \in {1, 2, 4}
          /\ Span(s) \subseteq DataBytes
          /\ Garbage \subseteq Holds(s)
    /\ \A s, t \in DOMAIN Layout : s # t => Span(s) \cap Span(t) = {}
    /\ TileId \in Holds("id") /\ Layout["hosttime"].size = 4
ASSUME InterruptAssumption ==
    /\ CounterMod \in Nat \ {0} /\ Compare2Mod \in Nat \ {0} /\ CountMod \in Nat \ {0}
    /\ {0, 1, 2, 3, 4, 5, IrqNoc} \cup UartBits \subseteq Positions
    /\ MaskBits \in Nat
ASSUME HostAssumption == HostWords \subseteq Word

-----------------------------------------------------------------------------
(***************************************************************************)
(* UMemory::Read and Write, least significant byte first, and a signal,    *)
(* whose value is in its own storage until MapTo gives it one in memory.   *)
(***************************************************************************)
LoadBytes(m, a, n) ==
    CASE n = 1 -> m[a]
      [] n = 2 -> m[a] + ByteMod * m[a + 1]
      [] n = 4 -> m[a] + ByteMod * (m[a + 1] + ByteMod * (m[a + 2] + ByteMod * m[a + 3]))

Byte(w, k) == (w \div 2 ^ (ByteBits * k)) % ByteMod

StoreBytes(m, a, n, w) ==
    [b \in DOMAIN m |-> IF b \in a .. a + n - 1 THEN Byte(w, b - a) ELSE m[b]]

ReadSignal(s) ==
    IF s \in mapped THEN LoadBytes(ram, Layout[s].at, Layout[s].size)
    ELSE storage[s]

WriteSignal(m, s, w) == StoreBytes(m, Layout[s].at, Layout[s].size, w)
Inc(m, s) ==
    WriteSignal(m, s, (LoadBytes(m, Layout[s].at, Layout[s].size) + 1) % CountMod)

\* MapTo without its second argument loses the value the signal had.
MutMapTo(signals) == UNCHANGED ram
MapTo(signals) ==
    ram' = [b \in DOMAIN ram |->
               IF \E s \in signals : b \in Span(s)
               THEN LET s == CHOOSE s \in signals : b \in Span(s)
                    IN  Byte(storage[s], b - Layout[s].at)
               ELSE ram[b]]

-----------------------------------------------------------------------------
(***************************************************************************)
(* From main to the first cycle: the constructor of the tile, then         *)
(* LoadBin.  The memory is wiped, the processor zeroed and pointed to the  *)
(* start of the memory; the signals are not initialised.                   *)
(***************************************************************************)
Init ==
    /\ platform \in {"orca-dma", "single-core"}
    /\ phase = "create_wires" /\ image = << >> /\ halted = "no"
    /\ r = [i \in 0 .. Registers - 1 |-> 0]
    /\ pc = CodeBase /\ pcNext = CodeBase + 4
    /\ vector = 0 /\ cause = {} /\ mask = {} /\ epc = 0
    /\ status = 0 /\ statusDly = [i \in 0 .. 3 |-> 0]
    /\ counter = 0 /\ compare = 0 /\ compare2 = 0
    /\ ram = [b \in DataBytes |-> 0]
    /\ mapped = {}
    /\ \E g \in Garbage : storage = [s \in DOMAIN Layout |-> g]
    /\ netif = "WAIT_ADDR_FLIT"
    /\ quiet = Never /\ resume = None

\* The tile's id is written before anything else, the wires when the processor
\* and the network interface have got them.
ResetWires ==
    /\ phase = "create_wires"
    /\ phase' = "map_wires"
    /\ storage' = [s \in DOMAIN storage |->
                      IF s \in Wires(platform) THEN 0
                      ELSE IF s \in Ids(platform) THEN TileId ELSE storage[s]]
    /\ UNCHANGED <<mapped, ram, image, halted>>

MapWires ==
    /\ phase = "map_wires"
    /\ phase' = "map_counters"
    /\ mapped' = Wires(platform) \cup Ids(platform)
    /\ MapTo(mapped')
    /\ UNCHANGED <<storage, image, halted>>

\* InitCounters creates the counters with whatever their storage holds.
MapCounters ==
    /\ phase = "map_counters"
    /\ phase' = "load"
    /\ mapped' = mapped \cup Counters
    /\ MapTo(Counters)
    /\ UNCHANGED <<storage, image, halted>>

\* Nothing catches what LoadBin throws when there is no such file.
LoadBin ==
    /\ phase = "load" /\ halted = "no"
    /\ \/ image' \in Images[platform] /\ phase' = "running" /\ UNCHANGED halted
       \/ halted' = "thrown" /\ UNCHANGED <<image, phase>>
    /\ UNCHANGED <<mapped, storage, ram>>

Boot ==
    /\ ResetWires \/ MapWires \/ MapCounters \/ LoadBin
    /\ UNCHANGED <<platform, coreVars, netif, quiet, resume>>

-----------------------------------------------------------------------------
(***************************************************************************)
(* The start of a cycle: the counter and the causes, and the interrupt.    *)
(***************************************************************************)
Running == phase = "running" /\ halted = "no"

NewCounter == (counter + 1) % CounterMod
CounterHas(bit) == (NewCounter \div 2 ^ bit) % 2 = 1

\* Bits 0 to 3 follow the counter and IrqNoc the wire; 4 and 5 stay until a
\* comparator is written.
Levels == {0, 1, 2, 3, IrqNoc}
NewCause ==
    (cause \ Levels)
    \cup (IF NewCounter % Compare2Mod = compare2 % Compare2Mod THEN {5} ELSE {})
    \cup (IF NewCounter = compare THEN {4} ELSE {})
    \cup (IF CounterHas(CounterBit2) THEN {2} ELSE {3})
    \cup (IF CounterHas(CounterBit) THEN {0} ELSE {1})
    \cup (IF ReadSignal("intr") = 1 THEN {IrqNoc} ELSE {})

Interrupted == status # 0 /\ NewCause \cap mask # {}

\* What the instruction of this cycle sees: pc, pc_next and status_dly.
Pc     == IF Interrupted THEN vector ELSE pc
PcNext == IF Interrupted THEN Wrap(vector + 4) ELSE pcNext
Dly    == IF Interrupted THEN [i \in 0 .. 3 |-> 0] ELSE statusDly
Quiet  == IF Interrupted THEN Never ELSE quiet

Stalled == ReadSignal("stall") = 1

Skip ==
    /\ Running /\ Stalled
    /\ counter' = NewCounter /\ cause' = NewCause
    /\ ram' = Inc(ram, "cycles_stall")
    /\ UNCHANGED <<r, pc, pcNext, vector, mask, status, statusDly, epc, compare,
                   compare2, halted, quiet, resume>>

\* The fields of the instruction at Pc.
InProgram(a) ==
    /\ a \in CodeBase .. CodeBase + 4 * Len(image) - 1
    /\ (a - CodeBase) % 4 = 0
Inst == image[((Pc - CodeBase) \div 4) + 1]

Executes(ops) ==
    /\ Running /\ ~Stalled
    /\ InProgram(Pc)
    /\ Inst.op \in ops

\* Register 0 is zeroed after the address of a load or a store is made from it.
X == [r EXCEPT ![0] = 0]
Operand1 == X[Inst.rs1]
Operand2 == X[Inst.rs2]
Address  == Wrap(r[Inst.rs1] + Inst.imm)

-----------------------------------------------------------------------------
(***************************************************************************)
(* The end of a cycle: status gets what was stored three instructions ago. *)
(***************************************************************************)
MutShift(dly) == [i \in 0 .. 3 |-> IF i < 2 THEN dly[i + 1] ELSE dly[i]]
Shift(dly) == [i \in 0 .. 3 |-> IF i < 3 THEN dly[i + 1] ELSE dly[i]]

Retire(target, dly) ==
    /\ pc' = target
    /\ pcNext' = Wrap(target + 4)
    /\ status' = dly[0]
    /\ statusDly' = Shift(dly)

\* UpdateCounters: the class of each instruction.
MutClassOf(op) ==
    CASE op \in {"LUI", "AUIPC", "JAL", "JALR"} -> "ijumps"
      [] op \in {"LB", "LH", "LW", "LBU", "LHU", "SB", "SH", "SW"} -> "iloadstore"
      [] op \in {"ADD", "SUB", "MUL"} -> "iarith"
      [] op \in {"XOR", "OR", "AND", "DIV", "REM", "REMU"} -> "ilogical"
      [] OTHER -> "hosttime"

\* The instructions of RV32M have the function codes of the others: DIV, REM
\* and REMU count as logical, the rest but MUL as shifts; so do SLT and SLTU.
ClassOf(op) ==
    CASE op \in {"LUI", "AUIPC", "JAL", "JALR"} -> "ijumps"
      [] op \in BranchOps -> "ibranches"
      [] op \in {"LB", "LH", "LW", "LBU", "LHU", "SB", "SH", "SW"} -> "iloadstore"
      [] op \in {"ADD", "SUB", "MUL"} -> "iarith"
      [] op \in {"XOR", "OR", "AND", "DIV", "REM", "REMU"} -> "ilogical"
      [] op \in {"SLL", "SRL", "SRA", "SLT", "SLTU", "MULH", "MULHSU", "MULHU",
                 "DIVU"} -> "ishift"

Total == Inc(ram, "cycles_total")
Counted(m) == Inc(m, ClassOf(Inst.op))

NewEpc == IF Interrupted THEN pcNext ELSE epc

\* What every cycle does to the interrupt registers, if no store is made to them.
Tick ==
    /\ counter' = NewCounter /\ cause' = NewCause /\ epc' = NewEpc
    /\ UNCHANGED <<vector, mask, compare, compare2>>

Resume ==
    resume' = IF Interrupted THEN pc
              ELSE IF Inst.op = "JALR" THEN None ELSE resume

Passed(q) == IF q \in {0, Never} THEN q ELSE q - 1

\* What an instruction does that touches nothing but a register and the pc.
Plain(rd, w, target) ==
    /\ r' = [X EXCEPT ![rd] = w]
    /\ Retire(target, Dly)
    /\ Tick /\ Resume
    /\ ram' = Counted(Total)
    /\ quiet' = Passed(Quiet)
    /\ UNCHANGED halted

\* An exception, or the end of the process, in the middle of an instruction.
Halt(how) ==
    /\ halted' = how
    /\ r' = X /\ pc' = Pc /\ pcNext' = PcNext
    /\ status' = (IF Interrupted THEN 0 ELSE status) /\ statusDly' = Dly
    /\ Tick
    /\ ram' = Total
    /\ quiet' = Quiet
    /\ UNCHANGED resume

-----------------------------------------------------------------------------
(***************************************************************************)
(* The instructions.                                                       *)
(***************************************************************************)
LoadUpper ==
    \/ Executes({"LUI"})   /\ Plain(Inst.rd, Inst.imm, PcNext)
    \/ Executes({"AUIPC"}) /\ Plain(Inst.rd, Wrap(Pc + Inst.imm), PcNext)

\* The target of JALR is made from the register after the link is in.
Linked == [X EXCEPT ![Inst.rd] = PcNext]
JumpTarget ==
    LET w == Wrap(Linked[Inst.rs1] + Inst.imm) IN w - (w % 2)

Jump ==
    \/ Executes({"JAL"})  /\ Plain(Inst.rd, PcNext, Wrap(Pc + Inst.imm))
    \/ Executes({"JALR"}) /\ Plain(Inst.rd, PcNext, JumpTarget)

Branch ==
    /\ Executes(BranchOps)
    /\ Plain(0, 0, IF Taken(Inst.op, Operand1, Operand2)
                   THEN Wrap(Pc + Inst.imm) ELSE PcNext)

\* An instruction of type I has an immediate where others have a register.
Operand == IF Inst.rs2 = None THEN Inst.imm ELSE Operand2

Arithmetic ==
    \/ /\ Executes(AluOps)
       /\ Plain(Inst.rd, Alu(Inst.op, Operand1, Operand), PcNext)
    \/ /\ Executes(MulOps \cup DivOps)
       /\ ~Traps(Inst.op, Operand1, Operand2)
       /\ Plain(Inst.rd, MulDiv(Inst.op, Operand1, Operand2), PcNext)

-----------------------------------------------------------------------------
(***************************************************************************)
(* mem_read and mem_write.  The memory ends where Last says, and nothing   *)
(* checks the end of an access.  What is undefined there, and what the     *)
(* model leaves out (a program that reads or writes itself), ends it.      *)
(***************************************************************************)
Loads  == {"LB", "LH", "LW", "LBU", "LHU"}
Stores == {"SB", "SH", "SW"}

Size(op) == CASE op \in {"LB", "LBU", "SB"} -> 1
              [] op \in {"LH", "LHU", "SH"} -> 2
              [] op \in {"LW", "SW"} -> 4

Aligned(a, n) == a % n = 0
InData(a, n)  == a \in DataBytes /\ a + n - 1 \in DataBytes

MutExtend(op, w) ==
    LET m == 2 ^ (ByteBits * Size(op))
        b == w % m
    IN  IF op \in {"LB", "LH"} /\ 2 * b >= m THEN b - m ELSE b

\* The low bytes of a word with the sign the instruction gives them.
Extend(op, w) ==
    LET m == 2 ^ (ByteBits * Size(op))
        b == w % m
    IN  IF op \in {"LB", "LH"} /\ 2 * b >= m THEN Wrap(b - m) ELSE b

PortAt(a) == CHOOSE p \in DOMAIN Ports : Ports[p] = a
IsPort(a, names) == \E p \in names : Ports[p] = a

ReadPorts == {"IRQ_VECTOR", "IRQ_CAUSE", "IRQ_MASK", "IRQ_STATUS", "IRQ_EPC",
              "COUNTER", "COMPARE", "COMPARE2", "UART", "UART_DIVISOR"}
ASSUME PortsAssumption ==
    /\ ReadPorts \subseteq DOMAIN Ports
    /\ \A p, q \in DOMAIN Ports : Ports[p] = Ports[q] => p = q

PortValues(p) ==
    CASE p = "IRQ_VECTOR" -> {vector}
      [] p = "IRQ_CAUSE"  -> {WordOf(NewCause \cup UartBits)}
      [] p = "IRQ_MASK"   -> {WordOf(mask)}
      [] p = "IRQ_STATUS" -> {IF Interrupted THEN 0 ELSE status}
      [] p = "IRQ_EPC"    -> {NewEpc}
      [] p = "COUNTER"    -> {NewCounter}
      [] p = "COMPARE"    -> {compare}
      [] p = "COMPARE2"   -> {compare2}
      [] p = "UART"       -> HostWords
      [] p = "UART_DIVISOR" -> {0}

\* Memory is read above its base only: at the base there is code.
Readable(a)  == CodeBase < a /\ a <= Last
Writeable(a) == a <= Last

LoadFrom(w) == Plain(Inst.rd, Extend(Inst.op, w), PcNext)

LoadData ==
    /\ Executes(Loads)
    /\ Readable(Address) /\ Aligned(Address, Size(Inst.op))
    /\ InData(Address, Size(Inst.op))
    /\ Address # Layout["hosttime"].at
    /\ LoadFrom(LoadBytes(Total, Address, Size(Inst.op)))

\* A load at the address of the host time puts the time there first.
LoadHostTime ==
    /\ Executes(Loads)
    /\ Address = Layout["hosttime"].at
    /\ \E t \in HostWords :
          LET m == WriteSignal(Total, "hosttime", t)
          IN  /\ r' = [X EXCEPT ![Inst.rd] =
                          Extend(Inst.op, LoadBytes(m, Address, Size(Inst.op)))]
              /\ ram' = Counted(m)
    /\ Retire(PcNext, Dly)
    /\ Tick /\ Resume
    /\ quiet' = Passed(Quiet)
    /\ UNCHANGED halted

LoadPort ==
    /\ Executes(Loads)
    /\ ~Readable(Address) /\ IsPort(Address, ReadPorts)
    /\ \E w \in PortValues(PortAt(Address)) : LoadFrom(w)

\* Stores leave the registers as they are.
Store(m) ==
    /\ r' = X
    /\ Resume
    /\ ram' = Counted(m)
    /\ UNCHANGED halted

StoreData ==
    /\ Executes(Stores)
    /\ Writeable(Address) /\ Aligned(Address, Size(Inst.op))
    /\ InData(Address, Size(Inst.op))
    /\ Store(StoreBytes(Total, Address, Size(Inst.op), Operand2))
    /\ Tick
    /\ Retire(PcNext, Dly)
    /\ quiet' = Passed(Quiet)

StoresTo(names) ==
    /\ Executes(Stores)
    /\ ~Writeable(Address) /\ IsPort(Address, names)
    /\ Store(Total)

MutStoreZero ==
    /\ StoresTo({"IRQ_STATUS"}) /\ Operand2 = 0
    /\ Tick
    /\ Retire(PcNext, Dly)
    /\ quiet' = Never

\* Zero turns the interrupts off, and cancels what was to turn them on.
StoreZero ==
    /\ StoresTo({"IRQ_STATUS"}) /\ Operand2 = 0
    /\ Tick
    /\ Retire(PcNext, [i \in 0 .. 3 |-> 0])
    /\ quiet' = Never

MutStoreStatus ==
    /\ StoresTo({"IRQ_STATUS"}) /\ Operand2 # 0
    /\ Tick
    /\ Retire(PcNext, [Dly EXCEPT ![1] = Operand2, ![2] = Operand2, ![3] = Operand2])
    /\ quiet' = IF Quiet = Never THEN 3 ELSE Passed(Quiet)

StoreStatus ==
    /\ StoresTo({"IRQ_STATUS"}) /\ Operand2 # 0
    /\ Tick
    /\ Retire(PcNext, [Dly EXCEPT ![3] = Operand2])
    /\ quiet' = IF Quiet = Never THEN 3 ELSE Passed(Quiet)

\* A store to a comparator withdraws its cause, whatever the value, and with it
\* every cause above the 16 bits of the masks 0xffef and 0xffdf.
Withdrawn(bit) == {i \in NewCause \ {bit} : i < MaskBits}

StorePort ==
    /\ StoresTo({"IRQ_VECTOR", "IRQ_CAUSE", "IRQ_MASK", "IRQ_EPC", "COUNTER",
                 "COMPARE", "COMPARE2", "DEBUG", "UART", "UART_DIVISOR"})
    /\ LET p == PortAt(Address)
       IN  /\ vector' = IF p = "IRQ_VECTOR" THEN Operand2 ELSE vector
           /\ epc' = IF p = "IRQ_EPC" THEN Operand2 ELSE NewEpc
           /\ counter' = IF p = "COUNTER" THEN Operand2 % CounterMod
                         ELSE NewCounter
           /\ mask' = IF p = "IRQ_MASK" THEN Bits(Operand2) ELSE mask
           /\ compare' = IF p = "COMPARE" THEN Operand2 % CounterMod ELSE compare
           /\ compare2' = IF p = "COMPARE2" THEN Operand2 % CounterMod
                          ELSE compare2
           /\ cause' = CASE p = "IRQ_CAUSE" -> Bits(Operand2)
                         [] p = "COMPARE"   -> Withdrawn(4)
                         [] p = "COMPARE2"  -> Withdrawn(5)
                         [] OTHER           -> NewCause
    /\ Retire(PcNext, Dly)
    /\ quiet' = Passed(Quiet)

\* EXIT_TRAP calls abort().
Exit ==
    /\ Executes(Stores)
    /\ ~Writeable(Address) /\ IsPort(Address, {"EXIT_TRAP"})
    /\ Halt("aborted")

-----------------------------------------------------------------------------
Known == AluOps \cup MulOps \cup DivOps \cup BranchOps \cup Loads \cup Stores
         \cup {"LUI", "AUIPC", "JAL", "JALR"}

\* What decoding gives: only some operations may have an immediate for rs2.
Instructions ==
    {i \in [op : Known \cup {"ILLEGAL"}, rd : 0 .. Registers - 1, rs1 : 0 .. Registers - 1,
            rs2 : 0 .. Registers - 1 \cup {None}, imm : Word] :
        i.rs2 = None => i.op \notin MulOps \cup DivOps \cup BranchOps \cup Stores}

ASSUME ImagesAssumption ==
    \A p \in {"orca-dma", "single-core"} : Images[p] \subseteq Seq(Instructions)

Unmapped(a, op) ==
    IF op \in Loads THEN ~Readable(a) /\ ~IsPort(a, ReadPorts)
    ELSE ~Writeable(a) /\ \A p \in DOMAIN Ports : Ports[p] # a

InMemory(a, op) == IF op \in Loads THEN Readable(a) ELSE Writeable(a)

\* An invalid opcode, and an access that mem_read or mem_write refuses.
Throw ==
    /\ \/ Executes({"ILLEGAL"})
       \/ /\ Executes(Loads \cup Stores)
          /\ \/ Unmapped(Address, Inst.op)
             \/ InMemory(Address, Inst.op) /\ ~Aligned(Address, Size(Inst.op))
    /\ Halt("thrown")

Trap ==
    /\ Executes(DivOps) /\ Traps(Inst.op, Operand1, Operand2)
    /\ Halt("trapped")

\* What the code leaves undefined, and what the model leaves out.
Undefined ==
    /\ \/ Running /\ ~Stalled /\ ~InProgram(Pc)
       \/ /\ Executes(Loads \cup Stores)
          /\ InMemory(Address, Inst.op) /\ Aligned(Address, Size(Inst.op))
          /\ ~InData(Address, Size(Inst.op))
    /\ Halt("undefined")

Instruction ==
    \/ LoadUpper \/ Jump \/ Branch \/ Arithmetic
    \/ LoadData \/ LoadHostTime \/ LoadPort
    \/ StoreData \/ StoreZero \/ StoreStatus \/ StorePort
    \/ Exit \/ Throw \/ Trap \/ Undefined

\* A stalled cycle, or an instruction.
Run ==
    /\ Skip \/ Instruction
    /\ UNCHANGED <<bootVars, signalVars, netif>>

-----------------------------------------------------------------------------
(***************************************************************************)
(* The receiving half of the network interface (module DmaNetif), as far   *)
(* as the processor sees it: it raises intr for a packet, stalls the       *)
(* processor while it copies, then lowers both and waits for prog_recv to  *)
(* be lowered.  It runs in every cycle, so that it has seen what the       *)
(* processor stored before the processor goes on.                          *)
(***************************************************************************)
Netif(from, to) ==
    /\ Running /\ platform = "orca-dma"
    /\ netif = from
    /\ netif' = to

RaiseIntr ==
    /\ Netif("WAIT_ADDR_FLIT", "WAIT_CONFIG_STALL")
    /\ ram' = WriteSignal(ram, "intr", 1)

Copying == netif = "WAIT_CONFIG_STALL" /\ ReadSignal("prog_recv") = 1

StartCopy ==
    /\ Netif("WAIT_CONFIG_STALL", "COPY_RELEASE") /\ Copying
    /\ ram' = WriteSignal(ram, "stall", 1)

EndCopy ==
    /\ Netif("COPY_RELEASE", "FLUSH")
    /\ ram' = WriteSignal(WriteSignal(ram, "intr", 0), "stall", 0)

Flushing == netif = "FLUSH" /\ ReadSignal("prog_recv") = 0

Flush ==
    /\ Netif("FLUSH", "WAIT_ADDR_FLIT") /\ Flushing
    /\ UNCHANGED ram

NetifStep ==
    /\ RaiseIntr \/ StartCopy \/ EndCopy \/ Flush
    /\ UNCHANGED <<bootVars, halted, coreVars, signalVars, quiet, resume>>

Cycle == ~Copying /\ ~Flushing /\ Run

Next == Boot \/ Cycle \/ NetifStep

Spec == Init /\ [][Next]_vars

(***************************************************************************)
(* The simulator goes on for ever, and the network interface ends a copy   *)
(* it has begun.  Nothing makes a packet arrive.                           *)
(***************************************************************************)
Fairness ==
    /\ WF_vars(Next)
    /\ WF_vars(NetifStep /\ netif = "COPY_RELEASE")

FairSpec == Spec /\ Fairness

-----------------------------------------------------------------------------
\* Every variable keeps its type: no operation leaves the width of a word, a
\* byte or the counter.
TypeOK ==
    /\ phase \in {"create_wires", "map_wires", "map_counters", "load", "running"}
    /\ halted \in {"no", "thrown", "aborted", "trapped", "undefined"}
    /\ r \in [0 .. Registers - 1 -> Word]
    /\ {pc, pcNext, vector, status, epc} \subseteq Word
    /\ statusDly \in [0 .. 3 -> Word]
    /\ cause \cup mask \subseteq 0 .. WordBits - 1
    /\ {counter, compare, compare2} \subseteq 0 .. CounterMod - 1
    /\ ram \in [DataBytes -> 0 .. ByteMod - 1]
    /\ mapped \subseteq DOMAIN Layout
    /\ quiet \in 0 .. Never /\ resume \in Word \cup {None}

\* Mapping a signal into the memory keeps its value, whatever else is mapped
\* there: before the program is loaded the wires are low, the tile's id is
\* right, and a counter holds what its storage was created with.
MappingKeeps ==
    phase = "load" =>
        /\ mapped = Wires(platform) \cup Ids(platform) \cup Counters
        /\ \A s \in Wires(platform) : ReadSignal(s) = 0
        /\ \A s \in Ids(platform) : ReadSignal(s) = TileId
        /\ \A s \in Counters : ReadSignal(s) = storage[s]

Takes == Cycle /\ ~Stalled /\ Interrupted

\* An interrupt comes only when three instructions have followed the one that
\* turned the interrupts on, with none among them that turned them off.
CriticalSection == [][Takes => quiet = 0]_vars

\* No interrupt comes before the handler of the last one has returned, although
\* it turns the interrupts on before it reads the address to return to; and it
\* returns to the instruction that was about to be executed.
Transparent ==
    [][/\ Takes => resume = None
       /\ resume # None /\ resume' = None => pc' = resume]_vars

\* Each cycle counts once: as stalled, or as executed and then, unless it ended
\* the run, in one class of instructions.
Changed == {s \in Counters \cap mapped :
               ReadSignal(s)' # ReadSignal(s)} \ {"hosttime"}
CountersAgree ==
    [][phase = "running" /\ counter' # counter =>
          IF Stalled THEN Changed = {"cycles_stall"}
          ELSE IF halted' # "no" THEN Changed = {"cycles_total"}
          ELSE \E c \in Counters \ {"cycles_total", "cycles_stall"} :
                  Changed = {"cycles_total", c}]_vars

\* Every arithmetic instruction leaves in its register what the manual says.  A
\* division by zero is left out: the manual has all ones there, or the dividend.
Computes ==
    [][Cycle /\ Executes(AluOps \cup MulOps \cup DivOps) /\ halted' = "no"
       /\ Inst.rd # 0 /\ ~(Inst.op \in DivOps /\ Operand = 0)
       => Specified(Inst.op, Operand1, Operand, r'[Inst.rd])]_vars

\* A cause that is not masked gets its handler, or goes away by itself.
Waiting(bit) == Running /\ bit \in cause \cap mask
InterruptTaken ==
    \A bit \in {4, IrqNoc} : Waiting(bit) ~> (resume # None \/ ~Waiting(bit))

\* A jump through a register goes where the register and the immediate say.
JumpsToRegister ==
    [][Cycle /\ Executes({"JALR"}) =>
          LET w == Wrap(Operand1 + Inst.imm) IN pc' = w - (w % 2)]_vars

=============================================================================
