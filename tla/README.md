# Verification of orca-sim

orca-sim is a cycle-level simulator of a multiprocessor system on chip: a mesh
of tiles, each with a router, a network interface with DMA, memories and a
RISC-V processor, one of them (the tile at 0, 0) with a bridge to UDP instead.
All the hardware is simulated by a discrete event simulator in one thread; the
bridge adds a second one.

This directory specifies its control in TLA+, model-checks the specifications
with TLC on small instances and proves the most important invariants with TLAPS
for every value of the constants.  Paths below are relative to the source.

## 1. Inventory

| Component | State | Operations | Talks to |
|---|---|---|---|
| `Simulator` (`simulator/src/Simulator.cpp`), the loop of `main()` (`platforms/orca-dma/src/Orca.cpp:319-350`) | event queue, global time, epoch counter; the interruption flag | `Schedule`, `Run`, `NextEpoch`; the SIGINT handler | calls `Run()` of every model |
| `TRouter` (`models/src/TRouter.cpp`) | five input buffers, crossbar `_switch_control`, counters `_flits_to_send`, `_round_robin` | `Run`: connect, drive, release, pass the priority on | pushes into its neighbours' input buffers |
| the mesh (`Orca.cpp:245-274`, `connect_routers`) | which buffer is behind which port | wiring at start | routers, interfaces |
| `TDmaNetif` (`models/src/TDmaNetif.cpp`) | a receiving and a sending state machine with their counters and pointers, mem1, mem2 | `Run`: one step of each | router by buffers, CPU by memory-mapped signals, main memory by DMA |
| `TNetBridge` (`models/src/TNetBridge.cpp`) | two state machines, datagram buffers, `_signal_recv`, the thread's terminate flag, two sockets | constructor, `Run`, `udpRecvThread`, destructor | router by buffers, sockets, a thread |
| `THellfireProcessor` (`models/src/THellfireProcessor.cpp`) | registers, interrupt state with its delay line, timers, counters of instructions | `Run`, `mem_read`, `mem_write`, `InitCounters`, `UpdateCounters` | memory, the signals stall and intr |
| `UBuffer`, `USignal`, `UMemory` | a bounded queue; a value in its own storage or in some memory; bytes | push, pop, full; Read, Write, MapTo; Read, Write | used by all |
| tiles and platforms (`platforms/`) | - | construction and wiring | all |

What is hard in it:

* *Concurrency in simulated time.*  Models of equal time run in any order, each
  sees what the others did in the same cycle, and packets cross several of them.
* *Flow control.*  Buffers of 8 flits, wormhole connections held across
  routers, a priority that moves whether or not it served somebody.
* *Parsers.*  Router, interface and bridge find the packets in the stream of
  flits by counting; nothing marks where one begins.
* *Shared signals.*  The two processes of the interface share the stall signal
  and the address and size registers; the CPU handshakes with level signals.
* *Delayed effects.*  The interrupt status takes effect through a line of four
  places that interrupts and further stores rewrite.
* *Time arithmetic.*  Unsigned event times, moved back at every epoch.
* *A real thread*, in the bridge, without synchronisation; and a constructor
  and a destructor that take and give back what the operating system has.

What makes each component correct, and what of that is covered, is in section 3;
the hazards, by source line, are in `PROJECT.json`.

## 2. Modules

    VirtualClock                     abstract: one clock, no epochs
    Simulator                        Run, NextEpoch, main(); implements VirtualClock
      MCSimulator, Simulator_proofs
    RouterOps                        the decisions of TRouter::Run, as operators
      Router                         one router and its neighbours
        MCRouter, Router_proofs
      Noc                            the mesh, implements Channels
        MCNoc, Noc_proofs, NocChannels_proofs
    Channels                         abstract: a FIFO of packets per pair of nodes
    DmaNetif                         the interface, with any program
      DmaNetif_proofs
      NetifDriver                    the interface, with a driver
        NetifDriver_proofs
    NetBridge                        the bridge and its thread, from start to end
      MCNetBridge, NetBridge_proofs
    Isa                              the arithmetic of the processor
      Cpu                            the processor, its memory and signals, booting
        MCCpu, Cpu_proofs

### Simulator

`queue[m]` is the time of model `m`'s event (the program's queue holds exactly one
event per model), `globalTime` and `epochs` are the fields of that name, `mode` is
the place of `main()`: at the head of its loop, inside `Run`, inside `NextEpoch`,
or out of the loop. `Execute` is one iteration of `Run`; among events of equal
time any may be on top, since `Event::operator<` compares times only.
`ExecuteThrows` is the exit through the `catch` of `main()`; `Interrupt` is the
signal handler, which may run at any time. `VirtualClock` is the promise to the
models: `lead[m][n]` says how many cycles the turn of `m` is after that of `n`, a
model that is ahead of nobody goes next, and nothing tells an epoch from another.

### Router, Noc

`RouterOps` has the crossbar control (`Grant`), what drives (`Drives`), the
header parser (`CountAfter`, with `int16_t` arithmetic in `Int16`), the routing
(`RouteXY`, from the 16-bit address flit) and the priority.  `Router!Run` puts
them together as one cycle of one router; `RunCrashes` is the cycle that calls a
null buffer.  Flits carry the packet they belong to and their position, which
only the properties read; the router reads `Word(f)`.  `lastIn` and `lastOut`
remember the last flit of every link.

In `Noc` the output buffer of a router is its neighbour's input buffer.  The
routers run once per cycle each, in any order (`ran`): this is what the
simulator does with models that all take one cycle.  Interfaces push and pop one
flit at a time whenever they like.  `Channels` is what the network promises: a
packet that is sent is pending until it is delivered, and no packet of a pair of
nodes overtakes another.  In the mesh a packet is sent when its first flit has
left its node (`Departed`) and pending until it has arrived whole (`Arrived`).

### DmaNetif, NetifDriver

One action per `case` and branch of `recvProcess` and `sendProcess`; `Run` takes
one of each, in that order: what the second reads is what the first left.
Memories are functions from flit positions to flits (addresses count flits, not
bytes).  In `DmaNetif` the CPU is any program that writes the signals wired for
it whenever the stall signal is 0.

Nothing in the code compares the size of a packet or a copy with the memories, and
nothing in `DmaNetif` does: sizes are any numbers.  `stray` is set by the first
access past the end of mem1 or mem2; what that destroys is undefined, and `Run`
goes no further.  `rsize` remembers what the receiver was asked to copy; with it
`OnlyOversizeStrays` says whose fault the access was.

The driver is not part of the repository (`software/` holds a submodule):
`NetifDriver` replaces the program by one that keeps the handshake the states of
the interface are written for, one transfer at a time, with packets that fit the
memories (`FitAssumption`).  It is external, and what is shown with it is shown of
the interface under such a driver.

### NetBridge

`stage` is where the simulation thread is: in one of the steps of the
constructor, running, in one of the steps of the destructor, or at one of the
ends of the process.  `held` is what is allocated or open.  `thread` is what
`udpRecvThread` does next, one value per access to something it shares with the
other thread: the flag, the signal, the socket, the buffer.  The two processes of
`Run` have one action per state and branch.

* `Run` is one step.  Within it the simulation thread touches the signal at most
  once, and it reads the buffer only while the signal keeps the thread away:
  that is `DatagramHeld`, which is checked and proved.
* The accesses of the two threads race, by the letter of C++.  In the builds of
  the repository the thread calls `recv()`, which the compiler cannot see
  through, between its test and its raise, and the machine keeps stores in
  order: the model takes accesses as interleaved.
* A use of something deleted is undefined.  The thread is `wild` from then on,
  and the process may crash.
* Datagrams are numbered as the socket accepts them: one that is lost before
  that is not in any state.  Each carries one packet; the buffers are 128 bytes
  and nothing compares a size with that, so that sizes that do not fit are
  excluded (`PacketsAssumption`).
* The thread ignores what `recv()` returns.  An error, or a datagram shorter than
  its packet, would raise the signal with what was in the buffer; the model takes
  datagrams to be whole and `recv()` not to fail on its socket, which is bound, open
  and not connected.
* The whole send buffer goes out whatever the size of the packet.  `sent` is
  that buffer: what is left in it of a longer packet is still there.

### Isa, Cpu

`Isa` is what the C++ expressions of `THellfireProcessor::Run` compute, in words
of `4 * ByteBits` bits, next to what the RISC-V manual specifies (`Specified`,
the reference).  `Cpu` begins in `main()`, with a tile of either platform: the
wires are reset in their own storage, mapped into memory, then the counters are
mapped, then the program is loaded.  From there each action is one way a cycle
can go: stalled (`Skip`), or an instruction of some kind after the counter, the
causes and possibly an interrupt.  `Retire` moves the delay line and the program
counter, `Counted` adds to the class that `UpdateCounters` finds.

Programs are sequences of decoded instructions.  The data memory is byte by byte,
with the wires and counters in it; an access past its end is undefined and ends
the run, as does an access to the program itself.  The interface is a small
environment that raises `intr` and stalls for a copy as `TDmaNetif` does.
`quiet` and `resume` are histories for the properties.

## 3. What the runs check

| Run | States | Shows |
|---|---|---|
| `router` | 6,116 | packets stay whole and unmixed on every output, the parser keeps its place, connections are given back, an output that is wanted is connected; with a missing neighbour |
| `noc` | 30,632 | buffers keep their capacity; no route against the dimension order; the mesh implements FIFO channels of whole packets; everything is delivered |
| `simulator` | 8,141 | times neither wrap nor grow; none is forgotten; an interrupt ends the loop; epochs are invisible to the models |
| `netif` | 311,264 | with any program: the parser keeps its place, a received packet is kept until the CPU asks, accesses go past mem1 and mem2 only for what does not fit them, the CPU is released |
| `netif_driver` | 251,589 | with the driver: stall covers copies, packets are received and sent whole, once and in order, and transfers end |
| `bridge` | 77,949 | the datagram buffer changes hands by the signal alone; datagrams and packets pass whole, once and in order; no endpoint is left half open; every datagram is forwarded and the process ends |
| `cpu` | 12,192 | signals keep their values when they are mapped; interrupts respect critical sections and handlers and are taken; each cycle is counted once; results are those of the manual |
| `router_edge`, `router_starve`, `netif_stall`, `bridge_teardown`, `cpu_jalr` | | disagreements between the code and what is said of it, below |

### Bounds

* *Router*: the router at (1, 1), input streams of packets with 0, 1 and 2
  payload words, two of them for the same output and one for a missing
  neighbour, buffers of 1 instead of 8: every packet is longer than a buffer and
  waits in the middle.  The proofs hold for every capacity and size.
* *Noc*: 2 x 2 nodes (the smallest mesh with turns), buffers of 1, so that every
  packet blocks across routers; three packets, two of them of the same pair, that
  turn, share a link with the third and compete with it.  These three cannot wait
  for one another in a cycle under any routing: the run shows progress under
  contention, and the absence of deadlock is left to the theorem `NoDeadlock`.
* *Simulator*: four models (first cycles 1, 1, 3, 3), two processors taking one
  or two cycles; epochs of 5 cycles, so that the overrun of an epoch by one step
  matters; `EpochsMod` closes the counter of epochs.  Overruns repeat from the
  second epoch on.  The number of epochs is not limited, as by default; what the
  limit does is the theorem `EpochsAreLimited`.
* *DmaNetif*: memories of 3 flits, buffers of 1. With any program, payloads of 0,
  1 and 2 words and copies of 0, 3 and 4 flits, the largest of which do not fit;
  with the driver, payloads of 0 and 1 words, which do. Packets are numbered
  modulo 2 with the driver, so that a lost or repeated one shows; with any program
  modulo 1, as no property counts them.
* *NetBridge*: one datagram at the socket next to the one in the buffer, so that
  one waits and the next is lost; packets of 1, 0 and 1 words, so that a short
  one follows a long one through the same buffer; buffers of 1; numbers modulo
  3, so that loss, repetition and exchange of neighbours differ.
* *Cpu*: words of 8 bits, so that a register has 256 values and the edges (0, 1,
  the largest and smallest signed numbers, -1) are as in 32; 6 registers; two
  programs that take interrupts for ever, from the timer and from the network;
  every arithmetic instruction with every pair of edges; every load and store at
  each kind of address; branches; exceptions. The counter wraps at 16. `MaskBits`
  is 8: no cause lies above the bits that a store to a comparator keeps.

### Deadlock

TLC checks for deadlock in `noc` and `netif_driver`.  It is switched off where the
program really stops, or the model does: after an access past the memories of the
interface (`netif`, `netif_stall`), after `main()` leaves its loop (`simulator`),
after a null buffer has been called (`router`, `router_edge`), at the end of the
process (`bridge`, `bridge_teardown`) and of the processor (`cpu`, `cpu_jalr`).

### Fairness

* Models: `Simulator` shows that each scheduled model is executed again and again
  (`EveryModelRuns`) under weak fairness of the simulation thread alone, which
  waits for nothing.  That is the weak fairness of `Run` in the other modules.
* A neighbour that began a packet finishes it (`ContinuePacket`, `ArriveRest`),
  and keeps taking flits (`Depart`, `Consume`, `RouterTakes`): `PacketsComplete`
  of the router and `SendCompletes` of the interface are the corresponding
  results.  Nobody has to begin a packet, to press CTRL+C, or to send.
* Of the interface with any program only its own steps are fair (`CopiesEnd`): the
  program may do nothing and the network neither send nor take anything.
* The driver executes (weak), and, when both are possible, neither its sends keep
  it from answering interrupts for ever nor the other way round (strong).
* In the bridge the operating system schedules both threads; the destructor runs
  to its end.  Nothing makes a datagram arrive or the simulation end:
  `DatagramsForwarded` is about those that arrived, `SimulationEnds` about a
  simulation that is over, and says that it waits for no thread.
* The processor cycles for ever, and the interface ends a copy it has begun.

### Findings

* `router_edge`: `TRouter.cpp:139-151` builds exceptions and does not throw them;
  a packet for a node outside of the mesh makes the router use a null buffer.
  `NoNullBuffer` and `NeverNull` (proved) and `AllDelivered` (checked) say when it
  does not.
* `router_starve`: the "round robin policy" of `TRouter.h:62` moves every cycle,
  not every grant.  With saturated streams of five-flit packets it is in step
  with the packets, and one input starves.  `OutputServed` is what does hold.
* `netif_stall`: the two "independent processes" of `TDmaNetif.cpp:126` share the
  stall signal, which does not cover copies (`TDmaNetif.h:81`) that overlap.
  With one transfer at a time it does (`netif_driver`).
* `bridge_teardown`: the destructor deletes the signal and the sockets before it
  sets the "flag to gracefully terminate the subthread" (`TNetBridge.h:160`), and
  the join is commented out: the thread uses what is gone.
* `cpu_jalr`: JALR writes its link before it reads the register to jump to; with
  both the same register, as in the usual call sequence, the target is wrong.

Two comments on the send status disagree with the code, and with each other.  They
are read off the source and have no run:

* `TDmaNetif.cpp:389-390` says of `COPY_AND_RELEASE` that it "releases cpu, lower
  status and stall".  Line 430 lowers stall only (`SendRelease`).
* `TDmaNetif.h:51` says of `SEND_DATA_TO_NOC` "write data to the network, raise
  _send_status".  That state does not write the status (`SendPush`, `SendDone`).

What the code does: the status rises when the request is accepted, before the copy
(line 376, `SendConfig`), stays up while the packet is copied and sent, and falls
when `prog_send` has been lowered (line 467, `SendFlush`).  That is the
"0x0 when in ready state" of `TDmaNetif.h:84`; which of the three is meant decides
whether a program may wait for the status between copy and transmission.  The
invariant of `DmaNetif_proofs` (`Sending`) has it as the code does.

## 4. What is proved

Everything below holds for every value of the constants, under the assumptions
named in the modules.

`Router_proofs`, for every position, capacity of at least 1, set of connected
ports and set of packets with sizes up to 65533 (sizes 65534 and 65535 are -2 and
-1 in an `int16_t`, the parser's own marks; `PacketsAssumption` excludes them):

* `Invariance`: `IInv`, the conjunction of `TypeOK`, `CrossbarExclusive`,
  `CounterTracksPacket`, `ReleasedOnlyAtTail`, `InputsChained` and
  `ConnectionRoutes`.  None is inductive alone.  That the counter agrees with
  the packet on the output needs the flit at the head of the input to be the next
  of that packet (`InputsChained`); that a new connection starts a packet needs
  the output to have been left at the end of one (`ReleasedOnlyAtTail`); and both
  need that nobody else drives that output (`CrossbarExclusive`).
* `TypeCorrect`, `CrossbarIsExclusive`, `CountersTrack`: parts of it.
* `LinksFramed`: each step that drives an output continues its packet or starts
  one after the end of the last, routed to this output.
* `NoNullBuffer`: packets that route to connected ports never reach a null one.

The proof goes through the two phases of a cycle: `ControlPhase` (the crossbar
after the grant still satisfies the invariant), `DriveOne` (what driving one
input does), and then each part of the invariant after the whole cycle.

`Simulator_proofs`, for every set of models, schedule, costs and epoch length:

* `Invariance`: times are positive, no event is behind the clock, models are at
  most one step apart (`TypeCorrect`, `NeverOverdue`, `SkewIsBounded`).
* `TimesAreBounded`: from these, that times stay below an epoch and two steps;
  what makes it inductive is that the event the clock stopped at is near it.
* `EpochsAreLimited`: no epoch more than configured, if the limit fits the counter.
* `EpochsInvisible`: the simulator implements `VirtualClock`; executing a model is
  a tick, anything else stutters.

`DmaNetif_proofs`, for every program, capacity, size of the memories (two flits at
least, for the headers) and set of packet and copy sizes, whether they fit or not:
`TypeCorrect`, `FittingStays`, `HeadIsExpected` and `PacketIsHeld`, all the
invariants of the run `netif`. The inductive invariant has four parts: what mem1
and the registers hold of the packet in progress (`Progress`); that the flits in
the buffer, and the one still on the link, succeed one another and the first is
the one the state expects (`Stream`); where the sender is in its two passes over
mem2 (`Sending`); and how far the passes over both memories have come (`Passes`):
what was received or copied whole fits, and a pointer and its counter add up to
what was asked for, so that a pointer past the end means a size past the end.
`HeadExpected` alone says nothing of the flit after the head, and nothing when the
buffer is empty.

`NetifDriver_proofs`, over the invariant of `DmaNetif_proofs`, for packets that
fit the memories (`FitAssumption`) and every numbering of packets:
`DriverInvariance`, and from it `StallCovers`, `WholeReceived` and `OnceSent`.
`StallCoversCopies` needs to know which states of the driver and of the two state
machines go together (`Handshake`); with any program they do not, which is the
finding `netif_stall`. The other two follow one packet through mem0, mem2 and the
link (`Committed`) and from mem1 to mem0 (`Receiving`), flit by flit.

`Noc_proofs`, for every mesh of up to 16 x 16 (the address flit has no room for
more), every capacity of at least 1 and all traffic of packets up to 65533 words:

* `Invariance`: `IInv`, `TypeOK` and that some `lo` satisfies `MeshInv`.
  `lo[n][q]` is the flit that is to leave router n at port q next, or `Start` when
  any packet may begin there.  No variable has it, because a router has forgotten
  what went by; the proof carries it along (`Moves` says how a cycle changes it).
  The flits in each buffer follow one another from what its consumer takes next
  to what its producer sends next (`Chain`, `Linked`, `Collected`), each
  connection leads where its packet is routed and its counter agrees with the
  place in the packet (`Switched`, `Connection`), and each flit comes in where the
  neighbour routes its packet (`Approach`).  This is the invariant of one router
  (`Router_proofs`) without its assumption on the inputs: the outputs of the
  neighbours provide it.
* `TypeCorrect`, `TurnsAreXY`, `NeverNull`, `DeliveredThere`: consequences.
* `NoDeadlock`: when no router can drive a flit, no interface has one to take and
  none can go on with a packet, then the mesh is empty.  `Level` orders the input
  buffers so that a flit waits for none but flits at a lower level
  (`BlockedBelow`): turns go down (`LevelDrops`), which is what dimension order is
  for.  A connection may also wait for flits that have not come yet; the one
  furthest from its destination waits for an interface (`HungerSpreads`).

`NocChannels_proofs`, over it: `OrderInvariance` and `ImplementsChannels`.
Packets of a pair of nodes take the same route (`Passes`), along which each slot
has a distance to the end (`Rank`); of two flits in flight the one sent first is
nearer to the end, or in front of the other in the same slot (`Ordered`); a flit
that has left its node is in some slot until its packet has arrived (`NoneLost`).
A step moves flits by one slot at most (`Forward`, `HopOrder`).  Pushing the
first flit of a packet is `Send`, taking the last one `Deliver`, everything else
a stutter.  `StillIsDone`: with `NoDeadlock`, the mesh stands still only when
everything that has departed has arrived.

`NetBridge_proofs`, for every capacity, size of the socket's queue, numbering and
set of packets that fit:

* `Invariance`: what is held in each stage (`LifeInv`), that there is no thread
  before the constructor ends and no wild one before the destructor begins
  (`ThreadInv`), and the hand-over (`HandOver`): what has been pushed of the
  datagram in the buffer (`Pushing`), and that the datagrams at the socket are
  those after it (`Queued`).  Once the thread is wild nothing is claimed of the
  hand-over, and nothing is pushed.
* `DatagramIsHeld`, `InboundOrdered`, `EndpointsKept`: the run's `DatagramHeld`,
  `InboundInOrder` and `EndpointsWhole`.
* `OutboundIsWhole` by an invariant of its own (`OutInv`), like that of the
  interface; `TypeCorrect` from all of them.

`Cpu_proofs`, for every width of a word, set of decoded programs, number of
registers and memory map.  What is assumed of them: signals lie inside the memory
and do not overlap, the host time is a word (`LayoutAssumption`, as in `Tile.h`),
uninitialised storage holds some value of its width, and no two ports have the
same address.

* `DelayIsKept`: which places of the delay line are zero, and from it
  `CriticalSectionHolds`.
* `MappingIsKept`, by `BootInv`: how far the signals have come in each phase.  The
  step that matters is that writing some signals into memory byte by byte and
  reading any of them back gives its value (`MapToKeeps`), which is that a word is
  its bytes put together again (`RoundTrip`, `Digits`) and that spans are disjoint.
* `TypesAreKept`, one lemma for each instruction: `TypeOK` is inductive with
  `BootInv` and with the program being a sequence of instructions.
* `ComputesTheManual`: the eighteen arithmetic instructions.  `Bits` and `WordOf`
  are inverse (`WordOfFacts`, by the smallest width at which they are not);
  comparisons by `Signs`; shifts bit by bit (`LeftComputes`, `RightComputes`,
  `SignComputes`); products by the bounds of the upper word (`UpperFits`);
  quotients by `QuotientDivides` and `QuotientFits`, the latter except where the
  host traps.

`PowerAssumption` of `Isa` states the laws of powers of two up to a word, because
the provers have no axioms for `^`.  They are true of every width; TLC evaluates
them at the width of the runs.

Only model-checked:

* `Transparent` and `CountersAgree` of `Cpu`.  They hold of programs that follow
  the rules of interrupt handlers and do not write to the counters, as those of
  the run do, and not of every program.
* Liveness, which is out of the prover's reach: `OutputServed`, `AllDelivered`,
  `EveryModelRuns`, `InterruptEnds`, `CopiesEnd`, `SendCompletes`,
  `ReceiveCompletes`, `StallEnds`, `DatagramsForwarded`, `PacketsComplete`,
  `SimulationEnds` and `InterruptTaken`. `NoDeadlock` and `StillIsDone` are what
  is proved towards `AllDelivered`: the mesh never stands still with a packet in
  it.

## 5. Not modelled

* The decoding of instruction words, programs that read or write their own code,
  and the processor variant `HFRISCV_CYCLE_ACCURACY`, which no build enables.
* Logs, statistics and memory dumps (`SaveBin`, `Dump`), and the activity
  counters of routers: nothing reads them.
* `UBuffer::Reset`, which replaces the queue and leaves `_size`,
  `UBuffer::SetCapacity` and `USignal::Dec`: nothing calls them.
* The optional address and queue checks: off in the default configuration, and
  they only throw.  `Simulator!ExecuteThrows` is what a throw does.
* What follows an access past the end of mem1 or mem2, which is undefined:
  `DmaNetif` stops there. Datagrams that do not fit the buffers of the bridge,
  datagrams that are not whole packets, and errors of `recv()`. The driver's
  software is a submodule.
* `PriorityQueue`, a stub; `TArm7TDMI` and the gba platform, unfinished and part of
  no build target.
* What the single-core platform adds to the others, its statistics; its tile is an
  initial state of `Cpu` and its loop that of `Simulator`.

## 6. What could follow

1. `Tile`: `NetifDriver` over `Noc` (two interfaces and two routers), end to end.
   The two are connected by their assumptions now: the interface assumes what
   `OutputLinksFramed` and `AllDelivered` give, the network that interfaces take
   flits, which `ReceiveCompletes` gives.
2. Proofs: `Transparent` for every program whose handlers return before they
   enable interrupts for good, which needs the rule as an assumption on `Images`;
   that each step of the mesh brings some flit nearer, the measure behind
   `AllDelivered`.
