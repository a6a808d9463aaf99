----------------------------- MODULE RouterOps -----------------------------
(***************************************************************************)
(* The decisions one TRouter::Run takes, as operators over the state of    *)
(* one router: the crossbar sw (_switch_control), the flit counters fts    *)
(* (_flits_to_send), the round-robin pointer rr, and what the buffers      *)
(* show.  Router (one router) and Noc (a mesh of them) are built from the  *)
(* same operators.                                                         *)
(*                                                                         *)
(* A flit is a 16-bit word.  The operators that look into one take a       *)
(* function V from flits to words, so that a flit may carry the tags the   *)
(* properties need without the router seeing them.                         *)
(***************************************************************************)
EXTENDS Integers, Sequences

NORTH == 0
WEST  == 1
SOUTH == 2
EAST  == 3
LOCAL_PORT == 4   \* LOCAL, a reserved word here
Ports == 0..4

FREE       == -1        \* _switch_control: the input is not connected
AWAIT_ADDR == -2        \* _flits_to_send: connected, nothing sent yet
AWAIT_SIZE == -1        \* _flits_to_send: the address flit has gone

HalfMod  == 32768
FlitMod  == 2 * HalfMod             \* FlitType is uint16_t
FlitWord == 0 .. FlitMod - 1
Counter  == -HalfMod .. HalfMod - 1 \* _flits_to_send is int16_t

(***************************************************************************)
(* The int16_t an int is stored as, for ints at most one period outside.   *)
(***************************************************************************)
Int16(v) == IF v >= HalfMod THEN v - FlitMod
            ELSE IF v < -HalfMod THEN v + FlitMod ELSE v

(***************************************************************************)
(* Address flits: bits 7..4 hold the column, bits 3..0 the row.            *)
(***************************************************************************)
TargetX(word) == (word \div 16) % 16
TargetY(word) == word % 16

MutRouteNorthSouthSwapped(x, y, word) ==
    IF x = TargetX(word)
    THEN IF y = TargetY(word) THEN LOCAL_PORT
         ELSE IF y > TargetY(word) THEN NORTH ELSE SOUTH
    ELSE IF x > TargetX(word) THEN WEST ELSE EAST

\* Along the column first.
MutRouteYX(x, y, word) ==
    IF y = TargetY(word)
    THEN IF x = TargetX(word) THEN LOCAL_PORT
         ELSE IF x > TargetX(word) THEN WEST ELSE EAST
    ELSE IF y > TargetY(word) THEN SOUTH ELSE NORTH

RouteXY(x, y, word) ==
    IF x = TargetX(word)
    THEN IF y = TargetY(word) THEN LOCAL_PORT
         ELSE IF y > TargetY(word) THEN SOUTH ELSE NORTH
    ELSE IF x > TargetX(word) THEN WEST ELSE EAST

-----------------------------------------------------------------------------
(***************************************************************************)
(* Crossbar control: only the port the round robin points at may be        *)
(* connected in this cycle, to the port its first flit routes to (target), *)
(* and only if no other input holds that port.                             *)
(***************************************************************************)
MutGrantIgnoresBound(sw, rr, waiting, target) ==
    waiting /\ sw[rr] = FREE

MutGrantNeverEast(sw, rr, waiting, target) ==
    waiting /\ sw[rr] = FREE /\ target # EAST /\ \A i \in Ports : sw[i] # target

MutGrantRebinds(sw, rr, waiting, target) ==
    waiting /\ \A i \in Ports : sw[i] # target

Grant(sw, rr, waiting, target) ==
    waiting /\ sw[rr] = FREE /\ \A i \in Ports : sw[i] # target

(***************************************************************************)
(* The counter after one flit has been driven: the address flit arms it,   *)
(* the size flit loads it, every other flit decrements it.                 *)
(***************************************************************************)
MutCountAfterNoAddr(count, word) ==
    IF count = AWAIT_ADDR THEN Int16(word)
    ELSE IF count = AWAIT_SIZE THEN Int16(word) ELSE Int16(count - 1)

MutCountAfterShort(count, word) ==
    IF count = AWAIT_ADDR THEN AWAIT_SIZE
    ELSE IF count = AWAIT_SIZE THEN Int16(word - 1) ELSE Int16(count - 1)

CountAfter(count, word) ==
    IF count = AWAIT_ADDR THEN AWAIT_SIZE
    ELSE IF count = AWAIT_SIZE THEN Int16(word) ELSE Int16(count - 1)

(***************************************************************************)
(* The inputs that drive a flit in this cycle: connected, with a flit      *)
(* waiting, and with room at the output they are connected to.  Distinct   *)
(* inputs are connected to distinct outputs and no output buffer of a      *)
(* router is one of its own inputs, so that the loop over the ports has    *)
(* the effect of driving them all at once.                                 *)
(***************************************************************************)
MutDrivesIgnoresFull(sw, waiting, full) ==
    {i \in Ports : sw[i] # FREE /\ waiting[i]}

Drives(sw, waiting, full) ==
    {i \in Ports : sw[i] # FREE /\ waiting[i] /\ ~ full[sw[i]]}

MutNextPrioritySkipsLocal(rr) == (rr + 1) % LOCAL_PORT

NextPriority(rr) == (rr + 1) % 5
=============================================================================
