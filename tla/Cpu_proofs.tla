----------------------------- MODULE Cpu_proofs -----------------------------
(***************************************************************************)
(* What holds of the processor for every program, memory map and width of  *)
(* a word: its interrupts, how its signals get into memory, its types, and *)
(* what its arithmetic computes.                                           *)
(***************************************************************************)
EXTENDS Cpu, SequenceTheorems, WellFoundedInduction, TLAPS

\* Status and its delay line are zero as far as quiet says: an interrupt that
\* comes in n instructions has its status in place n of the line.
Delayed ==
    /\ DOMAIN statusDly = 0 .. 3
    /\ quiet \in 0 .. Never
    /\ quiet >= 1 => status = 0
    /\ quiet >= 2 => statusDly[0] = 0
    /\ quiet >= 3 => statusDly[1] = 0
    /\ quiet = Never => statusDly[2] = 0 /\ statusDly[3] = 0

\* The same of what the instruction of this cycle sees.
DelayedNow(dly, q) ==
    /\ DOMAIN dly = 0 .. 3
    /\ q \in 0 .. Never
    /\ q >= 2 => dly[0] = 0
    /\ q >= 3 => dly[1] = 0
    /\ q = Never => dly[2] = 0 /\ dly[3] = 0

\* An interrupt clears the line, so that what holds before it holds after it.
LEMMA Sees == ASSUME Delayed PROVE DelayedNow(Dly, Quiet)
<1>1. CASE Interrupted
  BY <1>1 DEF DelayedNow, Dly, Quiet, Never
<1>2. CASE ~Interrupted
  BY <1>2 DEF Delayed, DelayedNow, Dly, Quiet, Never
<1> QED
  BY <1>1, <1>2

\* Retire moves the line by one place and an instruction is over: the delay goes
\* on.  What a store puts into the last place does not matter but when nothing
\* was on its way.
LEMMA RetireDelays ==
    ASSUME NEW target, NEW dly, NEW q,
           Retire(target, dly), DelayedNow(dly, q), quiet' = Passed(q)
    PROVE  Delayed'
<1>1. /\ status' = dly[0]
      /\ statusDly' = [i \in 0 .. 3 |-> IF i < 3 THEN dly[i + 1] ELSE dly[i]]
  BY DEF Retire, Shift
<1>2. /\ DOMAIN statusDly' = 0 .. 3
      /\ statusDly'[0] = dly[1] /\ statusDly'[1] = dly[2]
      /\ statusDly'[2] = dly[3] /\ statusDly'[3] = dly[3]
  BY <1>1
<1>3. quiet' = IF q \in {0, Never} THEN q ELSE q - 1
  BY DEF Passed
<1> QED
  BY <1>1, <1>2, <1>3 DEF Delayed, DelayedNow, Never

LEMMA PlainDelays ==
    ASSUME NEW rd, NEW w, NEW target, Delayed, Plain(rd, w, target)
    PROVE  Delayed'
<1>1. Retire(target, Dly) /\ quiet' = Passed(Quiet)
  BY DEF Plain
<1> QED
  BY <1>1, Sees, RetireDelays

LEMMA HaltDelays == ASSUME NEW how, Delayed, Halt(how) PROVE Delayed'
<1>1. /\ status' = (IF Interrupted THEN 0 ELSE status)
      /\ statusDly' = Dly /\ quiet' = Quiet
  BY DEF Halt
<1>2. quiet' >= 1 => status' = 0
  BY <1>1 DEF Delayed, Quiet
<1> QED
  BY <1>1, <1>2, Sees DEF Delayed, DelayedNow

\* The stores to IRQ_STATUS, which write to the line.
LEMMA StoreStatusDelays == ASSUME Delayed, StoreStatus PROVE Delayed'
<1> DEFINE dly == [Dly EXCEPT ![3] = Operand2]
           q   == IF Quiet = Never THEN 3 ELSE Passed(Quiet)
<1>1. /\ status' = dly[0]
      /\ statusDly' = [i \in 0 .. 3 |-> IF i < 3 THEN dly[i + 1] ELSE dly[i]]
      /\ quiet' = q
  BY DEF StoreStatus, Retire, Shift
<1>2. DelayedNow(Dly, Quiet)
  BY Sees
<1>3. dly[0] = Dly[0] /\ dly[1] = Dly[1] /\ dly[2] = Dly[2]
  BY <1>2 DEF DelayedNow
<1>4. /\ DOMAIN statusDly' = 0 .. 3
      /\ statusDly'[0] = Dly[1] /\ statusDly'[1] = Dly[2] /\ status' = Dly[0]
  BY <1>1, <1>3
<1>5. quiet' = IF Quiet = Never THEN 3 ELSE IF Quiet = 0 THEN 0 ELSE Quiet - 1
  BY <1>1 DEF Passed
<1> QED
  BY <1>2, <1>4, <1>5 DEF Delayed, DelayedNow, Never

LEMMA StoreZeroDelays == ASSUME Delayed, StoreZero PROVE Delayed'
<1>1. /\ status' = 0
      /\ statusDly' = [i \in 0 .. 3 |-> 0]
      /\ quiet' = Never
  BY DEF StoreZero, Retire, Shift
<1> QED
  BY <1>1 DEF Delayed, Never

LEMMA RunDelays == ASSUME Delayed, Run PROVE Delayed'
<1>1. CASE Skip
  BY <1>1 DEF Skip, Delayed
<1>2. CASE LoadUpper \/ Jump \/ Branch \/ Arithmetic
  BY <1>2, PlainDelays DEF LoadUpper, Jump, Branch, Arithmetic
<1>3. CASE LoadData \/ LoadPort
  BY <1>3, PlainDelays DEF LoadData, LoadPort, LoadFrom
<1>4. CASE LoadHostTime \/ StoreData \/ StorePort
  <2>1. Retire(PcNext, Dly) /\ quiet' = Passed(Quiet)
    BY <1>4 DEF LoadHostTime, StoreData, StorePort
  <2> QED
    BY <2>1, Sees, RetireDelays
<1>5. CASE StoreZero \/ StoreStatus
  BY <1>5, StoreZeroDelays, StoreStatusDelays
<1>6. CASE Exit \/ Throw \/ Trap \/ Undefined
  BY <1>6, HaltDelays DEF Exit, Throw, Trap, Undefined
<1> QED
  BY <1>1, <1>2, <1>3, <1>4, <1>5, <1>6 DEF Run, Instruction

LEMMA NextDelays == Delayed /\ [Next]_vars => Delayed'
<1> SUFFICES ASSUME Delayed, [Next]_vars PROVE Delayed'
  OBVIOUS
<1>1. CASE Boot \/ NetifStep \/ UNCHANGED vars
  <2>1. UNCHANGED <<status, statusDly, quiet>>
    BY <1>1 DEF Boot, NetifStep, vars, coreVars
  <2> QED
    BY <2>1 DEF Delayed
<1>2. CASE Cycle
  BY <1>2, RunDelays DEF Cycle
<1> QED
  BY <1>1, <1>2 DEF Next

LEMMA InitDelays == Init => Delayed
BY DEF Init, Delayed, Never

\* Whatever the program stores, the status a cycle starts with is set only when
\* three instructions have passed since interrupts were turned on, and the line
\* behind it is clear for as long as it must be (lines 248-257 and 620-625).
THEOREM DelayIsKept == Spec => []Delayed
<1> QED
  BY InitDelays, NextDelays, PTL DEF Spec

\* No program can be interrupted earlier: the critical section that ends with a
\* store to IRQ_STATUS covers the three instructions after it.
THEOREM CriticalSectionHolds == Spec => CriticalSection
<1>1. Delayed => (Takes => quiet = 0)
  BY DEF Delayed, Takes, Interrupted, Never
<1>2. Delayed /\ [Next]_vars => [Takes => quiet = 0]_vars
  BY <1>1
<1> QED
  BY <1>2, DelayIsKept, PTL DEF Spec, CriticalSection

-----------------------------------------------------------------------------
(***************************************************************************)
(* Division, and the bytes of a word.                                      *)
(***************************************************************************)
LEMMA DivUnique ==
    ASSUME NEW d \in Nat, d > 0, NEW q \in Int, NEW r0 \in 0 .. d - 1,
           NEW w \in Int, w = d * q + r0
    PROVE  w \div d = q /\ w % d = r0
<1> DEFINE a == w \div d
           b == w % d
<1>1. w = d * a + b /\ b \in 0 .. d - 1 /\ a \in Int
  OBVIOUS
<1> HIDE DEF a, b
<1>2. d * (q - a) = b - r0
  BY <1>1
<1>3. q - a >= 1 => d * (q - a) >= d
  BY <1>1
<1>4. q - a <= -1 => d * (q - a) <= -d
  BY <1>1
<1>5. q = a
  BY <1>1, <1>2, <1>3, <1>4
<1> QED
  BY <1>1, <1>5 DEF a, b

LEMMA DivDiv ==
    ASSUME NEW d \in Nat, d > 0, NEW e \in Nat, e > 0, NEW w \in Nat
    PROVE  w \div (d * e) = (w \div d) \div e /\ w \div d \in Nat
<1> DEFINE a == w \div d
           b == w % d
           f == a \div e
           g == a % e
<1>1. w = d * a + b /\ b \in 0 .. d - 1 /\ a \in Nat
  OBVIOUS
<1> HIDE DEF a, b
<1>2. a = e * f + g /\ g \in 0 .. e - 1 /\ f \in Nat
  BY <1>1
<1> HIDE DEF f, g
<1>3. w = (d * e) * f + (d * g + b)
  BY <1>1, <1>2
<1>4. d * g + b \in 0 .. d * e - 1
  <2>1. d * g <= d * (e - 1) /\ d * g >= 0
    BY <1>2
  <2>2. d * (e - 1) = d * e - d /\ d * g \in Int /\ d * e \in Int
    BY <1>2
  <2> QED
    BY <1>1, <2>1, <2>2
<1>5. d * e \in Nat /\ d * e > 0
  OBVIOUS
<1>6. w \div (d * e) = f
  BY <1>2, <1>3, <1>4, <1>5, DivUnique
<1> QED
  BY <1>1, <1>6 DEF a, f

LEMMA DivBound ==
    ASSUME NEW d \in Nat, d > 0, NEW e \in Nat, NEW w \in Nat, w < d * e
    PROVE  w \div d \in Nat /\ w \div d < e
<1> DEFINE a == w \div d
           b == w % d
<1>1. w = d * a + b /\ b \in 0 .. d - 1 /\ a \in Nat
  OBVIOUS
<1> HIDE DEF a, b
<1>2. a >= e => d * a >= d * e
  BY <1>1
<1>3. d * e \in Int /\ d * a \in Int
  BY <1>1
<1> QED
  BY <1>1, <1>2, <1>3 DEF a

\* The places of a word's bytes.
LEMMA Places ==
    /\ ByteMod \in Nat /\ ByteMod > 0 /\ WordMod \in Nat /\ WordMod > 0
    /\ 2 ^ (ByteBits * 0) = 1
    /\ 2 ^ (ByteBits * 1) = ByteMod
    /\ 2 ^ (ByteBits * 2) = ByteMod * ByteMod
    /\ 2 ^ (ByteBits * 3) = ByteMod * (ByteMod * ByteMod)
    /\ 2 ^ (ByteBits * 4) = ByteMod * (ByteMod * (ByteMod * ByteMod))
    /\ WordMod = 2 ^ (ByteBits * 4)
    /\ \A k \in 0 .. 4 : 2 ^ (ByteBits * k) \in Nat /\ 2 ^ (ByteBits * k) > 0
<1>1. /\ ByteBits \in Nat /\ ByteBits > 0
  BY ByteBitsAssumption
<1> DEFINE b2 == ByteBits + ByteBits
           b3 == ByteBits + b2
           b4 == ByteBits + b3
<1>2. /\ ByteBits * 0 = 0 /\ ByteBits * 1 = ByteBits /\ ByteBits * 2 = b2
      /\ ByteBits * 3 = b3 /\ ByteBits * 4 = b4 /\ WordBits = b4
  BY <1>1 DEF WordBits
<1>3. /\ ByteBits \in 0 .. WordBits /\ b2 \in 0 .. WordBits /\ b3 \in 0 .. WordBits
      /\ b4 \in 0 .. WordBits /\ 0 \in 0 .. WordBits
      /\ b2 <= WordBits /\ b3 <= WordBits /\ b4 <= WordBits
  BY <1>1, <1>2
<1> HIDE DEF b2, b3, b4
<1>4. /\ 2 ^ b2 = 2 ^ ByteBits * 2 ^ ByteBits
      /\ 2 ^ b3 = 2 ^ ByteBits * 2 ^ b2
      /\ 2 ^ b4 = 2 ^ ByteBits * 2 ^ b3
  BY <1>3, PowerAssumption DEF b2, b3, b4
<1>5. /\ 2 ^ 0 = 1 /\ 2 ^ ByteBits \in Nat \ {0} /\ 2 ^ b2 \in Nat \ {0}
      /\ 2 ^ b3 \in Nat \ {0} /\ 2 ^ b4 \in Nat \ {0}
  BY <1>3, PowerAssumption
<1>6. \A k \in 0 .. 4 : k \in {0, 1, 2, 3, 4}
  OBVIOUS
<1>7. ASSUME NEW k \in 0 .. 4
      PROVE  2 ^ (ByteBits * k) \in Nat /\ 2 ^ (ByteBits * k) > 0
  <2>1. k \in {0, 1, 2, 3, 4}
    BY <1>6
  <2>2. ByteBits * k \in {0, ByteBits, b2, b3, b4}
    BY <1>2, <2>1
  <2>3. 2 ^ (ByteBits * k) \in Nat \ {0}
    BY <1>3, <2>2, PowerAssumption
  <2> QED
    BY <2>3
<1>8. ByteMod = 2 ^ ByteBits /\ WordMod = 2 ^ b4
  BY <1>2 DEF ByteMod, WordMod
<1>9. /\ 2 ^ b2 = ByteMod * ByteMod /\ 2 ^ b3 = ByteMod * (ByteMod * ByteMod)
      /\ 2 ^ b4 = ByteMod * (ByteMod * (ByteMod * ByteMod))
  BY <1>4, <1>8
<1>10. /\ 2 ^ (ByteBits * 0) = 1 /\ 2 ^ (ByteBits * 1) = ByteMod
       /\ 2 ^ (ByteBits * 2) = 2 ^ b2 /\ 2 ^ (ByteBits * 3) = 2 ^ b3
       /\ 2 ^ (ByteBits * 4) = 2 ^ b4
  BY <1>2, <1>5, <1>8
<1>11. ByteMod \in Nat /\ ByteMod > 0 /\ WordMod \in Nat /\ WordMod > 0
  BY <1>5, <1>8
<1> QED
  BY <1>7, <1>8, <1>9, <1>10, <1>11

\* A number of four places is the sum of its digits.
LEMMA Digits ==
    ASSUME NEW B \in Nat, B > 0, NEW w \in Nat
    PROVE  /\ w = (w % B) + B * (w \div B)
           /\ w \div B = ((w \div B) % B) + B * (w \div (B * B))
           /\ w \div (B * B) = ((w \div (B * B)) % B) + B * (w \div (B * (B * B)))
           /\ w \div B \in Nat /\ w \div (B * B) \in Nat /\ w \div (B * (B * B)) \in Nat
<1>1. /\ \A v \in Nat : v = (v % B) + B * (v \div B) /\ v \div B \in Nat
  OBVIOUS
<1>2. w \div (B * B) = (w \div B) \div B
  BY DivDiv
<1>3. B * B \in Nat /\ B * B > 0
  OBVIOUS
<1>4. w \div ((B * B) * B) = (w \div (B * B)) \div B
  BY <1>3, DivDiv
<1>5. (B * B) * B = B * (B * B)
  OBVIOUS
<1> QED
  BY <1>1, <1>2, <1>4, <1>5

LEMMA ByteFacts ==
    ASSUME NEW w \in Int, NEW k \in 0 .. 3
    PROVE  Byte(w, k) \in 0 .. ByteMod - 1
<1>1. /\ 2 ^ (ByteBits * k) \in Nat /\ 2 ^ (ByteBits * k) > 0
      /\ ByteMod \in Nat /\ ByteMod > 0
  BY Places
<1> DEFINE d == 2 ^ (ByteBits * k)
<1> HIDE DEF d
<1>2. w \div d \in Int
  BY <1>1 DEF d
<1>3. \A v \in Int : v % ByteMod \in 0 .. ByteMod - 1
  BY <1>1
<1> QED
  BY <1>2, <1>3 DEF Byte, d

\* What Write puts into memory Read gets back, for accesses of any size.
LEMMA RoundTrip ==
    ASSUME NEW n \in {1, 2, 4}, NEW w \in 0 .. 2 ^ (ByteBits * n) - 1, NEW m, NEW a \in Nat,
           \A k \in 0 .. n - 1 : m[a + k] = Byte(w, k)
    PROVE  LoadBytes(m, a, n) = w
<1> DEFINE B == ByteMod
<1>1. /\ B \in Nat /\ B > 0
      /\ 2 ^ (ByteBits * 0) = 1 /\ 2 ^ (ByteBits * 1) = B
      /\ 2 ^ (ByteBits * 2) = B * B /\ 2 ^ (ByteBits * 3) = B * (B * B)
      /\ 2 ^ (ByteBits * 4) = B * (B * (B * B))
      /\ 2 ^ (ByteBits * n) \in Nat
  BY Places
<1>2. w \in Nat /\ w < 2 ^ (ByteBits * n)
  BY <1>1
<1>3. /\ Byte(w, 0) = w % B /\ Byte(w, 1) = (w \div B) % B
      /\ Byte(w, 2) = (w \div (B * B)) % B /\ Byte(w, 3) = (w \div (B * (B * B))) % B
  <2>1. w \div 1 = w
    BY <1>2
  <2> QED
    BY <1>1, <2>1 DEF Byte
<1> HIDE DEF B
<1>4. /\ w = (w % B) + B * (w \div B)
      /\ w \div B = ((w \div B) % B) + B * (w \div (B * B))
      /\ w \div (B * B) = ((w \div (B * B)) % B) + B * (w \div (B * (B * B)))
  BY <1>1, <1>2, Digits
<1>5. \A v \in Nat : v < B => v % B = v
  BY <1>1
<1>6. CASE n = 1
  <2>1. w % B = w
    BY <1>1, <1>2, <1>5, <1>6
  <2>2. m[a] = Byte(w, 0)
    BY <1>6
  <2> QED
    BY <1>3, <1>6, <2>1, <2>2 DEF LoadBytes
<1>7. CASE n = 2
  <2>1. w \div B \in Nat /\ w \div B < B
    BY <1>1, <1>2, <1>7, DivBound
  <2>2. (w \div B) % B = w \div B
    BY <1>5, <2>1
  <2>3. m[a] = Byte(w, 0) /\ m[a + 1] = Byte(w, 1)
    BY <1>7
  <2>4. LoadBytes(m, a, n) = m[a] + ByteMod * m[a + 1]
    BY <1>7 DEF LoadBytes
  <2>5. LoadBytes(m, a, n) = (w % B) + B * (w \div B)
    BY <1>3, <2>2, <2>3, <2>4 DEF B
  <2> QED
    BY <1>4, <2>5
<1>8. CASE n = 4
  <2>1. B * (B * B) \in Nat /\ B * (B * B) > 0 /\ B * (B * (B * B)) = (B * (B * B)) * B
    BY <1>1
  <2>2. w \div (B * (B * B)) \in Nat /\ w \div (B * (B * B)) < B
    BY <1>1, <1>2, <1>8, <2>1, DivBound
  <2>3. (w \div (B * (B * B))) % B = w \div (B * (B * B))
    BY <1>5, <2>2
  <2>4. /\ m[a] = Byte(w, 0) /\ m[a + 1] = Byte(w, 1)
        /\ m[a + 2] = Byte(w, 2) /\ m[a + 3] = Byte(w, 3)
    BY <1>8
  <2>5. LoadBytes(m, a, n)
           = m[a] + ByteMod * (m[a + 1] + ByteMod * (m[a + 2] + ByteMod * m[a + 3]))
    BY <1>8 DEF LoadBytes
  <2>6. LoadBytes(m, a, n)
           = (w % B) + B * (((w \div B) % B)
             + B * (((w \div (B * B)) % B) + B * (w \div (B * (B * B)))))
    BY <1>3, <2>3, <2>4, <2>5 DEF B
  <2> QED
    BY <1>4, <2>6
<1> QED
  BY <1>6, <1>7, <1>8

-----------------------------------------------------------------------------
(***************************************************************************)
(* Mapping signals into memory.                                            *)
(***************************************************************************)
Bytes == 0 .. ByteMod - 1
Memory == [DataBytes -> Bytes]

LEMMA LayoutFacts ==
    ASSUME NEW s \in DOMAIN Layout
    PROVE  /\ Layout[s].at \in Nat /\ Layout[s].size \in {1, 2, 4} /\ Layout[s].size \in Nat
           /\ 2 ^ (ByteBits * Layout[s].size) \in Nat
           /\ \A w \in Holds(s) : w \in Nat
           /\ \A k \in 0 .. Layout[s].size - 1 :
                 /\ Layout[s].at + k \in Span(s) /\ Layout[s].at + k \in DataBytes
                 /\ k \in 0 .. 3
           /\ \A b \in Span(s) : b \in DataBytes /\ b - Layout[s].at \in 0 .. Layout[s].size - 1
<1>1. Layout[s].at \in Nat /\ Layout[s].size \in {1, 2, 4} /\ Span(s) \subseteq DataBytes
  BY LayoutAssumption
<1>2. 2 ^ (ByteBits * Layout[s].size) \in Nat
  BY <1>1, Places
<1> QED
  BY <1>1, <1>2 DEF Span, Holds

\* The value of a signal that is mapped is the one in memory.
Kept(s) == LoadBytes(ram, Layout[s].at, Layout[s].size) = storage[s]

LEMMA MapToKeeps ==
    ASSUME ram \in Memory, NEW S \in SUBSET DOMAIN Layout, MapTo(S),
           \A s \in DOMAIN Layout : storage[s] \in Holds(s)
    PROVE  /\ ram' \in Memory
           /\ \A s \in S : LoadBytes(ram', Layout[s].at, Layout[s].size) = storage[s]
           /\ \A s \in DOMAIN Layout \ S :
                 LoadBytes(ram', Layout[s].at, Layout[s].size)
                    = LoadBytes(ram, Layout[s].at, Layout[s].size)
<1> DEFINE owner(b) == CHOOSE s \in S : b \in Span(s)
<1>1. ram' = [b \in DataBytes |->
                 IF \E s \in S : b \in Span(s)
                 THEN Byte(storage[owner(b)], b - Layout[owner(b)].at) ELSE ram[b]]
  BY DEF MapTo, Memory
<1>2. ASSUME NEW b \in DataBytes, NEW s \in S, b \in Span(s)
      PROVE  owner(b) = s
  <2>1. owner(b) \in S /\ b \in Span(owner(b))
    BY <1>2
  <2> QED
    BY <1>2, <2>1, LayoutAssumption
<1> HIDE DEF owner
<1>3. ASSUME NEW s \in S, NEW k \in 0 .. Layout[s].size - 1
      PROVE  ram'[Layout[s].at + k] = Byte(storage[s], k)
  <2> DEFINE b == Layout[s].at + k
  <2>1. b \in Span(s) /\ b \in DataBytes /\ b - Layout[s].at = k
    BY LayoutFacts
  <2> HIDE DEF b
  <2>2. owner(b) = s
    BY <1>2, <2>1
  <2>3. ram'[b] = Byte(storage[s], b - Layout[s].at)
    BY <1>1, <2>1, <2>2
  <2> QED
    BY <2>1, <2>3 DEF b
<1>4. ASSUME NEW s \in S
      PROVE  LoadBytes(ram', Layout[s].at, Layout[s].size) = storage[s]
  <2>1. /\ Layout[s].at \in Nat /\ Layout[s].size \in {1, 2, 4}
        /\ storage[s] \in 0 .. 2 ^ (ByteBits * Layout[s].size) - 1
    BY LayoutFacts DEF Holds
  <2> QED
    BY <1>3, <2>1, RoundTrip
<1>5. ASSUME NEW s \in DOMAIN Layout \ S, NEW k \in 0 .. Layout[s].size - 1
      PROVE  ram'[Layout[s].at + k] = ram[Layout[s].at + k]
  <2> DEFINE b == Layout[s].at + k
  <2>1. b \in Span(s) /\ b \in DataBytes
    BY LayoutFacts
  <2> HIDE DEF b
  <2>2. ~ \E t \in S : b \in Span(t)
    BY <2>1, LayoutAssumption
  <2> QED
    BY <1>1, <2>1, <2>2 DEF b
<1>6. ASSUME NEW s \in DOMAIN Layout \ S
      PROVE  LoadBytes(ram', Layout[s].at, Layout[s].size)
                = LoadBytes(ram, Layout[s].at, Layout[s].size)
  <2>1. Layout[s].at \in Nat /\ Layout[s].size \in {1, 2, 4}
    BY LayoutFacts
  <2>2. Layout[s].at + 0 = Layout[s].at
    BY <2>1
  <2>3. CASE Layout[s].size = 1
    BY <1>5, <2>2, <2>3 DEF LoadBytes
  <2>4. CASE Layout[s].size = 2
    BY <1>5, <2>2, <2>4 DEF LoadBytes
  <2>5. CASE Layout[s].size = 4
    BY <1>5, <2>2, <2>5 DEF LoadBytes
  <2> QED
    BY <2>1, <2>3, <2>4, <2>5
<1>7. ram' \in Memory
  <2>1. ASSUME NEW b \in DataBytes
        PROVE  ram'[b] \in Bytes
    <3>1. CASE \E s \in S : b \in Span(s)
      <4>1. PICK s \in S : b \in Span(s)
        BY <3>1
      <4>2. owner(b) = s
        BY <1>2, <4>1
      <4>3. ram'[b] = Byte(storage[s], b - Layout[s].at)
        BY <1>1, <3>1, <4>2
      <4>4. b - Layout[s].at \in 0 .. 3 /\ storage[s] \in Int
        BY <4>1, LayoutFacts
      <4> QED
        BY <4>3, <4>4, ByteFacts DEF Bytes
    <3>2. CASE ~ \E s \in S : b \in Span(s)
      BY <1>1, <3>2 DEF Memory
    <3> QED
      BY <3>1, <3>2
  <2>2. ram' = [b \in DataBytes |-> ram'[b]]
    BY <1>1
  <2> QED
    BY <2>1, <2>2 DEF Memory
<1> QED
  BY <1>4, <1>6, <1>7

\* How far the signals have come.
BootInv ==
    /\ platform \in {"orca-dma", "single-core"}
    /\ phase \in {"create_wires", "map_wires", "map_counters", "load", "running"}
    /\ phase # "running" => ram \in Memory
    /\ DOMAIN storage = DOMAIN Layout
    /\ \A s \in DOMAIN Layout : storage[s] \in Holds(s)
    /\ phase # "create_wires" =>
          /\ \A s \in Wires(platform) : storage[s] = 0
          /\ \A s \in Ids(platform) : storage[s] = TileId
    /\ phase \in {"create_wires", "map_wires"} => mapped = {}
    /\ phase = "map_counters" => mapped = Wires(platform) \cup Ids(platform)
    /\ phase = "load" => mapped = Wires(platform) \cup Ids(platform) \cup Counters
    /\ phase \in {"map_counters", "load"} => \A s \in mapped : Kept(s)

LEMMA SignalNames ==
    ASSUME NEW p \in {"orca-dma", "single-core"}
    PROVE  /\ Wires(p) \cup Ids(p) \subseteq DOMAIN Layout /\ Counters \subseteq DOMAIN Layout
           /\ (Wires(p) \cup Ids(p)) \cap Counters = {} /\ Wires(p) \cap Ids(p) = {}
           /\ {"stall", "intr"} \subseteq Wires(p)
           /\ \A s \in Ids(p) : s = "id"
<1>1. DOMAIN Layout = Wires("orca-dma") \cup Ids("orca-dma") \cup Counters
  BY LayoutAssumption
<1>2. Wires(p) \subseteq Wires("orca-dma") /\ Ids(p) \subseteq Ids("orca-dma")
  BY DEF Wires, Ids
<1>3. (Wires(p) \cup Ids(p)) \cap Counters = {} /\ Wires(p) \cap Ids(p) = {}
  BY DEF Wires, Ids, Counters
<1> QED
  BY <1>1, <1>2, <1>3 DEF Wires, Ids

LEMMA InitBoot == Init => BootInv
<1> SUFFICES ASSUME Init PROVE BootInv
  OBVIOUS
<1>1. 0 \in Bytes
  BY Places DEF Bytes
<1>2. ram \in Memory
  BY <1>1 DEF Init, Memory
<1>3. PICK g \in Garbage : storage = [s \in DOMAIN Layout |-> g]
  BY DEF Init
<1>4. \A s \in DOMAIN Layout : storage[s] \in Holds(s)
  BY <1>3, LayoutAssumption
<1> QED
  BY <1>2, <1>3, <1>4 DEF Init, BootInv

LEMMA ResetWiresBoot == ASSUME BootInv, ResetWires, platform' = platform PROVE BootInv'
<1>1. /\ phase' = "map_wires" /\ mapped' = {} /\ ram' = ram /\ ram \in Memory
      /\ platform \in {"orca-dma", "single-core"}
      /\ storage' = [s \in DOMAIN Layout |->
                        IF s \in Wires(platform) THEN 0
                        ELSE IF s \in Ids(platform) THEN TileId ELSE storage[s]]
  BY DEF BootInv, ResetWires
<1>2. ASSUME NEW s \in DOMAIN Layout
      PROVE  storage'[s] \in Holds(s)
  <2>1. storage[s] \in Holds(s)
    BY DEF BootInv
  <2>2. 0 \in Holds(s)
    <3>1. 2 ^ (ByteBits * Layout[s].size) \in Nat \ {0}
      <4>1. Layout[s].size \in 0 .. 4
        BY LayoutFacts
      <4> QED
        BY <4>1, Places
    <3> QED
      BY <3>1 DEF Holds
  <2>3. s \in Ids(platform) => TileId \in Holds(s)
    BY <1>1, SignalNames, LayoutAssumption
  <2> QED
    BY <1>1, <2>1, <2>2, <2>3
<1>3. /\ \A s \in Wires(platform) : storage'[s] = 0
      /\ \A s \in Ids(platform) : storage'[s] = TileId
  BY <1>1, SignalNames
<1> QED
  BY <1>1, <1>2, <1>3 DEF BootInv

LEMMA MapWiresBoot == ASSUME BootInv, MapWires, platform' = platform PROVE BootInv'
<1> DEFINE S == Wires(platform) \cup Ids(platform)
<1>1. /\ phase = "map_wires" /\ phase' = "map_counters" /\ mapped' = S /\ storage' = storage
      /\ MapTo(S) /\ ram \in Memory /\ platform \in {"orca-dma", "single-core"}
      /\ \A s \in DOMAIN Layout : storage[s] \in Holds(s)
  BY DEF BootInv, MapWires
<1>2. S \in SUBSET DOMAIN Layout
  BY <1>1, SignalNames
<1> HIDE DEF S
<1>3. /\ ram' \in Memory
      /\ \A s \in S : LoadBytes(ram', Layout[s].at, Layout[s].size) = storage[s]
  BY <1>1, <1>2, MapToKeeps
<1>4. \A s \in mapped' : Kept(s)'
  BY <1>1, <1>3 DEF Kept
<1> QED
  BY <1>1, <1>3, <1>4 DEF BootInv, S

\* The counters are mapped beside the wires, which stay as they are.
LEMMA MapCountersBoot == ASSUME BootInv, MapCounters, platform' = platform PROVE BootInv'
<1>1. /\ phase = "map_counters" /\ phase' = "load" /\ storage' = storage
      /\ mapped = Wires(platform) \cup Ids(platform) /\ mapped' = mapped \cup Counters
      /\ MapTo(Counters) /\ ram \in Memory /\ platform \in {"orca-dma", "single-core"}
      /\ \A s \in DOMAIN Layout : storage[s] \in Holds(s)
      /\ \A s \in mapped : Kept(s)
  BY DEF BootInv, MapCounters
<1>2. /\ Counters \in SUBSET DOMAIN Layout /\ mapped \subseteq DOMAIN Layout \ Counters
  BY <1>1, SignalNames
<1>3. /\ ram' \in Memory
      /\ \A s \in Counters : LoadBytes(ram', Layout[s].at, Layout[s].size) = storage[s]
      /\ \A s \in DOMAIN Layout \ Counters :
            LoadBytes(ram', Layout[s].at, Layout[s].size)
               = LoadBytes(ram, Layout[s].at, Layout[s].size)
  BY <1>1, <1>2, MapToKeeps
<1>4. \A s \in mapped' : Kept(s)'
  BY <1>1, <1>2, <1>3 DEF Kept
<1> QED
  BY <1>1, <1>3, <1>4 DEF BootInv

LEMMA NextBoot == BootInv /\ [Next]_vars => BootInv'
<1> SUFFICES ASSUME BootInv, [Next]_vars PROVE BootInv'
  OBVIOUS
<1>1. CASE ResetWires /\ platform' = platform
  BY <1>1, ResetWiresBoot
<1>2. CASE MapWires /\ platform' = platform
  BY <1>2, MapWiresBoot
<1>3. CASE MapCounters /\ platform' = platform
  BY <1>3, MapCountersBoot
<1>4. CASE LoadBin /\ platform' = platform
  <2>1. UNCHANGED <<mapped, storage, ram, platform>> /\ (phase' = phase \/ phase' = "running")
    BY <1>4 DEF LoadBin
  <2> QED
    BY <1>4, <2>1 DEF BootInv, LoadBin, Kept
<1>5. CASE Running /\ UNCHANGED <<platform, phase, mapped, storage>>
  BY <1>5 DEF BootInv, Running
<1>6. CASE UNCHANGED vars
  BY <1>6 DEF vars, bootVars, signalVars, BootInv, Kept
<1>7. Cycle => Running /\ UNCHANGED <<platform, phase, mapped, storage>>
  <2>1. Run => UNCHANGED <<platform, phase, mapped, storage>>
    BY DEF Run, bootVars, signalVars
  <2>2. Skip => Running
    BY DEF Skip
  <2>3. Instruction => Running
    BY DEF Instruction, LoadUpper, Jump, Branch, Arithmetic, LoadData, LoadHostTime, LoadPort,
           StoreData, StoreZero, StoreStatus, StorePort, StoresTo, Exit, Throw, Trap, Undefined,
           Executes
  <2> QED
    BY <2>1, <2>2, <2>3 DEF Cycle, Run
<1>8. NetifStep => Running /\ UNCHANGED <<platform, phase, mapped, storage>>
  BY DEF NetifStep, RaiseIntr, StartCopy, EndCopy, Flush, Netif, bootVars, signalVars
<1> QED
  BY <1>1, <1>2, <1>3, <1>4, <1>5, <1>6, <1>7, <1>8 DEF Next, Boot

\* For every layout whose signals do not overlap, and whatever uninitialised
\* storage holds: between the constructor of the tile and the first cycle no
\* signal loses its value to another one that is mapped (USignal::MapTo).
THEOREM MappingIsKept == Spec => []MappingKeeps
<1>1. BootInv => MappingKeeps
  <2> SUFFICES ASSUME BootInv, phase = "load" PROVE MappingKeeps
    BY DEF MappingKeeps
  <2>1. /\ mapped = Wires(platform) \cup Ids(platform) \cup Counters
        /\ \A s \in mapped : ReadSignal(s) = storage[s]
        /\ \A s \in Wires(platform) : storage[s] = 0
        /\ \A s \in Ids(platform) : storage[s] = TileId
    BY DEF BootInv, Kept, ReadSignal
  <2> QED
    BY <2>1 DEF MappingKeeps
<1> QED
  BY <1>1, InitBoot, NextBoot, PTL DEF Spec

-----------------------------------------------------------------------------
(***************************************************************************)
(* Words and their bits.                                                   *)
(***************************************************************************)
LEMMA Smallest ==
    ASSUME NEW T \in SUBSET Nat, T # {}
    PROVE  \E x \in T : \A y \in T : x <= y
<1> DEFINE Less == {p \in Nat \X Nat : p[1] < p[2]}
<1>1. IsWellFoundedOn(Less, Nat)
  <2>1. Less = OpToRel(<, Nat)
    BY DEF OpToRel
  <2> QED
    BY <2>1, NatLessThanWellFounded
<1> HIDE DEF Less
<1>2. PICK x \in T : \A y \in T : ~ (<<y, x>> \in Less)
  BY <1>1, WFMin
<1>3. ASSUME NEW y \in T
      PROVE  x <= y
  <2>1. x \in Nat /\ y \in Nat
    OBVIOUS
  <2>2. ~ (<<y, x>> \in Less)
    BY <1>2
  <2>3. ~ (y < x)
    BY <2>1, <2>2 DEF Less
  <2> QED
    BY <2>1, <2>3
<1> QED
  BY <1>3

LEMMA WordFacts ==
    /\ WordBits \in Nat /\ WordBits >= 4 /\ Positions = 0 .. WordBits - 1
    /\ WordMod = 2 ^ WordBits /\ WordMod \in Nat /\ WordMod > 1
    /\ Word = 0 .. WordMod - 1
<1>1. WordBits \in Nat /\ WordBits >= 4
  BY ByteBitsAssumption DEF WordBits
<1>2. WordMod \in Nat /\ WordMod > 1
  <2>1. 2 ^ 1 = 2 /\ 1 + (WordBits - 1) = WordBits
        /\ 1 \in 0 .. WordBits /\ WordBits - 1 \in 0 .. WordBits
    BY <1>1, PowerAssumption
  <2>2. 2 ^ WordBits = 2 ^ 1 * 2 ^ (WordBits - 1) /\ 2 ^ (WordBits - 1) \in Nat \ {0}
    <3>1. 1 + (WordBits - 1) <= WordBits
      BY <1>1
    <3>2. 2 ^ (1 + (WordBits - 1)) = 2 ^ 1 * 2 ^ (WordBits - 1)
      BY <2>1, <3>1, PowerAssumption
    <3> QED
      BY <2>1, <3>2, PowerAssumption
  <2> QED
    BY <2>1, <2>2 DEF WordMod
<1> QED
  BY <1>1, <1>2 DEF Positions, WordMod, Word

LEMMA WrapType == \A n \in Int : Wrap(n) \in Word
<1>1. \A n \in Int : n % WordMod \in 0 .. WordMod - 1
  BY WordFacts
<1> QED
  BY <1>1, WordFacts DEF Wrap

LEMMA DivAdd ==
    ASSUME NEW d \in Nat, d > 0, NEW w \in Int, NEW c \in Int
    PROVE  (w + d * c) \div d = (w \div d) + c
<1> DEFINE a == w \div d
           b == w % d
<1>1. w = d * a + b /\ b \in 0 .. d - 1 /\ a \in Int
  OBVIOUS
<1> HIDE DEF a, b
<1>2. w + d * c = d * (a + c) + b /\ w + d * c \in Int /\ a + c \in Int
  BY <1>1
<1> QED
  BY <1>1, <1>2, DivUnique DEF a

\* A power of two, from one below.
LEMMA PowerStep ==
    ASSUME NEW i \in Nat, NEW k \in 0 .. WordBits, i < k
    PROVE  /\ 2 ^ i \in Nat /\ 2 ^ i > 0 /\ 2 ^ (k - i - 1) \in Nat /\ 2 ^ (k - i - 1) > 0
           /\ 2 ^ k = 2 ^ i * (2 * 2 ^ (k - i - 1))
<1>1. /\ WordBits \in Nat /\ i \in 0 .. WordBits /\ k - i \in 0 .. WordBits
      /\ k - i - 1 \in 0 .. WordBits /\ 1 \in 0 .. WordBits
      /\ i + (k - i) = k /\ 1 + (k - i - 1) = k - i /\ k <= WordBits /\ k - i <= WordBits
  BY WordFacts
<1>2. 2 ^ (i + (k - i)) = 2 ^ i * 2 ^ (k - i)
  BY <1>1, PowerAssumption
<1>3. 2 ^ (1 + (k - i - 1)) = 2 ^ 1 * 2 ^ (k - i - 1)
  BY <1>1, PowerAssumption
<1>4. 2 ^ 1 = 2 /\ 2 ^ i \in Nat \ {0} /\ 2 ^ (k - i - 1) \in Nat \ {0}
  BY <1>1, PowerAssumption
<1> QED
  BY <1>1, <1>2, <1>3, <1>4

\* Bit i of w.
Bit(w, i) == (w \div 2 ^ i) % 2

LEMMA BitBelow ==
    ASSUME NEW w \in Int, NEW c \in Int, NEW k \in 0 .. WordBits, NEW i \in Nat, i < k
    PROVE  Bit(w + 2 ^ k * c, i) = Bit(w, i)
<1> DEFINE e == 2 ^ (k - i - 1)
           d == 2 ^ i
<1>1. d \in Nat /\ d > 0 /\ e \in Nat /\ 2 ^ k = d * (2 * e)
  BY PowerStep
<1> HIDE DEF d, e
<1>2. 2 ^ k * c = d * (2 * (e * c)) /\ 2 * (e * c) \in Int /\ e * c \in Int
  BY <1>1
<1>3. (w + d * (2 * (e * c))) \div d = (w \div d) + 2 * (e * c)
  BY <1>1, <1>2, DivAdd
<1>4. w \div d \in Int
  BY <1>1
<1>5. \A x, y \in Int : (x + 2 * y) % 2 = x % 2
  OBVIOUS
<1> QED
  BY <1>2, <1>3, <1>4, <1>5 DEF Bit, d

LEMMA BitAt ==
    ASSUME NEW k \in 0 .. WordBits, NEW w \in 0 .. 2 ^ k - 1
    PROVE  Bit(w, k) = 0 /\ Bit(w + 2 ^ k, k) = 1
<1> DEFINE d == 2 ^ k
<1>1. d \in Nat /\ d > 0 /\ w \in 0 .. d - 1
  BY PowerAssumption
<1> HIDE DEF d
<1>2. w \div d = 0
  BY <1>1, DivUnique
<1>3. (w + d) \div d = 1
  BY <1>1, DivUnique
<1> QED
  BY <1>2, <1>3 DEF Bit, d

LEMMA BitAbove ==
    ASSUME NEW k \in 0 .. WordBits, NEW w \in 0 .. 2 ^ k - 1, NEW i \in 0 .. WordBits, i >= k
    PROVE  Bit(w, i) = 0 /\ w \in 0 .. 2 ^ i - 1
<1>1. CASE i = k
  BY <1>1, BitAt
<1>2. CASE i # k
  <2>1. /\ 2 ^ i = 2 ^ k * (2 * 2 ^ (i - k - 1)) /\ 2 ^ k \in Nat
        /\ 2 ^ (i - k - 1) \in Nat /\ 2 ^ (i - k - 1) > 0
    BY <1>2, PowerStep
  <2>2. 2 ^ i >= 2 ^ k /\ 2 ^ i \in Nat
    BY <2>1
  <2>3. w \in 0 .. 2 ^ i - 1
    BY <2>1, <2>2
  <2> QED
    BY <2>3, BitAt
<1> QED
  BY <1>1, <1>2

\* There is a word with any bits.
LEMMA WordExists ==
    \A n \in 0 .. WordBits : \A bs \in SUBSET (0 .. n - 1) :
        \E w \in 0 .. 2 ^ n - 1 : Bits(w) = bs
<1> DEFINE P(n) == \A bs \in SUBSET (0 .. n - 1) : \E w \in 0 .. 2 ^ n - 1 : Bits(w) = bs
           T == {n \in 0 .. WordBits : ~ P(n)}
<1>1. SUFFICES ASSUME T # {} PROVE FALSE
  OBVIOUS
<1>2. PICK n \in T : \A y \in T : n <= y
  <2>1. T \in SUBSET Nat
    BY WordFacts
  <2> QED
    BY <1>1, <2>1, Smallest
<1>3. n \in 0 .. WordBits /\ ~ P(n)
  OBVIOUS
<1>4. PICK bs \in SUBSET (0 .. n - 1) : ~ \E w \in 0 .. 2 ^ n - 1 : Bits(w) = bs
  BY <1>3
<1>5. CASE n = 0
  <2>1. bs = {} /\ 2 ^ n = 1 /\ 0 \in 0 .. 2 ^ n - 1
    BY <1>5, PowerAssumption
  <2>2. ASSUME NEW i \in Positions
        PROVE  Bit(0, i) = 0
    <3>1. 0 \in 0 .. WordBits /\ 0 \in 0 .. 2 ^ 0 - 1 /\ i \in 0 .. WordBits /\ i >= 0
      BY <1>5, <2>1, WordFacts
    <3> QED
      BY <3>1, BitAbove
  <2>3. Bits(0) = {}
    BY <2>2 DEF Bits, Bit
  <2> QED
    BY <1>4, <2>1, <2>3
<1>6. CASE n # 0
  <2> DEFINE k == n - 1
             b0 == bs \ {k}
  <2>1. k \in 0 .. WordBits /\ k \in Positions /\ ~ (n <= k) /\ k \in Nat /\ k < n
    BY <1>3, <1>6, WordFacts
  <2>2. P(k)
    BY <1>2, <2>1
  <2>3. b0 \in SUBSET (0 .. k - 1)
    BY <1>3, <1>4, <2>1
  <2>8. k + 1 = n
    BY <1>3, WordFacts
  <2> HIDE DEF b0, k
  <2>4. PICK w \in 0 .. 2 ^ k - 1 : Bits(w) = b0
    BY <2>2, <2>3
  <2>5. 2 ^ n = 2 * 2 ^ k /\ 2 ^ k \in Nat /\ 2 ^ k > 0
    <3>1. 2 ^ n = 2 ^ k * (2 * 2 ^ (n - k - 1))
      BY <1>3, <2>1, PowerStep
    <3>3. n - k - 1 = 0
      BY <2>1, <2>8
    <3>2. 2 ^ k \in Nat \ {0} /\ 2 ^ 0 = 1
      BY <2>1, PowerAssumption
    <3>4. 2 ^ (n - k - 1) = 1
      BY <3>2, <3>3
    <3> HIDE DEF T, P
    <3>5. 2 ^ n = 2 ^ k * 2
      BY <3>1, <3>4
    <3> QED
      BY <3>2, <3>5
  <2>6. CASE k \notin bs
    <3>1. b0 = bs /\ w \in 0 .. 2 ^ n - 1
      BY <2>4, <2>5, <2>6 DEF b0
    <3> QED
      BY <1>4, <2>4, <3>1
  <2>7. CASE k \in bs
    <3> DEFINE v == w + 2 ^ k
    <3>1. v \in 0 .. 2 ^ n - 1 /\ w \in Int
      BY <2>4, <2>5
    <3>2. ASSUME NEW i \in Positions
          PROVE  i \in Bits(v) <=> i \in bs
      <4>1. i \in Bits(v) <=> Bit(v, i) = 1
        BY DEF Bits, Bit
      <4>2. i \in b0 <=> Bit(w, i) = 1
        BY <2>4 DEF Bits, Bit
      <4>3. CASE i < k
        <5>1. 2 ^ k * 1 = 2 ^ k
          BY <2>5
        <5>3. i \in Nat /\ 1 \in Int
          BY WordFacts
        <5>2. Bit(w + 2 ^ k * 1, i) = Bit(w, i)
          BY <2>1, <3>1, <4>3, <5>3, BitBelow
        <5> QED
          BY <4>1, <4>2, <4>3, <5>1, <5>2, <2>1 DEF b0
      <4>4. CASE i = k
        BY <2>1, <2>4, <2>7, <4>1, <4>4, BitAt
      <4>5. CASE i > k
        <5>3. n \in 0 .. WordBits /\ i \in 0 .. WordBits /\ i >= n
          BY <1>3, <2>1, <2>8, <4>5, WordFacts
        <5>1. Bit(v, i) = 0
          BY <3>1, <5>3, BitAbove
        <5>2. i \notin bs
          BY <1>4, <5>3
        <5> QED
          BY <4>1, <5>1, <5>2
      <4> QED
        BY <2>1, <4>3, <4>4, <4>5, WordFacts
    <3>3. bs \subseteq Positions /\ Bits(v) \subseteq Positions
      BY <1>3, <1>4, WordFacts DEF Bits
    <3>4. Bits(v) = bs
      BY <3>2, <3>3
    <3> QED
      BY <1>4, <3>1, <3>4
  <2> QED
    BY <2>6, <2>7
<1> QED
  BY <1>5, <1>6

LEMMA WordOfFacts ==
    ASSUME NEW bs \in SUBSET Positions
    PROVE  WordOf(bs) \in Word /\ Bits(WordOf(bs)) = bs
<1>1. WordBits \in 0 .. WordBits /\ Positions = 0 .. WordBits - 1 /\ Word = 0 .. 2 ^ WordBits - 1
  BY WordFacts
<1>2. \E w \in Word : Bits(w) = bs
  BY <1>1, WordExists
<1> QED
  BY <1>2 DEF WordOf

-----------------------------------------------------------------------------
(***************************************************************************)
(* Types.                                                                  *)
(***************************************************************************)
RegisterIds == 0 .. Registers - 1

LEMMA LoadType ==
    ASSUME NEW m \in Memory, NEW a \in Int, NEW n \in {1, 2, 4}, InData(a, n)
    PROVE  LoadBytes(m, a, n) \in Nat
<1>1. DataBase \in Int /\ Last \in Int /\ DataBytes = DataBase .. Last
  BY AddressAssumption DEF DataBytes
<1>2. \A k \in 0 .. n - 1 : a + k \in DataBytes
  BY <1>1 DEF InData
<1>3. ByteMod \in Nat /\ ByteMod > 0 /\ \A b \in DataBytes : m[b] \in Nat
  BY Places DEF Memory, Bytes
<1>4. a + 0 = a
  OBVIOUS
<1>5. CASE n = 1
  <2>1. m[a] \in Nat
    BY <1>2, <1>3, <1>4, <1>5
  <2> QED
    BY <1>5, <2>1 DEF LoadBytes
<1>6. CASE n = 2
  <2>1. m[a] \in Nat /\ m[a + 1] \in Nat
    BY <1>2, <1>3, <1>4, <1>6
  <2>2. m[a] + ByteMod * m[a + 1] \in Nat
    BY <1>3, <2>1
  <2> QED
    BY <1>6, <2>2 DEF LoadBytes
<1>7. CASE n = 4
  <2>1. m[a] \in Nat /\ m[a + 1] \in Nat /\ m[a + 2] \in Nat /\ m[a + 3] \in Nat
    BY <1>2, <1>3, <1>4, <1>7
  <2>2. m[a] + ByteMod * (m[a + 1] + ByteMod * (m[a + 2] + ByteMod * m[a + 3])) \in Nat
    BY <1>3, <2>1
  <2> QED
    BY <1>7, <2>2 DEF LoadBytes
<1> QED
  BY <1>5, <1>6, <1>7

LEMMA StoreType ==
    ASSUME NEW m \in Memory, NEW a \in Int, NEW n \in {1, 2, 4}, NEW w \in Int
    PROVE  StoreBytes(m, a, n, w) \in Memory
<1>1. DataBytes \subseteq Int
  BY AddressAssumption DEF DataBytes
<1>2. ASSUME NEW b \in DataBytes, b \in a .. a + n - 1
      PROVE  Byte(w, b - a) \in Bytes
  <2>1. b - a \in 0 .. 3
    BY <1>2
  <2> QED
    BY <2>1, ByteFacts DEF Bytes
<1> QED
  BY <1>2 DEF StoreBytes, Memory

LEMMA SignalInData ==
    ASSUME NEW s \in DOMAIN Layout
    PROVE  Layout[s].at \in Int /\ Layout[s].size \in {1, 2, 4}
           /\ InData(Layout[s].at, Layout[s].size)
<1>1. /\ Layout[s].at \in Nat /\ Layout[s].size \in {1, 2, 4}
      /\ \A k \in 0 .. Layout[s].size - 1 : Layout[s].at + k \in DataBytes
  BY LayoutFacts
<1>2. /\ Layout[s].at + 0 \in DataBytes
      /\ Layout[s].at + (Layout[s].size - 1) \in DataBytes
  BY <1>1
<1>3. /\ Layout[s].at + 0 = Layout[s].at
      /\ Layout[s].at + (Layout[s].size - 1) = Layout[s].at + Layout[s].size - 1
  BY <1>1
<1> QED
  BY <1>1, <1>2, <1>3 DEF InData

LEMMA SignalType ==
    ASSUME NEW m \in Memory, NEW s \in DOMAIN Layout, NEW w \in Int
    PROVE  WriteSignal(m, s, w) \in Memory
BY SignalInData, StoreType DEF WriteSignal

LEMMA IncType ==
    ASSUME NEW m \in Memory, NEW s \in Counters
    PROVE  Inc(m, s) \in Memory
<1>1. s \in DOMAIN Layout
  BY LayoutAssumption
<1>2. LoadBytes(m, Layout[s].at, Layout[s].size) \in Nat
  BY <1>1, SignalInData, LoadType
<1>3. (LoadBytes(m, Layout[s].at, Layout[s].size) + 1) % CountMod \in Int
  BY <1>2, InterruptAssumption
<1> QED
  BY <1>1, <1>3, SignalType DEF Inc

LEMMA ClassType == \A op \in Known : ClassOf(op) \in Counters
BY DEF Known, ClassOf, Counters, AluOps, MulOps, DivOps, BranchOps, Loads, Stores

-----------------------------------------------------------------------------
(***************************************************************************)
(* The results of arithmetic are words.                                    *)
(***************************************************************************)
LEMMA SignedType == \A w \in Word : Signed(w) \in Int
BY WordFacts DEF Signed

LEMMA AmountFacts ==
    ASSUME NEW w \in Word
    PROVE  /\ Amount(w) \in 0 .. WordBits - 1 /\ Amount(w) \in Nat
           /\ 2 ^ Amount(w) \in Nat /\ 2 ^ Amount(w) > 0
<1>1. WordBits \in Nat /\ WordBits > 0 /\ w \in Nat
  BY WordFacts
<1>2. Amount(w) \in 0 .. WordBits - 1 /\ Amount(w) \in 0 .. WordBits
  BY <1>1 DEF Amount
<1>3. 2 ^ Amount(w) \in Nat \ {0}
  BY <1>2, PowerAssumption
<1> QED
  BY <1>1, <1>2, <1>3

\* A quotient is not above its dividend.
LEMMA DivLess ==
    ASSUME NEW w \in Nat, NEW d \in Nat, d > 0
    PROVE  w \div d \in 0 .. w
<1>1. w < d * (w + 1)
  OBVIOUS
<1>2. w \div d \in Nat /\ w \div d < w + 1
  BY <1>1, DivBound
<1> QED
  BY <1>2

LEMMA AluType ==
    ASSUME NEW op \in AluOps, NEW a \in Word, NEW b \in Word
    PROVE  Alu(op, a, b) \in Word
<1>1. a \in Nat /\ b \in Nat /\ a <= WordMod - 1 /\ WordMod \in Nat /\ WordMod > 1
      /\ Word = 0 .. WordMod - 1
  BY WordFacts
<1>2. CASE op = "ADD"
  <2>1. a + b \in Int
    BY <1>1
  <2> QED
    BY <1>2, <2>1, WrapType DEF Alu
<1>3. CASE op = "SUB"
  <2>1. a - b \in Int
    BY <1>1
  <2> QED
    BY <1>3, <2>1, WrapType DEF Alu
<1>4. CASE op = "SLL"
  <2>1. a * 2 ^ Amount(b) \in Int
    BY <1>1, AmountFacts
  <2> QED
    BY <1>4, <2>1, WrapType DEF Alu
<1>5. CASE op \in {"SLT", "SLTU"}
  <2>1. Flag(Signed(a) < Signed(b)) \in Word /\ Flag(a < b) \in Word
    BY <1>1 DEF Flag
  <2> QED
    BY <1>5, <2>1 DEF Alu
<1>6. CASE op = "XOR"
  <2>1. (Bits(a) \ Bits(b)) \cup (Bits(b) \ Bits(a)) \in SUBSET Positions
    BY DEF Bits
  <2> QED
    BY <1>6, <2>1, WordOfFacts DEF Alu
<1>7. CASE op = "SRL"
  <2>1. a \div 2 ^ Amount(b) \in 0 .. a
    BY <1>1, AmountFacts, DivLess
  <2>2. a \div 2 ^ Amount(b) \in Word
    BY <1>1, <2>1
  <2> QED
    BY <1>7, <2>2 DEF Alu
<1>8. CASE op = "SRA"
  <2> DEFINE d == 2 ^ Amount(b)
  <2>1. d \in Nat /\ d > 0 /\ Signed(a) \in Int
    BY AmountFacts, SignedType
  <2> HIDE DEF d
  <2>2. Signed(a) \div d \in Int
    BY <2>1
  <2>3. Wrap(Signed(a) \div d) \in Word
    BY <2>2, WrapType
  <2> QED
    BY <1>8, <2>3 DEF Alu, ShiftArithmetic, d
<1>9. CASE op = "OR"
  <2>1. Bits(a) \cup Bits(b) \in SUBSET Positions
    BY DEF Bits
  <2> QED
    BY <1>9, <2>1, WordOfFacts DEF Alu
<1>10. CASE op = "AND"
  <2>1. Bits(a) \cap Bits(b) \in SUBSET Positions
    BY DEF Bits
  <2> QED
    BY <1>10, <2>1, WordOfFacts DEF Alu
<1> QED
  BY <1>2, <1>3, <1>4, <1>5, <1>6, <1>7, <1>8, <1>9, <1>10 DEF AluOps

LEMMA QuotientType ==
    ASSUME NEW m \in Int, NEW n \in Int, n # 0
    PROVE  Quotient(m, n) \in Int
<1>1. Abs(m) \in Nat /\ Abs(n) \in Nat /\ Abs(n) > 0
  BY DEF Abs
<1>2. Abs(m) \div Abs(n) \in Int
  BY <1>1
<1> QED
  BY <1>2 DEF Quotient

LEMMA SignedZero == \A w \in Word : w # 0 => Signed(w) # 0
BY WordFacts DEF Signed

LEMMA MulDivType ==
    ASSUME NEW op \in MulOps \cup DivOps, NEW a \in Word, NEW b \in Word
    PROVE  MulDiv(op, a, b) \in Word
<1>1. a \in Nat /\ b \in Nat /\ a <= WordMod - 1 /\ b <= WordMod - 1
      /\ WordMod \in Nat /\ WordMod > 1 /\ Word = 0 .. WordMod - 1
  BY WordFacts
<1>2. Signed(a) \in Int /\ Signed(b) \in Int
  BY SignedType
<1>3. CASE op \in DivOps /\ b = 0
  BY <1>1, <1>3 DEF MulDiv
<1>4. CASE op = "MUL"
  <2>1. op \notin DivOps /\ Signed(a) * Signed(b) \in Int
    BY <1>2, <1>4 DEF DivOps
  <2> QED
    BY <1>4, <2>1, WrapType DEF MulDiv
<1>5. CASE op = "MULH"
  <2> DEFINE m == Signed(a) * Signed(b)
  <2>1. op \notin DivOps /\ m \in Int
    BY <1>2, <1>5 DEF DivOps
  <2> HIDE DEF m
  <2>2. m \div WordMod \in Int
    BY <1>1, <2>1
  <2>3. Wrap(m \div WordMod) \in Word
    BY <2>2, WrapType
  <2> QED
    BY <1>5, <2>1, <2>3 DEF MulDiv, m
<1>6. CASE op = "MULHSU"
  <2> DEFINE m == Signed(a) * b
             k == WordMod * WordMod
  <2>1. op \notin DivOps /\ m \in Int /\ k \in Nat /\ k > 0
    BY <1>1, <1>2, <1>6 DEF DivOps
  <2> HIDE DEF m
  <2>2. m % k \in Nat /\ m % k < k
    BY <2>1
  <2> DEFINE n == m % k
  <2> HIDE DEF n
  <2>3. n \in Nat /\ n < WordMod * WordMod
    BY <2>2 DEF n
  <2>4. n \div WordMod \in Nat /\ n \div WordMod < WordMod
    BY <1>1, <2>3, DivBound
  <2>5. n \div WordMod \in Word
    BY <1>1, <2>4
  <2> QED
    BY <1>6, <2>1, <2>5 DEF MulDiv, m, n
<1>7. CASE op = "MULHU"
  <2> DEFINE n == a * b
  <2>1. op \notin DivOps /\ n \in Nat
    BY <1>1, <1>7 DEF DivOps
  <2>2. n < WordMod * WordMod
    <3>1. a * b <= a * WordMod
      BY <1>1
    <3>2. a * WordMod <= (WordMod - 1) * WordMod
      BY <1>1
    <3>3. (WordMod - 1) * WordMod < WordMod * WordMod
      BY <1>1
    <3> QED
      BY <1>1, <3>1, <3>2, <3>3
  <2> HIDE DEF n
  <2>4. n \div WordMod \in Nat /\ n \div WordMod < WordMod
    BY <1>1, <2>1, <2>2, DivBound
  <2>5. n \div WordMod \in Word
    BY <1>1, <2>4
  <2> QED
    BY <1>7, <2>1, <2>5 DEF MulDiv, n
<1>8. CASE op = "DIV" /\ b # 0
  <2>1. Quotient(Signed(a), Signed(b)) \in Int
    BY <1>2, <1>8, QuotientType, SignedZero
  <2> QED
    BY <1>8, <2>1, WrapType DEF MulDiv
<1>9. CASE op = "DIVU" /\ b # 0
  <2>1. a \div b \in 0 .. a
    BY <1>1, <1>9, DivLess
  <2>2. a \div b \in Word
    BY <1>1, <2>1
  <2> QED
    BY <1>9, <2>2 DEF MulDiv
<1>10. CASE op = "REM" /\ b # 0
  <2>1. Quotient(Signed(a), Signed(b)) \in Int
    BY <1>2, <1>10, QuotientType, SignedZero
  <2>2. Remainder(Signed(a), Signed(b)) \in Int
    BY <1>2, <2>1 DEF Remainder
  <2> QED
    BY <1>10, <2>2, WrapType DEF MulDiv
<1>11. CASE op = "REMU" /\ b # 0
  <2>1. a % b \in 0 .. b - 1
    BY <1>1, <1>11
  <2>2. a % b \in Word
    BY <1>1, <2>1
  <2> QED
    BY <1>11, <2>2 DEF MulDiv
<1> QED
  BY <1>3, <1>4, <1>5, <1>6, <1>7, <1>8, <1>9, <1>10, <1>11 DEF MulOps, DivOps

-----------------------------------------------------------------------------
(***************************************************************************)
(* Every step keeps the types.                                             *)
(***************************************************************************)
\* What TypeOK needs: the program is one, and its parts that no cycle changes.
TypeInv ==
    /\ TypeOK
    /\ BootInv
    /\ image \in Seq(Instructions)

\* What the instruction of a cycle sees of the state.
LEMMA CycleTypes ==
    ASSUME TypeInv
    PROVE  /\ Pc \in Word /\ PcNext \in Word /\ NewEpc \in Word
           /\ Dly \in [0 .. 3 -> Word] /\ Quiet \in 0 .. Never
           /\ NewCounter \in 0 .. CounterMod - 1 /\ NewCause \subseteq Positions
           /\ X \in [RegisterIds -> Word] /\ 0 \in Word
<1>1. 0 \in Word /\ DOMAIN r = RegisterIds
  BY WordFacts DEF TypeInv, TypeOK, RegisterIds
<1>2. vector \in Word /\ pc \in Word /\ pcNext \in Word /\ epc \in Word
  BY DEF TypeInv, TypeOK
<1>3. Wrap(vector + 4) \in Word
  <2>1. vector + 4 \in Int
    BY <1>2, WordFacts
  <2> QED
    BY <2>1, WrapType
<1>4. /\ Pc \in Word /\ PcNext \in Word /\ NewEpc \in Word
  BY <1>2, <1>3 DEF Pc, PcNext, NewEpc
<1>5. Dly \in [0 .. 3 -> Word] /\ Quiet \in 0 .. Never
  BY <1>1 DEF Dly, Quiet, TypeInv, TypeOK, Never
<1>6. NewCounter \in 0 .. CounterMod - 1
  BY InterruptAssumption DEF NewCounter, TypeInv, TypeOK
<1>7. NewCause \subseteq Positions
  <2>1. cause \subseteq Positions
    BY DEF TypeInv, TypeOK, Positions
  <2>2. {0, 1, 2, 3, 4, 5, IrqNoc} \subseteq Positions
    BY InterruptAssumption
  <2> QED
    BY <2>1, <2>2 DEF NewCause
<1>8. X \in [RegisterIds -> Word]
  BY <1>1 DEF X, TypeInv, TypeOK, RegisterIds
<1> QED
  BY <1>1, <1>4, <1>5, <1>6, <1>7, <1>8

LEMMA InstType ==
    ASSUME TypeInv, InProgram(Pc)
    PROVE  Inst \in Instructions
<1> DEFINE n == (Pc - CodeBase) \div 4
<1>1. /\ Pc \in Int /\ CodeBase \in Nat /\ Len(image) \in Nat
      /\ CodeBase <= Pc /\ Pc <= CodeBase + 4 * Len(image) - 1
  BY CycleTypes, WordFacts, AddressAssumption DEF TypeInv, InProgram
<1>2. n \in Nat /\ n < Len(image)
  BY <1>1
<1>3. n + 1 \in 1 .. Len(image)
  BY <1>1, <1>2
<1> QED
  BY <1>3 DEF TypeInv, Inst

LEMMA FieldTypes ==
    ASSUME TypeInv, NEW ops, Executes(ops)
    PROVE  /\ Inst \in Instructions /\ Inst.op \in ops
           /\ Inst.op \in Known \cup {"ILLEGAL"}
           /\ Inst.rd \in RegisterIds /\ Inst.imm \in Word
           /\ Operand1 \in Word /\ Address \in Word
           /\ Inst.rs2 # None => Operand2 \in Word
           /\ Inst.op \in MulOps \cup DivOps \cup BranchOps \cup Stores => Inst.rs2 # None
           /\ Operand \in Word
<1>1. Inst \in Instructions /\ Inst.op \in ops
  BY InstType DEF Executes
<1>2. /\ Inst.op \in Known \cup {"ILLEGAL"}
      /\ Inst.rd \in RegisterIds /\ Inst.imm \in Word
      /\ Inst.rs1 \in RegisterIds
      /\ Inst.rs2 # None => Inst.rs2 \in RegisterIds
      /\ Inst.op \in MulOps \cup DivOps \cup BranchOps \cup Stores => Inst.rs2 # None
  BY <1>1 DEF Instructions, RegisterIds
<1>3. Operand1 \in Word /\ (Inst.rs2 # None => Operand2 \in Word)
  BY <1>2, CycleTypes DEF Operand1, Operand2
<1>4. Address \in Word
  <2>1. r[Inst.rs1] \in Word
    BY <1>2 DEF TypeInv, TypeOK, RegisterIds
  <2>2. r[Inst.rs1] + Inst.imm \in Int
    BY <1>2, <2>1, WordFacts
  <2> QED
    BY <2>2, WrapType DEF Address
<1>5. Operand \in Word
  BY <1>2, <1>3 DEF Operand
<1> QED
  BY <1>1, <1>2, <1>3, <1>4, <1>5

\* What no cycle changes.
Steady == UNCHANGED <<platform, phase, image, mapped, storage>>

LEMMA RetireTypes ==
    ASSUME NEW target \in Word, NEW dly \in [0 .. 3 -> Word], Retire(target, dly)
    PROVE  /\ pc' \in Word /\ pcNext' \in Word /\ status' \in Word
           /\ statusDly' \in [0 .. 3 -> Word]
<1>1. target + 4 \in Int
  BY WordFacts
<1>2. Wrap(target + 4) \in Word
  BY <1>1, WrapType
<1>3. /\ pc' = target /\ pcNext' = Wrap(target + 4) /\ status' = dly[0]
      /\ statusDly' = [i \in 0 .. 3 |-> IF i < 3 THEN dly[i + 1] ELSE dly[i]]
  BY DEF Retire, Shift
<1>4. dly[0] \in Word /\ \A i \in 0 .. 3 : dly[i] \in Word /\ (i < 3 => dly[i + 1] \in Word)
  OBVIOUS
<1> QED
  BY <1>2, <1>3, <1>4

LEMMA PassedType == \A q \in 0 .. Never : Passed(q) \in 0 .. Never
BY DEF Passed, Never

LEMMA CountedType ==
    ASSUME NEW m \in Memory, Inst.op \in Known
    PROVE  Counted(m) \in Memory
BY IncType, ClassType DEF Counted

\* Resume leaves an address, or none.
LEMMA ResumeType == ASSUME TypeInv, Resume PROVE resume' \in Word \cup {None}
BY DEF TypeInv, TypeOK, Resume

LEMMA TotalType == ASSUME TypeInv PROVE Total \in Memory
<1>1. ram \in Memory
  BY DEF TypeInv, TypeOK, Memory, Bytes
<1> QED
  BY <1>1, IncType DEF Total, Counters

LEMMA TickTypes ==
    ASSUME TypeInv, Tick
    PROVE  /\ counter' \in 0 .. CounterMod - 1 /\ compare' \in 0 .. CounterMod - 1
           /\ compare2' \in 0 .. CounterMod - 1
           /\ cause' \subseteq Positions /\ mask' \subseteq Positions
           /\ vector' \in Word /\ epc' \in Word
BY CycleTypes DEF TypeInv, TypeOK, Tick, Positions

\* TypeOK without the parts that Steady keeps.
LEMMA TypeParts ==
    ASSUME TypeInv, Steady,
           halted' \in {"no", "thrown", "aborted", "trapped", "undefined"},
           r' \in [RegisterIds -> Word],
           pc' \in Word, pcNext' \in Word, vector' \in Word, status' \in Word, epc' \in Word,
           statusDly' \in [0 .. 3 -> Word],
           cause' \subseteq Positions, mask' \subseteq Positions,
           counter' \in 0 .. CounterMod - 1, compare' \in 0 .. CounterMod - 1,
           compare2' \in 0 .. CounterMod - 1,
           ram' \in Memory, quiet' \in 0 .. Never, resume' \in Word \cup {None}
    PROVE  TypeOK'
<1>1. phase' = phase /\ mapped' = mapped
  BY DEF Steady
<1>2. phase \in {"create_wires", "map_wires", "map_counters", "load", "running"}
      /\ mapped \subseteq DOMAIN Layout
  BY DEF TypeInv, TypeOK
<1> QED
  BY <1>1, <1>2 DEF TypeOK, RegisterIds, Memory, Bytes, Positions

LEMMA PlainTypes ==
    ASSUME TypeInv, Steady, NEW rd \in RegisterIds, NEW w \in Word, NEW target \in Word,
           Plain(rd, w, target), Inst.op \in Known
    PROVE  TypeOK'
<1>1. /\ r' = [X EXCEPT ![rd] = w] /\ Retire(target, Dly) /\ Tick /\ Resume
      /\ ram' = Counted(Total) /\ quiet' = Passed(Quiet) /\ halted' = halted
  BY DEF Plain
<1>2. r' \in [RegisterIds -> Word]
  BY <1>1, CycleTypes
<1>3. ram' \in Memory
  BY <1>1, TotalType, CountedType
<1>4. quiet' \in 0 .. Never
  BY <1>1, CycleTypes, PassedType
<1>5. halted' \in {"no", "thrown", "aborted", "trapped", "undefined"}
  BY <1>1 DEF TypeInv, TypeOK
<1>6. /\ pc' \in Word /\ pcNext' \in Word /\ status' \in Word
      /\ statusDly' \in [0 .. 3 -> Word]
  BY <1>1, CycleTypes, RetireTypes
<1> QED
  BY <1>1, <1>2, <1>3, <1>4, <1>5, <1>6, TickTypes, ResumeType, TypeParts

LEMMA HaltTypes ==
    ASSUME TypeInv, Steady, NEW how \in {"thrown", "aborted", "trapped", "undefined"}, Halt(how)
    PROVE  TypeOK'
<1>1. /\ halted' = how /\ r' = X /\ pc' = Pc /\ pcNext' = PcNext
      /\ status' = (IF Interrupted THEN 0 ELSE status) /\ statusDly' = Dly
      /\ Tick /\ ram' = Total /\ quiet' = Quiet /\ resume' = resume
  BY DEF Halt
<1>2. status' \in Word /\ resume' \in Word \cup {None}
  BY <1>1, CycleTypes DEF TypeInv, TypeOK
<1> QED
  BY <1>1, <1>2, CycleTypes, TotalType, TickTypes, TypeParts

\* A store that only ticks.
LEMMA StoreTypes ==
    ASSUME TypeInv, Steady, NEW m \in Memory, Store(m), Inst.op \in Known,
           NEW dly \in [0 .. 3 -> Word], Retire(PcNext, dly), quiet' \in 0 .. Never,
           cause' \subseteq Positions, mask' \subseteq Positions,
           counter' \in 0 .. CounterMod - 1, compare' \in 0 .. CounterMod - 1,
           compare2' \in 0 .. CounterMod - 1, vector' \in Word, epc' \in Word
    PROVE  TypeOK'
<1>1. r' = X /\ Resume /\ ram' = Counted(m) /\ halted' = halted
  BY DEF Store
<1>2. r' \in [RegisterIds -> Word] /\ PcNext \in Word
  BY <1>1, CycleTypes
<1>3. ram' \in Memory
  BY <1>1, CountedType
<1>4. halted' \in {"no", "thrown", "aborted", "trapped", "undefined"}
  BY <1>1 DEF TypeInv, TypeOK
<1>5. /\ pc' \in Word /\ pcNext' \in Word /\ status' \in Word
      /\ statusDly' \in [0 .. 3 -> Word]
  BY <1>2, RetireTypes
<1> QED
  BY <1>1, <1>2, <1>3, <1>4, <1>5, ResumeType, TypeParts

LEMMA WrapSum == \A u, v \in Word : Wrap(u + v) \in Word
<1>1. \A u, v \in Word : u + v \in Int
  BY WordFacts
<1> QED
  BY <1>1, WrapType

\* An address with its lowest bit cleared.
LEMMA EvenType == \A w \in Word : w - (w % 2) \in Word
<1>1. \A w \in Nat : w % 2 \in 0 .. 1 /\ w - (w % 2) \in 0 .. w
  OBVIOUS
<1> QED
  BY <1>1, WordFacts

LEMMA ExtendType ==
    ASSUME NEW op \in Loads, NEW w \in Int
    PROVE  Extend(op, w) \in Word
<1> DEFINE m == 2 ^ (ByteBits * Size(op))
           b == w % m
<1>1. Size(op) \in {1, 2, 4} /\ (op \in {"LB", "LH"} => Size(op) \in {1, 2})
  BY DEF Loads, Size
<1>2. m \in Nat /\ m > 0 /\ m <= WordMod
  <2>1. ByteBits \in Nat /\ WordBits = 4 * ByteBits /\ WordBits \in Nat
    BY ByteBitsAssumption, WordFacts DEF WordBits
  <2>2. ByteBits * Size(op) \in 0 .. WordBits
    BY <1>1, <2>1
  <2> DEFINE i == ByteBits * Size(op)
  <2>3. CASE i = WordBits
    BY <2>3, WordFacts
  <2>4. CASE i # WordBits
    <3>1. i \in Nat /\ i < WordBits /\ WordBits \in 0 .. WordBits
      BY <2>1, <2>2, <2>4
    <3> HIDE DEF i
    <3>2. /\ 2 ^ i \in Nat /\ 2 ^ i > 0 /\ 2 ^ (WordBits - i - 1) \in Nat
          /\ 2 ^ (WordBits - i - 1) > 0 /\ 2 ^ WordBits = 2 ^ i * (2 * 2 ^ (WordBits - i - 1))
      BY <3>1, PowerStep
    <3>3. \A u, v \in Nat : v > 0 => u <= u * (2 * v)
      OBVIOUS
    <3>4. 2 ^ i <= WordMod
      BY <3>2, <3>3, WordFacts
    <3> QED
      BY <3>2, <3>4 DEF i
  <2> QED
    BY <2>3, <2>4
<1> HIDE DEF m
<1>3. b \in Nat /\ b < m
  BY <1>2
<1> HIDE DEF b
<1>4. b \in Word /\ b - m \in Int
  BY <1>2, <1>3, WordFacts
<1>5. Wrap(b - m) \in Word
  BY <1>4, WrapType
<1> QED
  BY <1>4, <1>5 DEF Extend, m, b

LEMMA LoadUpperTypes == ASSUME TypeInv, Steady, LoadUpper PROVE TypeOK'
<1>1. Executes({"LUI", "AUIPC"})
  BY DEF LoadUpper, Executes
<1>2. /\ Inst.op \in Known /\ Inst.rd \in RegisterIds /\ Inst.imm \in Word
      /\ PcNext \in Word /\ Wrap(Pc + Inst.imm) \in Word
  BY <1>1, FieldTypes, CycleTypes, WrapSum DEF Known
<1> QED
  BY <1>2, PlainTypes DEF LoadUpper

LEMMA JumpTypes == ASSUME TypeInv, Steady, Jump PROVE TypeOK'
<1>1. Executes({"JAL", "JALR"})
  BY DEF Jump, Executes
<1>2. /\ Inst \in Instructions /\ Inst.op \in Known /\ Inst.rd \in RegisterIds
      /\ Inst.imm \in Word /\ PcNext \in Word /\ Wrap(Pc + Inst.imm) \in Word
  BY <1>1, FieldTypes, CycleTypes, WrapSum DEF Known
<1>3. JumpTarget \in Word
  <2>1. Inst.rs1 \in RegisterIds
    BY <1>2 DEF Instructions, RegisterIds
  <2>2. Linked[Inst.rs1] \in Word
    BY <1>2, <2>1, CycleTypes DEF Linked
  <2>3. Wrap(Linked[Inst.rs1] + Inst.imm) \in Word
    BY <1>2, <2>2, WrapSum
  <2> QED
    BY <2>3, EvenType DEF JumpTarget
<1> QED
  BY <1>2, <1>3, PlainTypes DEF Jump

LEMMA BranchTypes == ASSUME TypeInv, Steady, Branch PROVE TypeOK'
<1>1. /\ Inst.op \in Known /\ Inst.imm \in Word /\ PcNext \in Word
      /\ Wrap(Pc + Inst.imm) \in Word /\ 0 \in Word
  BY FieldTypes, CycleTypes, WrapSum DEF Branch, Known
<1>2. 0 \in RegisterIds
  BY RegistersAssumption DEF RegisterIds
<1> DEFINE target == IF Taken(Inst.op, Operand1, Operand2) THEN Wrap(Pc + Inst.imm) ELSE PcNext
<1>3. target \in Word
  BY <1>1
<1>4. Plain(0, 0, target)
  BY DEF Branch
<1> HIDE DEF target
<1> QED
  BY <1>1, <1>2, <1>3, <1>4, PlainTypes

LEMMA ArithmeticTypes == ASSUME TypeInv, Steady, Arithmetic PROVE TypeOK'
<1>1. CASE Executes(AluOps) /\ Plain(Inst.rd, Alu(Inst.op, Operand1, Operand), PcNext)
  <2>1. /\ Inst.op \in AluOps /\ Inst.op \in Known /\ Inst.rd \in RegisterIds
        /\ Operand1 \in Word /\ Operand \in Word /\ PcNext \in Word
    BY <1>1, FieldTypes, CycleTypes DEF Known
  <2>2. Alu(Inst.op, Operand1, Operand) \in Word
    BY <2>1, AluType
  <2> QED
    BY <1>1, <2>1, <2>2, PlainTypes
<1>2. CASE /\ Executes(MulOps \cup DivOps)
           /\ Plain(Inst.rd, MulDiv(Inst.op, Operand1, Operand2), PcNext)
  <2>1. /\ Inst.op \in MulOps \cup DivOps /\ Inst.op \in Known /\ Inst.rd \in RegisterIds
        /\ Operand1 \in Word /\ Operand2 \in Word /\ PcNext \in Word
    BY <1>2, FieldTypes, CycleTypes DEF Known
  <2>2. MulDiv(Inst.op, Operand1, Operand2) \in Word
    BY <2>1, MulDivType
  <2> QED
    BY <1>2, <2>1, <2>2, PlainTypes
<1> QED
  BY <1>1, <1>2 DEF Arithmetic

LEMMA LoadFromTypes ==
    ASSUME TypeInv, Steady, Executes(Loads), NEW w \in Int, LoadFrom(w)
    PROVE  TypeOK'
<1>1. /\ Inst.op \in Loads /\ Inst.op \in Known /\ Inst.rd \in RegisterIds /\ PcNext \in Word
  BY FieldTypes, CycleTypes DEF Known
<1>2. Extend(Inst.op, w) \in Word
  BY <1>1, ExtendType
<1> QED
  BY <1>1, <1>2, PlainTypes DEF LoadFrom

LEMMA LoadDataTypes == ASSUME TypeInv, Steady, LoadData PROVE TypeOK'
<1>1. /\ Executes(Loads) /\ InData(Address, Size(Inst.op))
      /\ LoadFrom(LoadBytes(Total, Address, Size(Inst.op)))
  BY DEF LoadData
<1>2. Inst.op \in Loads /\ Address \in Int
  BY <1>1, FieldTypes, WordFacts
<1>3. Size(Inst.op) \in {1, 2, 4}
  BY <1>2 DEF Loads, Size
<1>4. LoadBytes(Total, Address, Size(Inst.op)) \in Int
  BY <1>1, <1>2, <1>3, TotalType, LoadType
<1> QED
  BY <1>1, <1>4, LoadFromTypes

\* The host time is a word wide, so that every load at its address is inside.
LEMMA LoadHostTimeTypes == ASSUME TypeInv, Steady, LoadHostTime PROVE TypeOK'
<1>1. /\ Executes(Loads) /\ Address = Layout["hosttime"].at
      /\ Retire(PcNext, Dly) /\ Tick /\ Resume /\ quiet' = Passed(Quiet) /\ halted' = halted
  BY DEF LoadHostTime
<1>2. PICK t \in HostWords :
         LET m == WriteSignal(Total, "hosttime", t)
         IN  /\ r' = [X EXCEPT ![Inst.rd] =
                         Extend(Inst.op, LoadBytes(m, Address, Size(Inst.op)))]
             /\ ram' = Counted(m)
  BY DEF LoadHostTime
<1> DEFINE m == WriteSignal(Total, "hosttime", t)
<1>3. /\ Inst.op \in Loads /\ Inst.op \in Known /\ Inst.rd \in RegisterIds
  BY <1>1, FieldTypes DEF Known
<1>4. Size(Inst.op) \in {1, 2, 4} /\ t \in Int
  BY <1>3, HostAssumption, WordFacts DEF Loads, Size
<1>5. "hosttime" \in DOMAIN Layout /\ Layout["hosttime"].size = 4
  BY LayoutAssumption DEF Counters
<1>6. m \in Memory
  BY <1>4, <1>5, TotalType, SignalType
<1>7. InData(Address, Size(Inst.op)) /\ Address \in Int
  <2>1. Address \in Int /\ InData(Address, 4)
    BY <1>1, <1>5, SignalInData
  <2>2. DataBase \in Int /\ Last \in Int
    BY AddressAssumption
  <2> QED
    BY <1>4, <2>1, <2>2 DEF InData, DataBytes
<1>8. LoadBytes(m, Address, Size(Inst.op)) \in Int
  BY <1>4, <1>6, <1>7, LoadType
<1> HIDE DEF m
<1>9. /\ r' = [X EXCEPT ![Inst.rd] = Extend(Inst.op, LoadBytes(m, Address, Size(Inst.op)))]
      /\ ram' = Counted(m)
  BY <1>2 DEF m
<1>10. r' \in [RegisterIds -> Word]
  BY <1>3, <1>8, <1>9, ExtendType, CycleTypes
<1>11. ram' \in Memory
  BY <1>3, <1>6, <1>9, CountedType
<1>12. quiet' \in 0 .. Never
  BY <1>1, CycleTypes, PassedType
<1>13. halted' \in {"no", "thrown", "aborted", "trapped", "undefined"}
  BY <1>1 DEF TypeInv, TypeOK
<1>14. /\ pc' \in Word /\ pcNext' \in Word /\ status' \in Word
       /\ statusDly' \in [0 .. 3 -> Word]
  BY <1>1, CycleTypes, RetireTypes
<1> QED
  BY <1>1, <1>10, <1>11, <1>12, <1>13, <1>14, TickTypes, ResumeType, TypeParts

LEMMA LoadPortTypes == ASSUME TypeInv, Steady, LoadPort PROVE TypeOK'
<1>1. Executes(Loads) /\ IsPort(Address, ReadPorts)
  BY DEF LoadPort
<1>2. PICK w \in PortValues(PortAt(Address)) : LoadFrom(w)
  BY DEF LoadPort
<1>3. PortAt(Address) \in ReadPorts
  <2>1. PICK p \in ReadPorts : Ports[p] = Address
    BY <1>1 DEF IsPort
  <2> QED
    BY <2>1, PortsAssumption DEF PortAt
<1>4. /\ NewCause \cup UartBits \in SUBSET Positions /\ mask \in SUBSET Positions
      /\ HostWords \subseteq Word
  BY CycleTypes, InterruptAssumption, HostAssumption DEF TypeInv, TypeOK, Positions
<1>5. WordOf(NewCause \cup UartBits) \in Word /\ WordOf(mask) \in Word
  BY <1>4, WordOfFacts
<1>6. /\ vector \in Word /\ status \in Word /\ NewEpc \in Word /\ 0 \in Word
      /\ NewCounter \in Int /\ compare \in Int /\ compare2 \in Int
  BY CycleTypes, InterruptAssumption DEF TypeInv, TypeOK
<1>7. Word \subseteq Int
  BY WordFacts
<1>8. w \in Int
  BY <1>2, <1>3, <1>4, <1>5, <1>6, <1>7 DEF PortValues, ReadPorts
<1> QED
  BY <1>1, <1>2, <1>8, LoadFromTypes

\* What every store sees.
LEMMA StoreSees ==
    ASSUME TypeInv, Executes(Stores)
    PROVE  /\ Inst.op \in Stores /\ Inst.op \in Known /\ Size(Inst.op) \in {1, 2, 4}
           /\ Operand2 \in Word /\ Operand2 \in Int /\ Address \in Int
<1>1. Inst.op \in Stores
  BY FieldTypes
<1>2. Inst.op \in Known /\ Size(Inst.op) \in {1, 2, 4}
  BY <1>1 DEF Known, Size, Stores
<1> QED
  BY <1>1, <1>2, FieldTypes, WordFacts

LEMMA StoreDataTypes == ASSUME TypeInv, Steady, StoreData PROVE TypeOK'
<1> DEFINE m == StoreBytes(Total, Address, Size(Inst.op), Operand2)
<1>1. /\ Executes(Stores) /\ Store(m) /\ Tick /\ Retire(PcNext, Dly) /\ quiet' = Passed(Quiet)
  BY DEF StoreData
<1>2. m \in Memory
  BY <1>1, StoreSees, TotalType, StoreType
<1> HIDE DEF m
<1>3. quiet' \in 0 .. Never /\ Dly \in [0 .. 3 -> Word]
  BY <1>1, CycleTypes, PassedType
<1> QED
  BY <1>1, <1>2, <1>3, StoreSees, TickTypes, StoreTypes

LEMMA StoreZeroTypes == ASSUME TypeInv, Steady, StoreZero PROVE TypeOK'
<1>1. /\ Executes(Stores) /\ Store(Total) /\ Tick /\ Retire(PcNext, [i \in 0 .. 3 |-> 0])
      /\ quiet' = Never
  BY DEF StoreZero, StoresTo
<1>2. [i \in 0 .. 3 |-> 0] \in [0 .. 3 -> Word] /\ quiet' \in 0 .. Never
  BY <1>1, CycleTypes DEF Never
<1> QED
  BY <1>1, <1>2, TotalType, StoreSees, TickTypes, StoreTypes

LEMMA StoreStatusTypes == ASSUME TypeInv, Steady, StoreStatus PROVE TypeOK'
<1> DEFINE dly == [Dly EXCEPT ![3] = Operand2]
<1>1. /\ Executes(Stores) /\ Store(Total) /\ Tick /\ Retire(PcNext, dly)
      /\ quiet' = (IF Quiet = Never THEN 3 ELSE Passed(Quiet))
  BY DEF StoreStatus, StoresTo
<1>2. dly \in [0 .. 3 -> Word] /\ quiet' \in 0 .. Never
  <2>1. Operand2 \in Word
    BY <1>1, StoreSees
  <2>2. dly \in [0 .. 3 -> Word]
    BY <2>1, CycleTypes
  <2>3. 3 \in 0 .. Never /\ Passed(Quiet) \in 0 .. Never
    BY CycleTypes, PassedType DEF Never
  <2> QED
    BY <1>1, <2>2, <2>3
<1> HIDE DEF dly
<1> QED
  BY <1>1, <1>2, TotalType, StoreSees, TickTypes, StoreTypes

LEMMA StorePortTypes == ASSUME TypeInv, Steady, StorePort PROVE TypeOK'
<1> DEFINE p == PortAt(Address)
<1>1. /\ Executes(Stores) /\ Store(Total) /\ Retire(PcNext, Dly) /\ quiet' = Passed(Quiet)
      /\ vector' = (IF p = "IRQ_VECTOR" THEN Operand2 ELSE vector)
      /\ epc' = (IF p = "IRQ_EPC" THEN Operand2 ELSE NewEpc)
      /\ counter' = (IF p = "COUNTER" THEN Operand2 % CounterMod ELSE NewCounter)
      /\ mask' = (IF p = "IRQ_MASK" THEN Bits(Operand2) ELSE mask)
      /\ compare' = (IF p = "COMPARE" THEN Operand2 % CounterMod ELSE compare)
      /\ compare2' = (IF p = "COMPARE2" THEN Operand2 % CounterMod ELSE compare2)
      /\ cause' = (CASE p = "IRQ_CAUSE" -> Bits(Operand2)
                     [] p = "COMPARE"   -> Withdrawn(4)
                     [] p = "COMPARE2"  -> Withdrawn(5)
                     [] OTHER           -> NewCause)
  BY DEF StorePort, StoresTo
<1> HIDE DEF p
<1>2. Operand2 \in Word /\ Operand2 \in Int /\ Inst.op \in Known
  BY <1>1, StoreSees
<1>3. /\ vector \in Word /\ NewEpc \in Word /\ mask \subseteq Positions
      /\ NewCause \subseteq Positions /\ NewCounter \in 0 .. CounterMod - 1
      /\ compare \in 0 .. CounterMod - 1 /\ compare2 \in 0 .. CounterMod - 1
  BY CycleTypes DEF TypeInv, TypeOK, Positions
<1>4. Bits(Operand2) \subseteq Positions /\ Operand2 % CounterMod \in 0 .. CounterMod - 1
  <2>1. Operand2 % CounterMod \in 0 .. CounterMod - 1
    BY <1>2, InterruptAssumption
  <2> QED
    BY <2>1 DEF Bits
<1>5. cause' \subseteq Positions
  <2>1. Withdrawn(4) \subseteq NewCause /\ Withdrawn(5) \subseteq NewCause
    BY DEF Withdrawn
  <2> QED
    BY <2>1, <1>1, <1>3, <1>4
<1>6. /\ vector' \in Word /\ epc' \in Word /\ mask' \subseteq Positions
      /\ counter' \in 0 .. CounterMod - 1 /\ compare' \in 0 .. CounterMod - 1
      /\ compare2' \in 0 .. CounterMod - 1
  BY <1>1, <1>2, <1>3, <1>4
<1>7. quiet' \in 0 .. Never /\ Dly \in [0 .. 3 -> Word] /\ Total \in Memory
  BY <1>1, CycleTypes, PassedType, TotalType
<1> QED
  BY <1>1, <1>2, <1>5, <1>6, <1>7, StoreTypes

LEMMA InstructionTypes == ASSUME TypeInv, Steady, Instruction PROVE TypeOK'
<1>1. CASE Exit \/ Throw \/ Trap \/ Undefined
  <2>1. \E how \in {"thrown", "aborted", "trapped", "undefined"} : Halt(how)
    BY <1>1 DEF Exit, Throw, Trap, Undefined
  <2> QED
    BY <2>1, HaltTypes
<1> QED
  BY <1>1, LoadUpperTypes, JumpTypes, BranchTypes, ArithmeticTypes, LoadDataTypes,
     LoadHostTimeTypes, LoadPortTypes, StoreDataTypes, StoreZeroTypes, StoreStatusTypes,
     StorePortTypes DEF Instruction

LEMMA SkipTypes == ASSUME TypeInv, Steady, Skip PROVE TypeOK'
<1>1. /\ counter' = NewCounter /\ cause' = NewCause /\ ram' = Inc(ram, "cycles_stall")
      /\ UNCHANGED <<r, pc, pcNext, vector, mask, status, statusDly, epc, compare, compare2,
                     halted, quiet, resume>>
  BY DEF Skip
<1>2. ram \in Memory
  BY DEF TypeInv, TypeOK, Memory, Bytes
<1>3. ram' \in Memory
  BY <1>1, <1>2, IncType DEF Counters
<1>4. counter' \in 0 .. CounterMod - 1 /\ cause' \subseteq Positions
  BY <1>1, CycleTypes
<1>5. phase' = phase /\ mapped' = mapped
  BY DEF Steady
<1> QED
  BY <1>1, <1>3, <1>4, <1>5 DEF TypeInv, TypeOK, Memory, Bytes, Positions

LEMMA NetifTypes == ASSUME TypeInv, Steady, NetifStep PROVE TypeOK'
<1>1. UNCHANGED <<halted, coreVars, quiet, resume>>
  BY DEF NetifStep
<1>2. ram \in Memory /\ {"intr", "stall"} \subseteq DOMAIN Layout
  BY LayoutAssumption DEF TypeInv, TypeOK, Memory, Bytes, Wires
<1>3. ram' \in Memory
  BY <1>2, SignalType DEF NetifStep, RaiseIntr, StartCopy, EndCopy, Flush
<1>4. phase' = phase /\ mapped' = mapped
  BY DEF Steady
<1> QED
  BY <1>1, <1>3, <1>4 DEF TypeInv, TypeOK, Memory, Bytes, coreVars

\* Boot changes the memory and the signals, and LoadBin the program.
LEMMA BootTypes == ASSUME TypeInv, BootInv', Boot PROVE TypeOK' /\ image' \in Seq(Instructions)
<1>1. UNCHANGED <<platform, coreVars, quiet, resume>>
  BY DEF Boot
<1>2. /\ phase' \in {"create_wires", "map_wires", "map_counters", "load", "running"}
      /\ platform \in {"orca-dma", "single-core"}
  BY DEF BootInv, TypeInv
<1>3. mapped' \subseteq DOMAIN Layout
  <2>1. mapped \subseteq DOMAIN Layout
    BY DEF TypeInv, TypeOK
  <2> QED
    BY <1>2, <2>1, SignalNames DEF Boot, ResetWires, MapWires, MapCounters, LoadBin
<1>4. ram' \in Memory
  <2>1. CASE LoadBin
    BY <2>1 DEF LoadBin, TypeInv, TypeOK, Memory, Bytes
  <2>2. CASE ResetWires \/ MapWires \/ MapCounters
    BY <2>2 DEF BootInv, ResetWires, MapWires, MapCounters
  <2> QED
    BY <2>1, <2>2 DEF Boot
<1>5. halted' \in {"no", "thrown", "aborted", "trapped", "undefined"}
  BY DEF Boot, ResetWires, MapWires, MapCounters, LoadBin, TypeInv, TypeOK
<1>6. image' \in Seq(Instructions)
  BY <1>2, ImagesAssumption DEF Boot, ResetWires, MapWires, MapCounters, LoadBin, TypeInv
<1> QED
  BY <1>1, <1>2, <1>3, <1>4, <1>5, <1>6 DEF TypeInv, TypeOK, Memory, Bytes, coreVars

LEMMA InitTypes == Init => TypeInv
<1> SUFFICES ASSUME Init PROVE TypeInv
  OBVIOUS
<1>1. BootInv /\ ram \in Memory
  BY InitBoot DEF Init, BootInv
<1>2. 0 \in Word /\ CodeBase \in Word /\ CodeBase + 4 \in Word
  BY WordFacts, AddressAssumption
<1>3. 0 \in 0 .. CounterMod - 1
  BY InterruptAssumption
<1>4. image \in Seq(Instructions)
  BY DEF Init
<1> QED
  BY <1>1, <1>2, <1>3, <1>4 DEF Init, TypeInv, TypeOK, Memory, Bytes, Never

LEMMA NextTypes == TypeInv /\ [Next]_vars => TypeInv'
<1> SUFFICES ASSUME TypeInv, [Next]_vars PROVE TypeInv'
  OBVIOUS
<1>1. BootInv'
  BY NextBoot DEF TypeInv
<1>2. CASE Boot
  BY <1>1, <1>2, BootTypes DEF TypeInv
<1>3. CASE Cycle
  <2>1. Steady /\ (Skip \/ Instruction)
    BY <1>3 DEF Cycle, Run, Steady, bootVars, signalVars
  <2>2. TypeOK'
    BY <2>1, SkipTypes, InstructionTypes
  <2> QED
    BY <1>1, <2>1, <2>2 DEF TypeInv, Steady
<1>4. CASE NetifStep
  <2>1. Steady
    BY <1>4 DEF NetifStep, Steady, bootVars, signalVars
  <2>2. TypeOK'
    BY <1>4, <2>1, NetifTypes
  <2> QED
    BY <1>1, <2>1, <2>2 DEF TypeInv, Steady
<1>5. CASE UNCHANGED vars
  BY <1>1, <1>5 DEF vars, bootVars, coreVars, signalVars, TypeInv, TypeOK
<1> QED
  BY <1>2, <1>3, <1>4, <1>5 DEF Next

\* For every width of a byte, memory map and set of decoded programs: whatever
\* THellfireProcessor::Run executes and UMemory stores, no register leaves the
\* width of a word, no memory cell that of a byte, no cause the positions of a
\* word, and the counter its own.
THEOREM TypesAreKept == Spec => []TypeOK
<1>1. TypeInv => TypeOK
  BY DEF TypeInv
<1> QED
  BY <1>1, InitTypes, NextTypes, PTL DEF Spec

-----------------------------------------------------------------------------
(***************************************************************************)
(* What arithmetic computes: sums, comparisons and shifts.                 *)
(***************************************************************************)
Half == 2 ^ (WordBits - 1)

LEMMA HalfFacts == Half \in Nat /\ Half > 0 /\ WordMod = 2 * Half
<1>1. /\ 2 ^ 1 = 2 /\ 1 + (WordBits - 1) = WordBits /\ 1 + (WordBits - 1) <= WordBits
      /\ 1 \in 0 .. WordBits /\ WordBits - 1 \in 0 .. WordBits
  BY WordFacts, PowerAssumption
<1>2. 2 ^ (1 + (WordBits - 1)) = 2 ^ 1 * 2 ^ (WordBits - 1) /\ 2 ^ (WordBits - 1) \in Nat \ {0}
  BY <1>1, PowerAssumption
<1> QED
  BY <1>1, <1>2, WordFacts DEF Half

\* The code and the manual agree on which words are negative.
LEMMA Signs ==
    ASSUME NEW w \in Word
    PROVE  /\ SignBit(w) <=> w >= Half
           /\ Signed(w) = (IF w >= Half THEN w - WordMod ELSE w)
           /\ Signed(w) \in Int /\ - Half <= Signed(w) /\ Signed(w) < Half
<1>1. /\ Half \in Nat /\ Half > 0 /\ WordMod = 2 * Half /\ w \in Nat /\ w < 2 * Half
      /\ WordBits - 1 \in Positions /\ WordBits - 1 \in 0 .. WordBits
  BY HalfFacts, WordFacts
<1>2. SignBit(w) <=> Bit(w, WordBits - 1) = 1
  BY <1>1 DEF SignBit, Bits, Bit
<1>3. CASE w < Half
  <2>1. w \in 0 .. 2 ^ (WordBits - 1) - 1
    BY <1>1, <1>3 DEF Half
  <2>2. Bit(w, WordBits - 1) = 0
    BY <1>1, <2>1, BitAt
  <2> QED
    BY <1>1, <1>2, <1>3, <2>2 DEF Signed
<1>4. CASE w >= Half
  <2>1. w - Half \in 0 .. 2 ^ (WordBits - 1) - 1 /\ (w - Half) + 2 ^ (WordBits - 1) = w
    BY <1>1, <1>4 DEF Half
  <2>2. Bit((w - Half) + 2 ^ (WordBits - 1), WordBits - 1) = 1
    BY <1>1, <2>1, BitAt
  <2>3. Bit(w, WordBits - 1) = 1
    BY <2>1, <2>2
  <2> QED
    BY <1>1, <1>2, <1>4, <2>3 DEF Signed
<1> QED
  BY <1>1, <1>3, <1>4

LEMMA DivMod ==
    ASSUME NEW d \in Nat, d > 0, NEW w \in Int
    PROVE  \E q \in Int, b \in 0 .. d - 1 : w = d * q + b /\ w \div d = q /\ w % d = b
<1> DEFINE a == w \div d
           b == w % d
<1>1. w = d * a + b /\ b \in 0 .. d - 1 /\ a \in Int
  OBVIOUS
<1>2. w \div d = a /\ w % d = b
  OBVIOUS
<1> HIDE DEF a, b
<1> QED
  BY <1>1, <1>2

\* Wrap takes away whole words.
LEMMA WrapFacts ==
    ASSUME NEW n \in Int
    PROVE  /\ n \div WordMod \in Int /\ Wrap(n) \in Word /\ Wrap(n) \in Int
           /\ n = Wrap(n) + WordMod * (n \div WordMod)
<1>1. WordMod \in Nat /\ WordMod > 0
  BY WordFacts
<1>2. PICK q \in Int, b \in 0 .. WordMod - 1 :
         n = WordMod * q + b /\ n \div WordMod = q /\ n % WordMod = b
  BY <1>1, DivMod
<1>3. Wrap(n) = b
  BY <1>2 DEF Wrap
<1>4. n = Wrap(n) + WordMod * (n \div WordMod)
  <2>1. n = b + WordMod * q
    BY <1>1, <1>2
  <2> QED
    BY <1>2, <1>3, <2>1
<1> QED
  BY <1>1, <1>2, <1>4, WrapType, WordFacts

LEMMA WrapCongruent ==
    ASSUME NEW n \in Int, - (WordMod * WordMod) <= n, n < WordMod * WordMod
    PROVE  Congruent(Wrap(n), n)
<1> DEFINE k == n \div WordMod
<1>1. k \in Int /\ Wrap(n) \in 0 .. WordMod - 1 /\ n = Wrap(n) + WordMod * k
      /\ WordMod \in Nat /\ WordMod > 0
  <2>1. Wrap(n) \in Word /\ k \in Int /\ n = Wrap(n) + WordMod * k
    BY WrapFacts
  <2> HIDE DEF k
  <2> QED
    BY <2>1, WordFacts
<1> HIDE DEF k
<1>2. k <= WordMod
  <2> SUFFICES ASSUME k > WordMod PROVE FALSE
    BY <1>1
  <2>1. WordMod * k >= WordMod * WordMod
    BY <1>1
  <2> QED
    BY <1>1, <2>1
<1>3. k >= - WordMod
  <2> SUFFICES ASSUME k < - WordMod PROVE FALSE
    BY <1>1
  <2>1. k <= - WordMod - 1
    BY <1>1
  <2>2. WordMod * k <= WordMod * (- WordMod - 1)
    BY <1>1, <2>1
  <2>3. WordMod * (- WordMod - 1) = - (WordMod * WordMod) - WordMod
    BY <1>1
  <2> QED
    BY <1>1, <2>2, <2>3
<1>4. n = Wrap(n) + k * WordMod
  BY <1>1
<1>5. k \in - WordMod .. WordMod
  BY <1>1, <1>2, <1>3
<1> QED
  BY <1>4, <1>5 DEF Congruent

\* A number that fits keeps its value.
LEMMA SignedWrap ==
    ASSUME NEW n \in Int, - Half <= n, n < Half
    PROVE  Signed(Wrap(n)) = n
<1>1. Half \in Nat /\ Half > 0 /\ WordMod = 2 * Half
  BY HalfFacts
<1>2. CASE n >= 0
  <2>1. Wrap(n) = n
    BY <1>1, <1>2 DEF Wrap
  <2> QED
    BY <1>1, <1>2, <2>1 DEF Signed
<1>3. CASE n < 0
  <2>1. Wrap(n) = n + WordMod
    <3>1. n = WordMod * (-1) + (n + WordMod) /\ n + WordMod \in 0 .. WordMod - 1
      BY <1>1, <1>3
    <3> QED
      BY <1>1, <3>1, DivUnique DEF Wrap
  <2> QED
    BY <1>1, <1>3, <2>1 DEF Signed
<1> QED
  BY <1>2, <1>3

LEMMA BitOfWrap ==
    ASSUME NEW n \in Int, NEW i \in Positions
    PROVE  i \in Bits(Wrap(n)) <=> Bit(n, i) = 1
<1> DEFINE k == n \div WordMod
<1>1. /\ k \in Int /\ Wrap(n) \in Int /\ n = Wrap(n) + 2 ^ WordBits * k
      /\ i \in Nat /\ i < WordBits /\ WordBits \in 0 .. WordBits
  <2>1. k \in Int /\ Wrap(n) \in Int /\ n = Wrap(n) + WordMod * k
    BY WrapFacts
  <2>2. /\ WordMod = 2 ^ WordBits /\ i \in Nat /\ i < WordBits
        /\ WordBits \in 0 .. WordBits
    BY WordFacts
  <2> HIDE DEF k
  <2> QED
    BY <2>1, <2>2
<1> HIDE DEF k
<1>2. Bit(Wrap(n) + 2 ^ WordBits * k, i) = Bit(Wrap(n), i)
  BY <1>1, BitBelow
<1>3. Bit(n, i) = Bit(Wrap(n), i)
  BY <1>1, <1>2
<1> QED
  BY <1>3 DEF Bits, Bit

\* Numbers far below a square of words.
LEMMA SumsFit ==
    /\ WordMod \in Nat /\ WordMod > 1 /\ WordMod * WordMod \in Nat
    /\ 2 * WordMod <= WordMod * WordMod
<1>1. WordMod \in Nat /\ WordMod > 1
  BY WordFacts
<1>2. \A m \in Nat : m > 1 => 2 * m <= m * m /\ m * m \in Nat
  OBVIOUS
<1> QED
  BY <1>1, <1>2

LEMMA CompareComputes ==
    ASSUME NEW a \in Word, NEW b \in Word
    PROVE  (Signed(a) < Signed(b)) <=> Below(a, b)
<1>1. /\ a \in Int /\ b \in Int /\ 0 <= a /\ a < WordMod /\ 0 <= b /\ b < WordMod
      /\ WordMod \in Int
  BY WordFacts
<1>2. /\ SignBit(a) <=> a >= Half
      /\ Signed(a) = (IF a >= Half THEN a - WordMod ELSE a)
      /\ SignBit(b) <=> b >= Half
      /\ Signed(b) = (IF b >= Half THEN b - WordMod ELSE b)
      /\ Half \in Int
  BY Signs, HalfFacts
<1>3. Below(a, b) <=> (IF SignBit(a) <=> SignBit(b) THEN a < b ELSE SignBit(a))
  <2>1. SignBit(a) \in BOOLEAN /\ SignBit(b) \in BOOLEAN
    BY DEF SignBit
  <2> QED
    BY <2>1 DEF Below
<1>4. CASE a >= Half /\ b >= Half
  BY <1>1, <1>2, <1>3, <1>4
<1>5. CASE a >= Half /\ b < Half
  BY <1>1, <1>2, <1>3, <1>5
<1>6. CASE a < Half /\ b >= Half
  BY <1>1, <1>2, <1>3, <1>6
<1>7. CASE a < Half /\ b < Half
  BY <1>1, <1>2, <1>3, <1>7
<1> QED
  BY <1>1, <1>2, <1>4, <1>5, <1>6, <1>7

\* The places of a shift: n and what is left of a word above it.
LEMMA ShiftFacts ==
    ASSUME NEW n \in 0 .. WordBits - 1
    PROVE  /\ n \in Nat /\ n \in 0 .. WordBits /\ WordBits - n \in 0 .. WordBits
           /\ 2 ^ n \in Nat /\ 2 ^ n > 0
           /\ 2 ^ (WordBits - n) \in Nat /\ 2 ^ (WordBits - n) > 0
           /\ WordMod = 2 ^ n * 2 ^ (WordBits - n)
<1>1. /\ n \in Nat /\ n \in 0 .. WordBits /\ WordBits - n \in 0 .. WordBits
      /\ n + (WordBits - n) = WordBits /\ n + (WordBits - n) <= WordBits
  BY WordFacts
<1>2. /\ 2 ^ (n + (WordBits - n)) = 2 ^ n * 2 ^ (WordBits - n)
      /\ 2 ^ n \in Nat \ {0} /\ 2 ^ (WordBits - n) \in Nat \ {0}
  BY <1>1, PowerAssumption
<1> QED
  BY <1>1, <1>2, WordFacts

LEMMA LeftComputes ==
    ASSUME NEW a \in Word, NEW n \in 0 .. WordBits - 1
    PROVE  Bits(Wrap(a * 2 ^ n)) = ShiftedLeft(a, n)
<1> DEFINE d == 2 ^ n
<1>1. d \in Nat /\ d > 0 /\ a \in Nat /\ a * d \in Int /\ a * d = d * a
  BY ShiftFacts, WordFacts
<1>2. ASSUME NEW i \in Positions
      PROVE  i \in Bits(Wrap(a * d)) <=> i - n \in Bits(a)
  <2>1. i \in Bits(Wrap(a * d)) <=> Bit(a * d, i) = 1
    BY <1>1, BitOfWrap
  <2>2. i \in Nat /\ n \in Nat /\ n \in 0 .. WordBits /\ i \in 0 .. WordBits
    BY ShiftFacts, WordFacts
  <2>3. CASE i < n
    <3>1. Bit(0 + 2 ^ n * a, i) = Bit(0, i)
      <4>1. 0 \in Int /\ a \in Int
        BY <1>1
      <4> HIDE DEF d
      <4> QED
        BY <2>2, <2>3, <4>1, BitBelow
    <3>2. 0 \in 0 .. 2 ^ 0 - 1 /\ 0 \in 0 .. WordBits /\ i >= 0
      BY <2>2, PowerAssumption, WordFacts
    <3>3. Bit(0, i) = 0
      BY <2>2, <3>2, BitAbove
    <3>4. 0 + 2 ^ n * a = a * d
      BY <1>1
    <3>5. i - n \notin Positions
      BY <2>2, <2>3, WordFacts
    <3> QED
      BY <2>1, <3>1, <3>3, <3>4, <3>5 DEF Bits
  <2>4. CASE i >= n
    <3>1. i - n \in 0 .. WordBits /\ n + (i - n) = i /\ i <= WordBits /\ i - n \in Positions
      BY <2>2, <2>4, WordFacts
    <3> DEFINE e == 2 ^ (i - n)
    <3>2. 2 ^ (n + (i - n)) = 2 ^ n * 2 ^ (i - n) /\ e \in Nat \ {0}
      BY <2>2, <3>1, PowerAssumption
    <3>3. 2 ^ i = d * e
      BY <3>1, <3>2
    <3> HIDE DEF d, e
    <3>4. a * d \in Nat /\ e > 0 /\ e \in Nat
      BY <1>1, <3>2
    <3>5. (a * d) \div (d * e) = ((a * d) \div d) \div e
      BY <1>1, <3>4, DivDiv
    <3>6. (a * d) \div d = a
      <4>1. a * d = d * a + 0 /\ 0 \in 0 .. d - 1 /\ a \in Int
        BY <1>1
      <4> QED
        BY <1>1, <4>1, DivUnique
    <3>7. Bit(a * d, i) = Bit(a, i - n)
      BY <3>3, <3>5, <3>6 DEF Bit, e
    <3> QED
      BY <2>1, <3>1, <3>7 DEF Bits, Bit
  <2> QED
    BY <2>2, <2>3, <2>4
<1> QED
  BY <1>2 DEF ShiftedLeft, Bits

LEMMA RightComputes ==
    ASSUME NEW a \in Word, NEW n \in 0 .. WordBits - 1
    PROVE  /\ a \div 2 ^ n \in 0 .. 2 ^ (WordBits - n) - 1
           /\ Bits(a \div 2 ^ n) = ShiftedRight(a, n)
<1> DEFINE d == 2 ^ n
           q == a \div d
<1>1. /\ d \in Nat /\ d > 0 /\ a \in Nat /\ n \in Nat /\ n \in 0 .. WordBits
      /\ WordBits - n \in 0 .. WordBits /\ WordBits \in Nat /\ Positions = 0 .. WordBits - 1
  BY ShiftFacts, WordFacts
<1>2. q \in 0 .. 2 ^ (WordBits - n) - 1
  <2>1. a < d * 2 ^ (WordBits - n) /\ 2 ^ (WordBits - n) \in Nat
    BY ShiftFacts, WordFacts
  <2>2. q \in Nat /\ q < 2 ^ (WordBits - n)
    BY <1>1, <2>1, DivBound
  <2> QED
    BY <2>1, <2>2
<1>3. ASSUME NEW i \in Positions
      PROVE  Bit(q, i) = 1 <=> i + n \in Bits(a)
  <2>1. i \in Nat /\ i \in 0 .. WordBits
    BY <1>1
  <2>2. CASE i + n < WordBits
    <3> DEFINE e == 2 ^ i
    <3>1. i + n \in Positions /\ n + i <= WordBits /\ n + i = i + n
      BY <1>1, <2>1, <2>2
    <3>2. 2 ^ (n + i) = d * e /\ e \in Nat \ {0}
      BY <1>1, <2>1, <3>1, PowerAssumption
    <3> HIDE DEF d, e
    <3>3. e \in Nat /\ e > 0
      BY <3>2
    <3>4. a \div (d * e) = (a \div d) \div e
      BY <1>1, <3>3, DivDiv
    <3>5. Bit(q, i) = Bit(a, i + n)
      BY <3>1, <3>2, <3>4 DEF Bit, e
    <3> QED
      BY <3>1, <3>5 DEF Bits, Bit
  <2>3. CASE i + n >= WordBits
    <3>1. i >= WordBits - n /\ i + n \notin Positions
      BY <1>1, <2>1, <2>3
    <3>2. Bit(q, i) = 0
      BY <1>1, <1>2, <2>1, <3>1, BitAbove
    <3> QED
      BY <3>1, <3>2 DEF Bits
  <2> QED
    BY <1>1, <2>1, <2>2, <2>3
<1> HIDE DEF q
<1>4. Bits(q) = ShiftedRight(a, n)
  BY <1>3 DEF Bits, Bit, ShiftedRight
<1> QED
  BY <1>2, <1>4 DEF q

LEMMA SignComputes ==
    ASSUME NEW a \in Word, NEW n \in 0 .. WordBits - 1
    PROVE  Bits(ShiftArithmetic(a, n)) = SignFilled(a, n)
<1> DEFINE d == 2 ^ n
           e == 2 ^ (WordBits - n)
           q == a \div d
           k == WordBits - n
<1>1. /\ d \in Nat /\ d > 0 /\ e \in Nat /\ e > 0 /\ WordMod = d * e
      /\ a \in Int /\ k \in 0 .. WordBits /\ n \in Nat
      /\ WordBits \in Nat /\ Positions = 0 .. WordBits - 1
  BY ShiftFacts, WordFacts
<1>2. q \in 0 .. e - 1 /\ Bits(q) = ShiftedRight(a, n)
  BY RightComputes
<1>3. /\ SignBit(a) <=> a >= Half
      /\ Signed(a) = (IF a >= Half THEN a - WordMod ELSE a)
  BY Signs
<1>4. CASE ~ SignBit(a)
  <2>1. Signed(a) = a
    BY <1>3, <1>4
  <2>2. SignFilled(a, n) = ShiftedRight(a, n)
    BY <1>4 DEF SignFilled
  <2>3. Wrap(q) = q
    <3>1. q \in Word
      <4>1. a \div d \in 0 .. a
        BY <1>1, WordFacts, DivLess
      <4> QED
        BY <4>1, WordFacts
    <3> HIDE DEF q
    <3>2. \A v \in Word : v % WordMod = v
      BY WordFacts
    <3> QED
      BY <3>1, <3>2 DEF Wrap
  <2>4. ShiftArithmetic(a, n) = q
    BY <2>1, <2>3 DEF ShiftArithmetic
  <2> QED
    BY <1>2, <2>2, <2>4
<1>5. CASE SignBit(a)
  <2>1. Signed(a) \div d = q + (- e)
    <3>1. Signed(a) = a + d * (- e) /\ - e \in Int
      BY <1>1, <1>3, <1>5
    <3> HIDE DEF d, e
    <3> QED
      BY <1>1, <3>1, DivAdd
  <2> HIDE DEF q, d
  <2>2. ShiftArithmetic(a, n) = Wrap(q + (- e)) /\ q + (- e) \in Int
    BY <1>1, <1>2, <2>1 DEF ShiftArithmetic, d
  <2>3. ASSUME NEW i \in Positions, i < k
        PROVE  i \in Bits(Wrap(q + (- e))) <=> i \in Bits(q)
    <3>1. 2 ^ k * (-1) = - e /\ q \in Int /\ i \in Nat
      BY <1>1, <1>2
    <3>2. Bit(q + 2 ^ k * (-1), i) = Bit(q, i)
      BY <1>1, <2>3, <3>1, BitBelow
    <3>3. i \in Bits(Wrap(q + (- e))) <=> Bit(q + (- e), i) = 1
      BY <2>2, BitOfWrap
    <3> QED
      BY <3>1, <3>2, <3>3 DEF Bits, Bit
  <2>4. ASSUME NEW i \in Positions, i >= k
        PROVE  i \in Bits(Wrap(q + (- e)))
    <3> DEFINE f == 2 ^ i
    <3>1. f \in Nat /\ f > 0 /\ e <= f
      <4>1. i \in 0 .. WordBits /\ i >= k /\ e - 1 \in 0 .. 2 ^ k - 1
        BY <1>1, <2>4
      <4>2. e - 1 \in 0 .. 2 ^ i - 1 /\ 2 ^ i \in Nat \ {0}
        BY <1>1, <4>1, BitAbove, PowerAssumption
      <4> QED
        BY <1>1, <4>2
    <3> HIDE DEF e, f
    <3>2. /\ q + (- e) = f * (-1) + (q + f - e) /\ q + f - e \in 0 .. f - 1
          /\ q + (- e) \in Int /\ -1 \in Int
      BY <1>1, <1>2, <3>1
    <3>3. (q + (- e)) \div f = -1
      BY <3>1, <3>2, DivUnique
    <3>4. (-1) % 2 = 1
      <4>1. /\ 2 \in Nat /\ 2 > 0 /\ -1 \in Int /\ 1 \in 0 .. 2 - 1
            /\ -1 = 2 * (-1) + 1
        OBVIOUS
      <4> QED
        BY <4>1, DivUnique
    <3>5. Bit(q + (- e), i) = 1
      BY <3>3, <3>4 DEF Bit, f
    <3> QED
      BY <2>2, <3>5, BitOfWrap
  <2>5. ASSUME NEW i \in Positions
        PROVE  i \in Bits(Wrap(q + (- e))) <=> i \in SignFilled(a, n)
    <3>1. i \in SignFilled(a, n) <=> i \in ShiftedRight(a, n) \/ i >= k
      BY <1>1, <1>5, <2>5 DEF SignFilled
    <3>2. i \in Nat /\ (i < k \/ i >= k)
      BY <1>1
    <3> QED
      BY <1>2, <2>3, <2>4, <3>1, <3>2
  <2>6. SignFilled(a, n) \subseteq Positions /\ Bits(Wrap(q + (- e))) \subseteq Positions
    BY <1>1 DEF SignFilled, ShiftedRight, Bits
  <2> QED
    BY <2>2, <2>5, <2>6
<1> QED
  BY <1>4, <1>5

LEMMA AluComputes ==
    ASSUME NEW op \in AluOps, NEW a \in Word, NEW b \in Word
    PROVE  Specified(op, a, b, Alu(op, a, b))
<1>1. /\ a \in Nat /\ b \in Nat /\ a < WordMod /\ b < WordMod
      /\ Amount(b) \in 0 .. WordBits - 1 /\ Amount(b) = b % WordBits
  BY WordFacts, AmountFacts DEF Amount
<1>2. CASE op = "ADD"
  <2>1. a + b \in Int /\ - (WordMod * WordMod) <= a + b /\ a + b < WordMod * WordMod
    BY <1>1, SumsFit
  <2>2. Congruent(Wrap(a + b), a + b)
    BY <2>1, WrapCongruent
  <2> QED
    BY <1>2, <2>2 DEF Alu, Specified
<1>3. CASE op = "SUB"
  <2>1. a - b \in Int /\ - (WordMod * WordMod) <= a - b /\ a - b < WordMod * WordMod
    BY <1>1, SumsFit
  <2>2. Congruent(Wrap(a - b), a - b)
    BY <2>1, WrapCongruent
  <2> QED
    BY <1>3, <2>2 DEF Alu, Specified
<1>4. CASE op = "SLL"
  <2>1. Bits(Wrap(a * 2 ^ Amount(b))) = ShiftedLeft(a, Amount(b))
    BY <1>1, LeftComputes
  <2> QED
    BY <1>1, <1>4, <2>1 DEF Alu, Specified
<1>5. CASE op = "SLT"
  <2>1. (Signed(a) < Signed(b)) <=> Below(a, b)
    BY CompareComputes
  <2>2. Flag(Signed(a) < Signed(b)) = IF Below(a, b) THEN 1 ELSE 0
    BY <2>1 DEF Flag
  <2>3. Alu(op, a, b) = IF Below(a, b) THEN 1 ELSE 0
    BY <1>5, <2>2 DEF Alu
  <2>4. Specified(op, a, b, Alu(op, a, b))
           <=> \/ Alu(op, a, b) = 1 /\ Below(a, b)
               \/ Alu(op, a, b) = 0 /\ ~ Below(a, b)
    BY <1>5 DEF Specified
  <2> QED
    BY <2>3, <2>4
<1>6. CASE op = "SLTU"
  <2>1. Alu(op, a, b) = IF a < b THEN 1 ELSE 0
    BY <1>6 DEF Alu, Flag
  <2>2. Specified(op, a, b, Alu(op, a, b))
           <=> \/ Alu(op, a, b) = 1 /\ a < b
               \/ Alu(op, a, b) = 0 /\ a >= b
    BY <1>6 DEF Specified
  <2> QED
    BY <1>1, <2>1, <2>2
<1>7. CASE op = "XOR"
  <2> DEFINE bs == (Bits(a) \ Bits(b)) \cup (Bits(b) \ Bits(a))
  <2>1. bs \in SUBSET Positions
    BY DEF Bits
  <2>2. Bits(WordOf(bs)) = bs
    BY <2>1, WordOfFacts
  <2>3. \A i \in Positions : i \in bs <=> ((i \in Bits(a)) # (i \in Bits(b)))
    OBVIOUS
  <2>4. Alu(op, a, b) = WordOf(bs)
    BY <1>7 DEF Alu
  <2> QED
    BY <1>7, <2>2, <2>3, <2>4 DEF Specified
<1>8. CASE op = "SRL"
  <2>1. Bits(a \div 2 ^ Amount(b)) = ShiftedRight(a, Amount(b))
    BY <1>1, RightComputes
  <2> QED
    BY <1>1, <1>8, <2>1 DEF Alu, Specified
<1>9. CASE op = "SRA"
  <2>1. Bits(ShiftArithmetic(a, Amount(b))) = SignFilled(a, Amount(b))
    BY <1>1, SignComputes
  <2> QED
    BY <1>1, <1>9, <2>1 DEF Alu, Specified
<1>10. CASE op = "OR"
  <2>1. Bits(a) \cup Bits(b) \in SUBSET Positions
    BY DEF Bits
  <2>2. Bits(WordOf(Bits(a) \cup Bits(b))) = Bits(a) \cup Bits(b)
    BY <2>1, WordOfFacts
  <2> QED
    BY <1>10, <2>2 DEF Alu, Specified
<1>11. CASE op = "AND"
  <2>1. Bits(a) \cap Bits(b) \in SUBSET Positions
    BY DEF Bits
  <2>2. Bits(WordOf(Bits(a) \cap Bits(b))) = Bits(a) \cap Bits(b)
    BY <2>1, WordOfFacts
  <2> QED
    BY <1>11, <2>2 DEF Alu, Specified
<1> QED
  BY <1>2, <1>3, <1>4, <1>5, <1>6, <1>7, <1>8, <1>9, <1>10, <1>11 DEF AluOps

-----------------------------------------------------------------------------
(***************************************************************************)
(* What arithmetic computes: products and quotients.                       *)
(***************************************************************************)
LEMMA WrapShift ==
    ASSUME NEW n \in Int, NEW c \in Int
    PROVE  Wrap(n + WordMod * c) = Wrap(n)
<1>1. WordMod \in Nat /\ WordMod > 0
  BY WordFacts
<1>2. PICK q \in Int, b \in 0 .. WordMod - 1 :
         n = WordMod * q + b /\ n \div WordMod = q /\ n % WordMod = b
  BY <1>1, DivMod
<1>3. n + WordMod * c = WordMod * (q + c) + b /\ n + WordMod * c \in Int /\ q + c \in Int
  BY <1>1, <1>2
<1>4. (n + WordMod * c) % WordMod = b
  BY <1>1, <1>3, DivUnique
<1> QED
  BY <1>2, <1>4 DEF Wrap

\* The low word of a product does not depend on the signs.
LEMMA LowProduct ==
    ASSUME NEW a \in Word, NEW b \in Word
    PROVE  Congruent(Wrap(Signed(a) * Signed(b)), a * b)
<1> DEFINE x == IF a >= Half THEN 1 ELSE 0
           y == IF b >= Half THEN 1 ELSE 0
           c == a * y + b * x - WordMod * (x * y)
<1>1. /\ a \in Int /\ b \in Int /\ 0 <= a /\ a < WordMod /\ 0 <= b /\ b < WordMod
      /\ WordMod \in Nat /\ x \in {0, 1} /\ y \in {0, 1}
  BY WordFacts
<1>2. Signed(a) = a - WordMod * x /\ Signed(b) = b - WordMod * y
  BY <1>1, Signs
<1>3. /\ a * b = (a - WordMod * x) * (b - WordMod * y) + WordMod * c /\ c \in Int
      /\ (a - WordMod * x) * (b - WordMod * y) \in Int
  <2> HIDE DEF x, y
  <2>1. x \in Int /\ y \in Int
    BY <1>1
  <2> QED
    BY <1>1, <2>1
<1> HIDE DEF c, x, y
<1>4. Wrap(a * b) = Wrap(Signed(a) * Signed(b))
  BY <1>2, <1>3, WrapShift
<1>5. a * b \in Int /\ - (WordMod * WordMod) <= a * b /\ a * b < WordMod * WordMod
  <2>1. a * b <= a * WordMod /\ a * WordMod <= (WordMod - 1) * WordMod
    BY <1>1
  <2>2. (WordMod - 1) * WordMod = WordMod * WordMod - WordMod /\ WordMod > 0
    BY <1>1
  <2>3. a * b \in Nat /\ WordMod * WordMod \in Nat /\ a * WordMod \in Int
    BY <1>1
  <2> QED
    BY <2>1, <2>2, <2>3, <1>1
<1> QED
  BY <1>4, <1>5, WrapCongruent

\* A product between limits has an upper word that fits.
LEMMA UpperFits ==
    ASSUME NEW n \in Int, - (WordMod * Half) <= n, n < WordMod * Half
    PROVE  /\ n \div WordMod \in Int /\ - Half <= n \div WordMod /\ n \div WordMod < Half
           /\ Upper(n \div WordMod, n)
<1>1. WordMod \in Nat /\ WordMod > 0 /\ Half \in Nat /\ Word = 0 .. WordMod - 1
  BY WordFacts, HalfFacts
<1>2. PICK q \in Int, b \in 0 .. WordMod - 1 :
         n = WordMod * q + b /\ n \div WordMod = q /\ n % WordMod = b
  BY <1>1, DivMod
<1>3. q < Half
  <2> SUFFICES ASSUME q >= Half PROVE FALSE
    BY <1>1, <1>2
  <2>1. WordMod * q >= WordMod * Half
    BY <1>1, <1>2
  <2> QED
    BY <1>1, <1>2, <2>1
<1>4. - Half <= q
  <2> SUFFICES ASSUME q <= - Half - 1 PROVE FALSE
    BY <1>1, <1>2
  <2>1. WordMod * q <= WordMod * (- Half - 1)
    BY <1>1, <1>2
  <2>2. WordMod * (- Half - 1) = - (WordMod * Half) - WordMod
    BY <1>1
  <2> QED
    BY <1>1, <1>2, <2>1, <2>2
<1>5. Upper(q, n)
  <2>1. n = q * WordMod + b /\ b \in Word
    BY <1>1, <1>2
  <2> QED
    BY <2>1 DEF Upper
<1> QED
  BY <1>2, <1>3, <1>4, <1>5

\* A signed word by a number that is at most a word, both ways.
LEMMA ProductFits ==
    ASSUME NEW s \in Int, - Half <= s, s < Half, NEW t \in Int, - WordMod <= t, t <= WordMod
    PROVE  s * t \in Int /\ - (WordMod * Half) <= s * t /\ s * t <= WordMod * Half
<1>1. WordMod \in Nat /\ Half \in Nat /\ WordMod > 0 /\ Half > 0
  BY HalfFacts
<1>2. \A m, h \in Nat : \A x, y \in Int :
         - h <= x /\ x <= h /\ - m <= y /\ y <= m => - (m * h) <= x * y /\ x * y <= m * h
  <2> TAKE m, h \in Nat
  <2> TAKE x, y \in Int
  <2> HAVE - h <= x /\ x <= h /\ - m <= y /\ y <= m
  <2>1. CASE x >= 0 /\ y >= 0
    <3>1. x * y <= h * y /\ h * y <= h * m /\ x * y >= 0
      BY <2>1
    <3> QED
      BY <3>1
  <2>2. CASE x < 0 /\ y < 0
    <3>1. (- x) * (- y) <= h * (- y) /\ h * (- y) <= h * m /\ x * y = (- x) * (- y)
          /\ (- x) * (- y) >= 0
      BY <2>2
    <3> QED
      BY <3>1
  <2>3. CASE x >= 0 /\ y < 0
    <3>1. x * (- y) <= h * (- y) /\ h * (- y) <= h * m /\ x * y = - (x * (- y))
          /\ x * (- y) >= 0
      BY <2>3
    <3> QED
      BY <3>1
  <2>4. CASE x < 0 /\ y >= 0
    <3>1. (- x) * y <= h * y /\ h * y <= h * m /\ x * y = - ((- x) * y)
          /\ (- x) * y >= 0
      BY <2>4
    <3> QED
      BY <3>1
  <2> QED
    BY <2>1, <2>2, <2>3, <2>4
<1> QED
  BY <1>1, <1>2

\* The quotient that C++ rounds to zero, its remainder, and their sizes.
LEMMA QuotientDivides ==
    ASSUME NEW m \in Int, NEW n \in Int, n # 0
    PROVE  /\ Quotient(m, n) \in Int
           /\ Divides(m, n, Quotient(m, n), m - n * Quotient(m, n))
           /\ Abs(Quotient(m, n)) <= Abs(m)
           /\ Abs(Quotient(m, n)) = Abs(m) /\ m # 0 => Abs(n) = 1
           /\ (m < 0) # (n < 0) => Quotient(m, n) <= 0
<1> DEFINE x == Abs(m)
           y == Abs(n)
           s == m - n * Quotient(m, n)
<1>1. x \in Nat /\ y \in Nat /\ y > 0
  BY DEF Abs
<1>2. /\ m = IF m < 0 THEN - x ELSE x
      /\ n = IF n < 0 THEN - y ELSE y
      /\ m # 0 => x > 0
  BY DEF Abs
<1> HIDE DEF x, y
<1>3. PICK t \in Int, u \in 0 .. y - 1 : x = y * t + u /\ x \div y = t /\ x % y = u
  BY <1>1, DivMod
<1>4. t \in 0 .. x
  BY <1>1, <1>3, DivLess
<1>5. Quotient(m, n) = IF (m < 0) = (n < 0) THEN t ELSE - t
  BY <1>3 DEF Quotient, x, y
<1>6. s = IF m < 0 THEN - u ELSE u
  <2>1. CASE m < 0 /\ n < 0
    <3>1. Quotient(m, n) = t /\ m = - x /\ n = - y
      BY <1>2, <1>5, <2>1
    <3>2. s = - x - (- y) * t
      BY <3>1
    <3>3. (- y) * t = - (y * t) /\ y * t \in Int
      BY <1>1, <1>4
    <3> QED
      BY <1>1, <1>3, <2>1, <3>2, <3>3
  <2>2. CASE m < 0 /\ ~ (n < 0)
    <3>1. Quotient(m, n) = - t /\ m = - x /\ n = y
      BY <1>2, <1>5, <2>2
    <3>2. s = - x - y * (- t)
      BY <3>1
    <3>3. y * (- t) = - (y * t) /\ y * t \in Int
      BY <1>1, <1>4
    <3> QED
      BY <1>1, <1>3, <2>2, <3>2, <3>3
  <2>3. CASE ~ (m < 0) /\ n < 0
    <3>1. Quotient(m, n) = - t /\ m = x /\ n = - y
      BY <1>2, <1>5, <2>3
    <3>2. s = x - (- y) * (- t)
      BY <3>1
    <3>3. (- y) * (- t) = y * t /\ y * t \in Int
      BY <1>1, <1>4
    <3> QED
      BY <1>1, <1>3, <2>3, <3>2, <3>3
  <2>4. CASE ~ (m < 0) /\ ~ (n < 0)
    <3>1. Quotient(m, n) = t /\ m = x /\ n = y
      BY <1>2, <1>5, <2>4
    <3>2. s = x - y * t
      BY <3>1
    <3>3. y * t \in Int
      BY <1>1, <1>4
    <3> QED
      BY <1>1, <1>3, <2>4, <3>2, <3>3
  <2> QED
    BY <2>1, <2>2, <2>3, <2>4
<1>7. Quotient(m, n) \in Int
  BY <1>3, <1>5
<1>8. Divides(m, n, Quotient(m, n), s)
  <2>1. \A q \in Int : m = q * n + (m - n * q)
    OBVIOUS
  <2>2. Abs(s) < Abs(n) /\ (s # 0 => (s < 0) = (m < 0))
    BY <1>1, <1>3, <1>6 DEF Abs, y
  <2> QED
    BY <1>7, <2>1, <2>2 DEF Divides
<1>9. Abs(Quotient(m, n)) = t
  BY <1>4, <1>5, <1>1 DEF Abs
<1>10. t = x /\ m # 0 => y = 1
  <2> SUFFICES ASSUME t = x, m # 0, y >= 2 PROVE FALSE
    BY <1>1
  <2>1. x > 0 /\ y * t >= 2 * t
    BY <1>1, <1>2, <1>4
  <2> QED
    BY <1>1, <1>3, <2>1
<1>11. (m < 0) # (n < 0) => Quotient(m, n) <= 0
  BY <1>4, <1>5, <1>1
<1>12. x = Abs(m) /\ y = Abs(n)
  BY DEF x, y
<1> QED
  BY <1>4, <1>7, <1>8, <1>9, <1>10, <1>11, <1>12, <1>1

\* Division fits but for the one quotient that traps.
LEMMA QuotientFits ==
    ASSUME NEW a \in Word, NEW b \in Word, b # 0, ~ Traps("DIV", a, b)
    PROVE  LET q == Quotient(Signed(a), Signed(b)) IN - Half <= q /\ q < Half
<1> DEFINE m == Signed(a)
           n == Signed(b)
           q == Quotient(m, n)
<1>1. /\ Half \in Nat /\ Half > 0 /\ WordMod = 2 * Half
      /\ m \in Int /\ - Half <= m /\ m < Half /\ n \in Int /\ n # 0
      /\ a \in Int /\ a >= 0 /\ m = (IF a >= Half THEN a - WordMod ELSE a)
  BY Signs, HalfFacts, SignedZero, WordFacts
<1>2. ~ (n = -1 /\ 2 * a = WordMod)
  BY DEF Traps
<1> HIDE DEF m, n
<1>3. /\ q \in Int /\ Abs(q) <= Abs(m)
      /\ Abs(q) = Abs(m) /\ m # 0 => Abs(n) = 1
      /\ (m < 0) # (n < 0) => q <= 0
  BY <1>1, QuotientDivides
<1> HIDE DEF q
<1>4. - Half <= q /\ q <= Half
  BY <1>1, <1>3 DEF Abs
<1>5. q # Half
  <2> SUFFICES ASSUME q = Half PROVE FALSE
    OBVIOUS
  <2>1. m = - Half
    BY <1>1, <1>3 DEF Abs
  <2>2. Abs(n) = 1 /\ n < 0
    BY <1>1, <1>3, <2>1 DEF Abs
  <2>3. n = -1 /\ 2 * a = WordMod
    BY <1>1, <2>1, <2>2 DEF Abs
  <2> QED
    BY <1>2, <2>3
<1>6. - Half <= q /\ q < Half
  BY <1>1, <1>3, <1>4, <1>5
<1> QED
  BY <1>6 DEF q, m, n

LEMMA MulComputes ==
    ASSUME NEW op \in MulOps, NEW a \in Word, NEW b \in Word
    PROVE  Specified(op, a, b, MulDiv(op, a, b))
<1>1. /\ Half \in Nat /\ Half > 0 /\ WordMod = 2 * Half /\ WordMod \in Nat /\ WordMod > 0
      /\ a \in Int /\ b \in Int /\ 0 <= a /\ a < WordMod /\ 0 <= b /\ b < WordMod
      /\ Word = 0 .. WordMod - 1 /\ op \notin DivOps
  BY HalfFacts, WordFacts DEF MulOps, DivOps
<1>2. /\ Signed(a) \in Int /\ - Half <= Signed(a) /\ Signed(a) < Half
      /\ Signed(b) \in Int /\ - Half <= Signed(b) /\ Signed(b) < Half
  BY Signs
<1>3. CASE op = "MUL"
  <2>1. Congruent(Wrap(Signed(a) * Signed(b)), a * b)
    BY LowProduct
  <2> QED
    BY <1>1, <1>3, <2>1 DEF MulDiv, Specified
<1>4. CASE op = "MULH"
  <2> DEFINE n == Signed(a) * Signed(b)
             hi == n \div WordMod
  <2>1. n \in Int /\ - (WordMod * Half) <= n /\ n < WordMod * Half
    <3>1. - Half <= Signed(b) /\ Signed(b) <= Half /\ Half < WordMod
      BY <1>1, <1>2
    <3>2. \A h \in Nat : \A x, y \in Int :
             h > 0 /\ - h <= x /\ x <= h /\ - h <= y /\ y <= h
                => - (h * h) <= x * y /\ x * y <= h * h
      <4> TAKE h \in Nat
      <4> TAKE x, y \in Int
      <4> HAVE h > 0 /\ - h <= x /\ x <= h /\ - h <= y /\ y <= h
      <4>1. (h - x) * (h + y) >= 0 /\ (h + x) * (h - y) >= 0
        OBVIOUS
      <4>2. (h - x) * (h - y) >= 0 /\ (h + x) * (h + y) >= 0
        OBVIOUS
      <4>3. /\ (h - x) * (h + y) = h * h + h * y - x * h - x * y
            /\ (h + x) * (h - y) = h * h - h * y + x * h - x * y
            /\ (h - x) * (h - y) = h * h - h * y - x * h + x * y
            /\ (h + x) * (h + y) = h * h + h * y + x * h + x * y
        OBVIOUS
      <4>4. h * h \in Int /\ h * y \in Int /\ x * h \in Int /\ x * y \in Int
        OBVIOUS
      <4> QED
        BY <4>1, <4>2, <4>3, <4>4
    <3>3. - (Half * Half) <= n /\ n <= Half * Half /\ n \in Int
      BY <1>1, <1>2, <3>2
    <3>4. WordMod * Half = 2 * (Half * Half) /\ Half * Half \in Nat /\ Half * Half > 0
      BY <1>1
    <3> HIDE DEF n
    <3> QED
      BY <3>3, <3>4
  <2> HIDE DEF n
  <2>2. hi \in Int /\ - Half <= hi /\ hi < Half /\ Upper(hi, n)
    BY <2>1, UpperFits
  <2> HIDE DEF hi
  <2>3. Upper(Signed(Wrap(hi)), n)
    BY <2>2, SignedWrap
  <2> QED
    BY <1>1, <1>4, <2>3 DEF MulDiv, Specified, n, hi
<1>5. CASE op = "MULHSU"
  <2> DEFINE n == Signed(a) * b
             hi == n \div WordMod
             K == WordMod * WordMod
             w == (n % K) \div WordMod
  <2>1. n \in Int /\ - (WordMod * Half) <= n /\ n < WordMod * Half
    <3>1. n \in Int /\ - (WordMod * Half) <= n /\ n <= WordMod * Half
      <4>1. b \in Int /\ - WordMod <= b /\ b <= WordMod
        BY <1>1
      <4>2. Signed(a) * b \in Int /\ - (WordMod * Half) <= Signed(a) * b
            /\ Signed(a) * b <= WordMod * Half
        BY <1>2, <4>1, ProductFits
      <4> QED
        BY <4>2
    <3>2. n # WordMod * Half
      <4>1. CASE Signed(a) <= 0
        <5>1. - Signed(a) >= 0 /\ (- Signed(a)) * b >= 0 /\ n = - ((- Signed(a)) * b)
          BY <1>1, <1>2, <4>1
        <5> DEFINE k == (- Signed(a)) * b
        <5>2. k \in Int
          BY <1>1, <1>2
        <5> HIDE DEF n, k
        <5>3. n <= 0
          BY <5>1, <5>2 DEF k
        <5>4. WordMod * Half > 0
          BY <1>1
        <5> QED
          BY <3>1, <5>3, <5>4
      <4>2. CASE Signed(a) > 0
        <5>1. n <= Signed(a) * WordMod /\ Signed(a) * WordMod <= (Half - 1) * WordMod
          BY <1>1, <1>2, <4>2
        <5>2. (Half - 1) * WordMod = WordMod * Half - WordMod
          BY <1>1
        <5> QED
          BY <1>1, <1>2, <3>1, <5>1, <5>2
      <4> QED
        BY <1>2, <4>1, <4>2
    <3> HIDE DEF n
    <3>3. WordMod * Half \in Int
      BY <1>1
    <3> QED
      BY <3>1, <3>2, <3>3
  <2> HIDE DEF n
  <2>2. hi \in Int /\ - Half <= hi /\ hi < Half /\ Upper(hi, n)
    BY <2>1, UpperFits
  <2> HIDE DEF hi
  <2>3. WordMod * Half <= K /\ K \in Nat /\ K > 0 /\ K = WordMod * WordMod
    BY <1>1
  <2> HIDE DEF K
  <2>4. CASE n >= 0
    <3>1. n = K * 0 + n /\ n \in 0 .. K - 1 /\ 0 \in Int
      BY <2>1, <2>3, <2>4, <1>1
    <3>2. n % K = n
      BY <2>1, <2>3, <3>1, DivUnique
    <3>3. w = hi
      BY <3>2 DEF hi
    <3>4. hi >= 0
      <4>1. n \in Nat
        BY <2>1, <2>4
      <4>2. n \div WordMod \in 0 .. n
        BY <1>1, <4>1, DivLess
      <4> QED
        BY <4>2 DEF hi
    <3>5. Signed(hi) = hi
      BY <1>1, <2>2, <3>4 DEF Signed
    <3> QED
      BY <1>1, <1>5, <2>2, <3>3, <3>5 DEF MulDiv, Specified, n, K
  <2>5. CASE n < 0
    <3>1. n = K * (-1) + (n + K) /\ n + K \in 0 .. K - 1 /\ -1 \in Int
      BY <2>1, <2>3, <2>5, <1>1
    <3>2. n % K = n + WordMod * WordMod
      <4>2. ASSUME NEW c \in 0 .. K - 1, n = K * (-1) + c
            PROVE  n % K = c
        BY <2>1, <2>3, <4>2, DivUnique
      <4>1. n % K = n + K
        BY <3>1, <4>2
      <4> QED
        BY <4>1 DEF K
    <3>3. w = hi + WordMod
      BY <1>1, <2>1, <3>2, DivAdd DEF hi
    <3>4. hi < 0
      <4> SUFFICES ASSUME hi >= 0 PROVE FALSE
        BY <2>2
      <4>1. PICK q \in Int, c \in 0 .. WordMod - 1 :
               n = WordMod * q + c /\ n \div WordMod = q /\ n % WordMod = c
        BY <1>1, <2>1, DivMod
      <4>2. q >= 0
        BY <4>1 DEF hi
      <4>3. WordMod * q >= 0 /\ WordMod * q \in Int
        BY <1>1, <4>1, <4>2
      <4> QED
        BY <2>1, <2>5, <4>1, <4>3
    <3>5. Signed(hi + WordMod) = hi
      BY <1>1, <2>2, <3>4 DEF Signed
    <3> QED
      BY <1>1, <1>5, <2>2, <3>3, <3>5 DEF MulDiv, Specified, n, K
  <2> QED
    BY <2>1, <2>4, <2>5
<1>6. CASE op = "MULHU"
  <2> DEFINE n == a * b
  <2>1. n \in Int
    BY <1>1
  <2> HIDE DEF n
  <2>2. PICK q \in Int, c \in 0 .. WordMod - 1 :
           n = WordMod * q + c /\ n \div WordMod = q /\ n % WordMod = c
    BY <1>1, <2>1, DivMod
  <2>3. n = q * WordMod + c /\ c \in Word
    BY <1>1, <2>2
  <2>4. Upper(n \div WordMod, n)
    BY <2>2, <2>3 DEF Upper
  <2> QED
    BY <1>1, <1>6, <2>4 DEF MulDiv, Specified, n
<1> QED
  BY <1>3, <1>4, <1>5, <1>6 DEF MulOps

\* Division of words without a sign.
LEMMA UnsignedDivides ==
    ASSUME NEW a \in Word, NEW b \in Word, b # 0
    PROVE  /\ a \div b \in Word /\ a % b \in Int
           /\ Divides(a, b, a \div b, a - b * (a \div b))
           /\ Divides(a, b, a \div b, a % b)
<1>1. a \in Nat /\ b \in Nat /\ b > 0 /\ a < WordMod /\ Word = 0 .. WordMod - 1
      /\ WordMod \in Nat
  BY WordFacts
<1>2. PICK q \in Int, c \in 0 .. b - 1 : a = b * q + c /\ a \div b = q /\ a % b = c
  BY <1>1, DivMod
<1>3. q \in 0 .. a
  BY <1>1, <1>2, DivLess
<1>4. a - b * q = c /\ a = q * b + c
  BY <1>1, <1>2
<1>5. Abs(c) < Abs(b) /\ ((c < 0) = (a < 0))
  BY <1>1, <1>2 DEF Abs
<1>6. Divides(a, b, q, c)
  BY <1>4, <1>5 DEF Divides
<1>7. q \in Word
  BY <1>1, <1>3
<1> QED
  BY <1>2, <1>4, <1>6, <1>7

LEMMA DivComputes ==
    ASSUME NEW op \in DivOps, NEW a \in Word, NEW b \in Word, b # 0, ~ Traps(op, a, b)
    PROVE  Specified(op, a, b, MulDiv(op, a, b))
<1> DEFINE m == Signed(a)
           n == Signed(b)
           q == Quotient(m, n)
<1>1. /\ Half \in Nat /\ Half > 0 /\ WordMod = 2 * Half
      /\ m \in Int /\ - Half <= m /\ m < Half
      /\ n \in Int /\ - Half <= n /\ n < Half /\ n # 0
  BY HalfFacts, Signs, SignedZero
<1> HIDE DEF m, n
<1>2. q \in Int /\ Divides(m, n, q, m - n * q) /\ Abs(q) <= Abs(m)
  BY <1>1, QuotientDivides
<1> HIDE DEF q
<1>3. CASE op = "DIV"
  <2>1. ~ Traps("DIV", a, b)
    BY <1>3
  <2>2. - Half <= q /\ q < Half
    BY <2>1, QuotientFits DEF q, m, n
  <2>3. Signed(Wrap(q)) = q
    BY <1>2, <2>2, SignedWrap
  <2>4. MulDiv(op, a, b) = Wrap(q)
    BY <1>3 DEF MulDiv, q, m, n
  <2>5. Divides(m, n, Signed(Wrap(q)), m - n * Signed(Wrap(q)))
    BY <1>2, <2>3
  <2>6. Specified("DIV", a, b, Wrap(q))
    BY <2>5 DEF Specified, m, n
  <2> QED
    BY <1>3, <2>4, <2>6
<1>4. CASE op = "DIVU"
  <2>1. MulDiv(op, a, b) = a \div b
    BY <1>4 DEF MulDiv
  <2>2. Specified("DIVU", a, b, a \div b)
    BY UnsignedDivides DEF Specified
  <2> QED
    BY <1>4, <2>1, <2>2
<1>5. CASE op = "REM"
  <2> DEFINE s == m - n * q
  <2>1. s \in Int /\ Abs(s) < Abs(n)
    BY <1>1, <1>2 DEF Divides
  <2> HIDE DEF s
  <2>2. - Half <= s /\ s < Half
    BY <1>1, <2>1 DEF Abs
  <2>3. Signed(Wrap(s)) = s
    BY <2>1, <2>2, SignedWrap
  <2>4. MulDiv(op, a, b) = Wrap(s)
    BY <1>5 DEF MulDiv, Remainder, s, q, m, n
  <2>5. q \in - WordMod .. WordMod
    BY <1>1, <1>2 DEF Abs
  <2>6. Divides(m, n, q, Signed(Wrap(s)))
    BY <1>2, <2>3 DEF s
  <2>7. Specified("REM", a, b, Wrap(s))
    BY <2>5, <2>6 DEF Specified, m, n
  <2> QED
    BY <1>5, <2>4, <2>7
<1>6. CASE op = "REMU"
  <2>1. MulDiv(op, a, b) = a % b
    BY <1>6 DEF MulDiv
  <2>2. Specified("REMU", a, b, a % b)
    BY UnsignedDivides DEF Specified
  <2> QED
    BY <1>6, <2>1, <2>2
<1> QED
  BY <1>3, <1>4, <1>5, <1>6 DEF DivOps

\* A cycle that executes such an instruction and does not end the run is the
\* one of Arithmetic.
LEMMA ArithmeticCycle ==
    ASSUME TypeInv, Cycle, Executes(AluOps \cup MulOps \cup DivOps), halted' = "no"
    PROVE  Arithmetic
<1>1. Inst.op \in AluOps \cup MulOps \cup DivOps /\ ~ Stalled /\ Running /\ InProgram(Pc)
  BY FieldTypes DEF Executes
<1>2. /\ Inst.op \notin Loads \cup Stores \cup BranchOps
      /\ Inst.op \notin {"LUI", "AUIPC", "JAL", "JALR", "ILLEGAL"}
  BY <1>1 DEF AluOps, MulOps, DivOps, Loads, Stores, BranchOps
<1>3. Instruction
  BY <1>1 DEF Cycle, Run, Skip
<1>4. ~ (LoadUpper \/ Jump \/ Branch \/ LoadData \/ LoadHostTime \/ LoadPort)
  BY <1>2 DEF LoadUpper, Jump, Branch, LoadData, LoadHostTime, LoadPort, Executes
<1>5. ~ (StoreData \/ StoreZero \/ StoreStatus \/ StorePort \/ Exit)
  BY <1>2 DEF StoreData, StoreZero, StoreStatus, StorePort, Exit, StoresTo, Executes
<1>6. ~ (Throw \/ Trap \/ Undefined)
  BY DEF Throw, Trap, Undefined, Halt
<1> QED
  BY <1>3, <1>4, <1>5, <1>6 DEF Instruction

LEMMA ArithmeticComputes ==
    ASSUME TypeInv, Arithmetic, Inst.rd # 0, ~ (Inst.op \in DivOps /\ Operand = 0)
    PROVE  Specified(Inst.op, Operand1, Operand, r'[Inst.rd])
<1>1. CASE Executes(AluOps) /\ Plain(Inst.rd, Alu(Inst.op, Operand1, Operand), PcNext)
  <2>1. /\ Inst.op \in AluOps /\ Inst.rd \in RegisterIds
        /\ Operand1 \in Word /\ Operand \in Word
    BY <1>1, FieldTypes
  <2>2. r'[Inst.rd] = Alu(Inst.op, Operand1, Operand)
    BY <1>1, <2>1, CycleTypes DEF Plain
  <2> QED
    BY <2>1, <2>2, AluComputes
<1>2. CASE /\ Executes(MulOps \cup DivOps) /\ ~ Traps(Inst.op, Operand1, Operand2)
           /\ Plain(Inst.rd, MulDiv(Inst.op, Operand1, Operand2), PcNext)
  <2>1. /\ Inst.op \in MulOps \cup DivOps /\ Inst.rd \in RegisterIds
        /\ Operand1 \in Word /\ Operand2 \in Word /\ Operand = Operand2
    BY <1>2, FieldTypes DEF Operand
  <2>2. r'[Inst.rd] = MulDiv(Inst.op, Operand1, Operand2)
    BY <1>2, <2>1, CycleTypes DEF Plain
  <2>3. Specified(Inst.op, Operand1, Operand2, MulDiv(Inst.op, Operand1, Operand2))
    BY <1>2, <2>1, MulComputes, DivComputes
  <2> QED
    BY <2>1, <2>2, <2>3
<1> QED
  BY <1>1, <1>2 DEF Arithmetic

\* For every width of a word, every program and every pair of operands: the
\* C++ expressions of THellfireProcessor::Run give what the manual says of the
\* eighteen operations of RV32I and RV32M, the division by zero apart, which
\* the manual defines otherwise, and the quotient that traps, which has none.
THEOREM ComputesTheManual == Spec => Computes
<1> DEFINE Step ==
        Cycle /\ Executes(AluOps \cup MulOps \cup DivOps) /\ halted' = "no"
        /\ Inst.rd # 0 /\ ~(Inst.op \in DivOps /\ Operand = 0)
        => Specified(Inst.op, Operand1, Operand, r'[Inst.rd])
<1>1. TypeInv /\ [Next]_vars => [Step]_vars
  BY ArithmeticCycle, ArithmeticComputes
<1> QED
  BY <1>1, InitTypes, NextTypes, PTL DEF Spec, Computes
=============================================================================
