-------------------------------- MODULE Isa --------------------------------
(***************************************************************************)
(* The arithmetic of the processor: what the C++ expressions of            *)
(* THellfireProcessor::Run compute from two words, on the machine that     *)
(* runs the simulator.  A word is four bytes of ByteBits bits.             *)
(***************************************************************************)
EXTENDS Integers

CONSTANT ByteBits       \* 8

ASSUME ByteBitsAssumption == ByteBits \in Nat \ {0}

ByteMod  == 2 ^ ByteBits
WordBits == 4 * ByteBits
WordMod  == 2 ^ WordBits
Word     == 0 .. WordMod - 1

\* The laws of powers up to a word, in the form that proofs use.
ASSUME PowerAssumption ==
    /\ 2 ^ 0 = 1 /\ 2 ^ 1 = 2
    /\ \A i \in 0 .. WordBits : 2 ^ i \in Nat \ {0}
    /\ \A i, j \in 0 .. WordBits : i + j <= WordBits => 2 ^ (i + j) = 2 ^ i * 2 ^ j

Wrap(n)   == n % WordMod
Signed(w) == IF 2 * w >= WordMod THEN w - WordMod ELSE w
Flag(b)   == IF b THEN 1 ELSE 0

Positions  == 0 .. WordBits - 1
Bits(w)    == {i \in Positions : (w \div 2 ^ i) % 2 = 1}
WordOf(bs) == CHOOSE w \in Word : Bits(w) = bs

\* The host shifts by the low bits of the amount, whatever the others are.
Amount(w) == w % WordBits

\* Division of C++ rounds towards zero.
Abs(n) == IF n < 0 THEN - n ELSE n
Quotient(m, n) ==
    IF (m < 0) = (n < 0) THEN Abs(m) \div Abs(n) ELSE - (Abs(m) \div Abs(n))
Remainder(m, n) == m - n * Quotient(m, n)

AluOps == {"ADD", "SUB", "SLL", "SLT", "SLTU", "XOR", "SRL", "SRA", "OR", "AND"}
MulOps == {"MUL", "MULH", "MULHSU", "MULHU"}
DivOps == {"DIV", "DIVU", "REM", "REMU"}
BranchOps == {"BEQ", "BNE", "BLT", "BGE", "BLTU", "BGEU"}

\* The one signed division whose result does not fit: the host traps.
Traps(op, a, b) ==
    /\ op \in {"DIV", "REM"}
    /\ Signed(b) = -1 /\ 2 * a = WordMod

MutShiftArithmetic(a, n) == a \div 2 ^ n

\* >> of a negative number copies its sign.
ShiftArithmetic(a, n) == Wrap(Signed(a) \div 2 ^ n)

\* Types R and I, the second with its immediate for b.
Alu(op, a, b) ==
    CASE op = "ADD"  -> Wrap(a + b)
      [] op = "SUB"  -> Wrap(a - b)
      [] op = "SLL"  -> Wrap(a * 2 ^ Amount(b))
      [] op = "SLT"  -> Flag(Signed(a) < Signed(b))
      [] op = "SLTU" -> Flag(a < b)
      [] op = "XOR"  -> WordOf((Bits(a) \ Bits(b)) \cup (Bits(b) \ Bits(a)))
      [] op = "SRL"  -> a \div 2 ^ Amount(b)
      [] op = "SRA"  -> ShiftArithmetic(a, Amount(b))
      [] op = "OR"   -> WordOf(Bits(a) \cup Bits(b))
      [] op = "AND"  -> WordOf(Bits(a) \cap Bits(b))

\* RV32M.  The products have twice the width; a division by zero gives zero.
MulDiv(op, a, b) ==
    IF op \in DivOps /\ b = 0 THEN 0
    ELSE
    CASE op = "MUL"    -> Wrap(Signed(a) * Signed(b))
      [] op = "MULH"   -> Wrap((Signed(a) * Signed(b)) \div WordMod)
      [] op = "MULHSU" -> ((Signed(a) * b) % (WordMod * WordMod)) \div WordMod
      [] op = "MULHU"  -> (a * b) \div WordMod
      [] op = "DIV"    -> Wrap(Quotient(Signed(a), Signed(b)))
      [] op = "DIVU"   -> a \div b
      [] op = "REM"    -> Wrap(Remainder(Signed(a), Signed(b)))
      [] op = "REMU"   -> a % b

Taken(op, a, b) ==
    CASE op = "BEQ"  -> a = b
      [] op = "BNE"  -> a # b
      [] op = "BLT"  -> Signed(a) < Signed(b)
      [] op = "BGE"  -> Signed(a) >= Signed(b)
      [] op = "BLTU" -> a < b
      [] op = "BGEU" -> a >= b

-----------------------------------------------------------------------------
(***************************************************************************)
(* What the RISC-V manual says of the same operations: each result as a    *)
(* word with a property, not as a formula.  A word is seen as its bits     *)
(* where the code calculates, and as a number where the code takes bits.   *)
(***************************************************************************)
SignBit(w) == WordBits - 1 \in Bits(w)

\* a < b for two's complement words: the signs decide, or else the rest does.
Below(a, b) == IF SignBit(a) # SignBit(b) THEN SignBit(a) ELSE a < b

\* Bit i of the result of a shift.
ShiftedLeft(a, n)  == {i \in Positions : i - n \in Bits(a)}
ShiftedRight(a, n) == {i \in Positions : i + n \in Bits(a)}
SignFilled(a, n) ==
    ShiftedRight(a, n) \cup {i \in WordBits - n .. WordBits - 1 : SignBit(a)}

\* w and n agree modulo the size of a word.
Congruent(w, n) == \E k \in -WordMod .. WordMod : n = w + k * WordMod

\* hi is the upper word of the product m, whose lower word is any.
Upper(hi, m) == \E lo \in Word : m = hi * WordMod + lo

\* q and s are the quotient and the remainder of m by n, rounded to zero.
Divides(m, n, q, s) ==
    /\ m = q * n + s
    /\ Abs(s) < Abs(n)
    /\ s # 0 => (s < 0) = (m < 0)

Specified(op, a, b, w) ==
    CASE op = "ADD"  -> Congruent(w, a + b)
      [] op = "SUB"  -> Congruent(w, a - b)
      [] op = "SLL"  -> Bits(w) = ShiftedLeft(a, b % WordBits)
      [] op = "SLT"  -> (w = 1 /\ Below(a, b)) \/ (w = 0 /\ ~Below(a, b))
      [] op = "SLTU" -> (w = 1 /\ a < b) \/ (w = 0 /\ a >= b)
      [] op = "XOR"  -> \A i \in Positions : i \in Bits(w) <=> ((i \in Bits(a)) # (i \in Bits(b)))
      [] op = "SRL"  -> Bits(w) = ShiftedRight(a, b % WordBits)
      [] op = "SRA"  -> Bits(w) = SignFilled(a, b % WordBits)
      [] op = "OR"   -> \A i \in Positions : i \in Bits(w) <=> i \in Bits(a) \/ i \in Bits(b)
      [] op = "AND"  -> \A i \in Positions : i \in Bits(w) <=> i \in Bits(a) /\ i \in Bits(b)
      [] op = "MUL"  -> Congruent(w, a * b)
      [] op = "MULH" -> Upper(Signed(w), Signed(a) * Signed(b))
      [] op = "MULHSU" -> Upper(Signed(w), Signed(a) * b)
      [] op = "MULHU"  -> Upper(w, a * b)
      [] op = "DIV"  -> Divides(Signed(a), Signed(b), Signed(w),
                                Signed(a) - Signed(b) * Signed(w))
      [] op = "DIVU" -> Divides(a, b, w, a - b * w)
      [] op = "REM"  -> \E q \in -WordMod .. WordMod :
                           Divides(Signed(a), Signed(b), q, Signed(w))
      [] op = "REMU" -> \E q \in Word : Divides(a, b, q, w)

=============================================================================
