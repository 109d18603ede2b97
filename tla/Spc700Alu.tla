------------------------------ MODULE Spc700Alu ------------------------------
(***************************************************************************)
(* The arithmetic of class Spc700 (core/src/audio/Spc700.cpp): the Alg     *)
(* functions, the word instructions, MUL, DIV, DAA, DAS and XCN, on the    *)
(* registers and flags, one instruction after the other.  A byte is two    *)
(* digits, and both the digit and the decimal digit have any size.  The    *)
(* bitwise operations, which only set Z and N, are left out.               *)
(***************************************************************************)
EXTENDS Integers

CONSTANTS
  Digit,    \* 16
  Decimal,  \* 10
  ByteData, \* bytes in memory,
  WordData, \* words there,
  Divisors  \* and what X holds

AluByte == Digit * Digit
AluWord == AluByte * AluByte

\* What the constants are to satisfy.
ASSUME Spc700AluAssumption ==
  /\ Digit \in Nat \ {0} /\ Digit % 2 = 0
  /\ Decimal \in 2 .. Digit - 1
  /\ ByteData \subseteq 0 .. AluByte - 1 /\ Divisors \subseteq 0 .. AluByte - 1
  /\ WordData \subseteq 0 .. AluWord - 1

VARIABLES
  aReg, yReg, xReg,
  psw,      \* C, H, V, Z and N
  decimal   \* history: the decimal sum or difference a decimal adjustment is to make of A

aluVars == <<aReg, yReg, xReg, psw, decimal>>

NotDecimal == [adjust |-> "none", value |-> 0]

AluInit ==
  /\ aReg = 0 /\ yReg = 0 /\ xReg \in Divisors
  /\ psw = [c |-> FALSE, h |-> FALSE, v |-> FALSE, z |-> TRUE, n |-> FALSE]
  /\ decimal = NotDecimal

-----------------------------------------------------------------------------
Bit(b) == IF b THEN 1 ELSE 0

Negative(b) == b >= AluByte \div 2

\* A result that sets Z and N.
Result(f, value) ==
  [value |-> value, flag |-> [f EXCEPT !.z = value = 0, !.n = Negative(value)]]

Adc(f, p, q) ==
  LET sum == p + q + Bit(f.c)
      value == sum % AluByte
  IN  Result([f EXCEPT
        !.c = sum >= AluByte,
        !.h = (p % Digit) + (q % Digit) + Bit(f.c) >= Digit,
        !.v = (Negative(p) <=> Negative(q)) /\ (Negative(p) # Negative(value))], value)

Sbc(f, p, q) == Adc(f, p, AluByte - 1 - q)

Cmp(f, p, q) == Result([f EXCEPT !.c = p >= q], (p - q) % AluByte)

Asl(f, p) == Result([f EXCEPT !.c = Negative(p)], (2 * p) % AluByte)
Lsr(f, p) == Result([f EXCEPT !.c = p % 2 = 1], p \div 2)
Rol(f, p) == Result([f EXCEPT !.c = Negative(p)], (2 * p + Bit(f.c)) % AluByte)
Ror(f, p) == Result([f EXCEPT !.c = p % 2 = 1], (p \div 2) + Bit(f.c) * (AluByte \div 2))
Increase(f, p) == Result(f, (p + 1) % AluByte)
Decrease(f, p) == Result(f, (p + AluByte - 1) % AluByte)

Shifts(p) == {Asl(psw, p), Lsr(psw, p), Rol(psw, p), Ror(psw, p), Increase(psw, p),
              Decrease(psw, p)}

\* Two bytes, chained.
Chained(op(_, _, _), f, p, q) ==
  LET low == op(f, p % AluByte, q % AluByte)
      high == op(low.flag, p \div AluByte, q \div AluByte)
      value == low.value + AluByte * high.value
  IN  [value |-> value, flag |-> [high.flag EXCEPT !.z = value = 0]]

\* Mutant: the carry goes into the low byte.
AdwCarried(f, p, q) == Chained(Adc, f, p, q)

Adw(f, p, q) == Chained(Adc, [f EXCEPT !.c = FALSE], p, q)
Sbw(f, p, q) == Chained(Sbc, [f EXCEPT !.c = TRUE], p, q)

WordFlags(f, value) == [f EXCEPT !.z = value = 0, !.n = Negative(value \div AluByte)]

Cpw(f, p, q) == WordFlags([f EXCEPT !.c = p >= q], (p - q) % AluWord)

YA == yReg * AluByte + aReg

-----------------------------------------------------------------------------
(***************************************************************************)
(* The instructions.                                                       *)
(***************************************************************************)
\* Two decimal digits, and the number they are.
IsDecimal(b) == b \div Digit < Decimal /\ b % Digit < Decimal

Number(b) == (b \div Digit) * Decimal + (b % Digit)

Hundred == Decimal * Decimal

ExpectAdd(m) ==
  IF IsDecimal(aReg) /\ IsDecimal(m)
  THEN [adjust |-> "add", value |-> Number(aReg) + Number(m) + Bit(psw.c)]
  ELSE NotDecimal

ExpectSubtract(m) ==
  IF IsDecimal(aReg) /\ IsDecimal(m)
  THEN [adjust |-> "subtract", value |-> Number(aReg) - Number(m) - 1 + Bit(psw.c)]
  ELSE NotDecimal

ToA(r) == aReg' = r.value /\ psw' = r.flag /\ UNCHANGED <<xReg, yReg>>

ADC(m) == ToA(Adc(psw, aReg, m)) /\ decimal' = ExpectAdd(m)

SBC(m) == ToA(Sbc(psw, aReg, m)) /\ decimal' = ExpectSubtract(m)

CMP(m) ==
  /\ psw' = Cmp(psw, aReg, m).flag
  /\ decimal' = NotDecimal
  /\ UNCHANGED <<aReg, xReg, yReg>>

ShiftA == (\E r \in Shifts(aReg) : ToA(r)) /\ decimal' = NotDecimal

Load(m) == ToA(Result(psw, m)) /\ decimal' = NotDecimal

ToYA(value, f) ==
  /\ aReg' = value % AluByte /\ yReg' = value \div AluByte /\ psw' = f
  /\ decimal' = NotDecimal
  /\ UNCHANGED xReg

ADDW(w) == LET r == Adw(psw, YA, w) IN ToYA(r.value, r.flag)
SUBW(w) == LET r == Sbw(psw, YA, w) IN ToYA(r.value, r.flag)
CMPW(w) == ToYA(YA, Cpw(psw, YA, w))
MOVW(w) == ToYA(w, WordFlags(psw, w))

\* INCW and DECW of a word in memory: byte by byte, with the carry from the low one.
Adjusted(w, by) ==
  LET low == ((w % AluByte) + by) % AluByte
      carry == IF by = 1 THEN Bit(low = 0) ELSE -Bit(low = AluByte - 1)
  IN  low + AluByte * (((w \div AluByte) + carry) % AluByte)

AdjustW(w, by) == ToYA(YA, WordFlags(psw, Adjusted(w, by)))

MUL == LET r == Result(psw, (yReg * aReg) \div AluByte)
       IN  ToYA(yReg * aReg, r.flag)

\* A quotient that does not fit is what the hardware's shifts leave.
Quotient ==
  IF yReg < 2 * xReg THEN (YA \div xReg) % AluByte
  ELSE AluByte - 1 - ((YA - 2 * AluByte * xReg) \div (AluByte - xReg))

Remainder ==
  IF yReg < 2 * xReg THEN YA % xReg
  ELSE xReg + ((YA - 2 * AluByte * xReg) % (AluByte - xReg))

Overflows == yReg >= xReg

DIV ==
  LET r == Result([psw EXCEPT !.h = yReg % Digit >= xReg % Digit, !.v = Overflows], Quotient)
  IN  ToYA(Remainder * AluByte + Quotient, r.flag)

Nines == (Decimal - 1) * Digit + Decimal - 1

Skip == Digit - Decimal

LowDigit(b, carried) == carried \/ b % Digit >= Decimal

DAA ==
  LET high == psw.c \/ aReg > Nines
      a1 == IF high THEN (aReg + Skip * Digit) % AluByte ELSE aReg
      a2 == IF LowDigit(a1, psw.h) THEN (a1 + Skip) % AluByte ELSE a1
  IN  ToA(Result([psw EXCEPT !.c = high], a2)) /\ decimal' = NotDecimal

DAS ==
  LET high == ~psw.c \/ aReg > Nines
      a1 == IF high THEN (aReg - Skip * Digit) % AluByte ELSE aReg
      a2 == IF LowDigit(a1, ~psw.h) THEN (a1 - Skip) % AluByte ELSE a1
  IN  ToA(Result([psw EXCEPT !.c = ~high], a2)) /\ decimal' = NotDecimal

XCN ==
  ToA(Result(psw, (aReg % Digit) * Digit + aReg \div Digit)) /\ decimal' = NotDecimal

\* SETC, CLRC, NOTC and CLRV.
Flags ==
  /\ psw' \in {[psw EXCEPT !.c = TRUE], [psw EXCEPT !.c = FALSE], [psw EXCEPT !.c = ~@],
                [psw EXCEPT !.h = FALSE, !.v = FALSE]}
  /\ decimal' = NotDecimal
  /\ UNCHANGED <<aReg, xReg, yReg>>

AluNext ==
  \/ \E m \in ByteData : ADC(m) \/ SBC(m) \/ CMP(m) \/ Load(m)
  \/ \E w \in WordData : ADDW(w) \/ SUBW(w) \/ CMPW(w) \/ MOVW(w)
                             \/ AdjustW(w, 1) \/ AdjustW(w, -1)
  \/ ShiftA \/ MUL \/ DIV \/ DAA \/ DAS \/ XCN \/ Flags

AluSpec == AluInit /\ [][AluNext]_aluVars

-----------------------------------------------------------------------------

Signed(w) == IF w >= AluWord \div 2 THEN w - AluWord ELSE w

InWord(i) == i \in -(AluWord \div 2) .. (AluWord \div 2) - 1

WordArithmetic ==
  \A w \in WordData :
    LET sum == Adw(psw, YA, w)
        difference == Sbw(psw, YA, w)
    IN  /\ Bit(sum.flag.c) * AluWord + sum.value = YA + w
        /\ sum.flag.v <=> ~InWord(Signed(YA) + Signed(w))
        /\ sum.flag.z <=> sum.value = 0
        /\ difference.value - (1 - Bit(difference.flag.c)) * AluWord = YA - w
        /\ difference.flag.v <=> ~InWord(Signed(YA) - Signed(w))
        /\ difference.flag.z <=> difference.value = 0
        /\ \A by \in {1, -1} : Adjusted(w, by) = (w + by) % AluWord

Division ==
  /\ Overflows <=> xReg = 0 \/ YA \div xReg >= AluByte
  /\ yReg < 2 * xReg =>
       YA = xReg * (Quotient + AluByte * Bit(Overflows)) + Remainder /\ Remainder < xReg

DecimalAdjusted ==
  /\ decimal.adjust = "add" /\ DAA =>
       IsDecimal(aReg') /\ Number(aReg') + Hundred * Bit(psw'.c) = decimal.value
  /\ decimal.adjust = "subtract" /\ DAS =>
       IsDecimal(aReg') /\ Number(aReg') - Hundred * (1 - Bit(psw'.c)) = decimal.value

\* The word instructions chain two bytes, and their result and flags are those of the
\* word: carry and overflow of the whole, Z only if both bytes are zero.  DIV is exact
\* when its quotient fits, V says whether it does, and up to twice the range only the
\* quotient's ninth bit is lost.  And the sum or difference of two decimal numbers,
\* adjusted, is decimal again, and exact with the carry or borrow, whichever of the
\* digits have carried.
ArithmeticExact == [](WordArithmetic /\ Division) /\ [][DecimalAdjusted]_aluVars
=============================================================================
