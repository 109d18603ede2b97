------------------------------- MODULE MulDiv -------------------------------
(***************************************************************************)
(* The multiplier and divider of the CPU: registers $4202-$4206 and        *)
(* $4214-$4217 and AluStep of CpuIoRegisters (core/src/io), stepped by     *)
(* SnesCpu after every read and idle cycle, before every write cycle and   *)
(* five times by a DRAM refresh.                                           *)
(*                                                                         *)
(* An operand has Width bits (8), a product or a dividend twice as many.   *)
(***************************************************************************)
EXTENDS Naturals

CONSTANTS
  Width,
  Factors,    \* what the program writes to $4202, $4203 and $4206
  Dividends   \* what it has in $4204 and $4205

ByteValues == 0 .. 2^Width - 1
WordSize == 2^(2 * Width)
WordValues == 0 .. WordSize - 1

\* What the constants are to satisfy.
ASSUME MulDivAssumption ==
  /\ Width \in Nat \ {0}
  /\ Factors \subseteq ByteValues
  /\ Dividends \subseteq WordValues

VARIABLES
  wrmpya, wrdiva,      \* $4202, $4204/5
  rddiv, rdmpy,        \* $4214/5, $4216/7
  mpyctr, divctr, shift,
  busyOnWrite,         \* the ALU was busy at the last write edge
  writing,             \* whether the CPU is between that edge and the write
  want                 \* history: the pair <<rddiv, rdmpy>> the operation in
                       \* progress, or the last one, is to leave, and whether a
                       \* second trigger has spoilt it

operands == <<wrmpya, wrdiva>>
aluVars == <<operands, rddiv, rdmpy, mpyctr, divctr, shift, busyOnWrite, writing, want>>

Nothing == [rddiv |-> 0, rdmpy |-> 0, spoilt |-> TRUE]

AluInit ==
  /\ wrmpya = 2^Width - 1 /\ wrdiva = WordSize - 1
  /\ rddiv = 0 /\ rdmpy = 0
  /\ mpyctr = 0 /\ divctr = 0 /\ shift = 0
  /\ busyOnWrite = FALSE /\ writing = FALSE
  /\ want = Nothing

AluBusy == mpyctr > 0 \/ divctr > 0

-----------------------------------------------------------------------------
(***************************************************************************)
(* AluStep.                                                                *)
(***************************************************************************)
\* The registers and counters of the ALU as a record, one step later.
Alu == [q |-> rddiv, r |-> rdmpy, m |-> mpyctr, d |-> divctr, s |-> shift]

\* The product with one more partial product.
Added(r, s) == (r + s) % WordSize

MulStep(a) ==
  IF a.m = 0 THEN a
  ELSE [a EXCEPT !.m = @ - 1, !.q = @ \div 2, !.s = 2 * @,
                 !.r = IF a.q % 2 = 1 THEN Added(@, a.s) ELSE @]

\* Mutant: a divisor that goes exactly is not subtracted.
DivStepStrict(a) ==
  LET s == a.s \div 2
      q == ((2 * a.q) % WordSize)
  IN  IF a.d = 0 THEN a
      ELSE IF a.r > s
      THEN [a EXCEPT !.d = @ - 1, !.s = s, !.q = q + 1, !.r = @ - s]
      ELSE [a EXCEPT !.d = @ - 1, !.s = s, !.q = q]

DivStep(a) ==
  LET s == a.s \div 2
      q == ((2 * a.q) % WordSize)
  IN  IF a.d = 0 THEN a
      ELSE IF a.r >= s
      THEN [a EXCEPT !.d = @ - 1, !.s = s, !.q = q + 1, !.r = @ - s]
      ELSE [a EXCEPT !.d = @ - 1, !.s = s, !.q = q]

Stepped == DivStep(MulStep(Alu))

AluStep ==
  /\ rddiv' = Stepped.q /\ rdmpy' = Stepped.r
  /\ mpyctr' = Stepped.m /\ divctr' = Stepped.d /\ shift' = Stepped.s

\* A read or idle cycle, or one of the five edges of a refresh; a refresh during
\* the DMA that delays a write falls between the write's edge and the write.
ReadCycle ==
  /\ AluStep
  /\ UNCHANGED <<operands, busyOnWrite, writing, want>>

\* The edge of a write cycle.
WriteEdge ==
  /\ ~writing
  /\ busyOnWrite' = AluBusy
  /\ AluStep
  /\ writing' = TRUE
  /\ UNCHANGED <<operands, want>>

-----------------------------------------------------------------------------
(***************************************************************************)
(* Write, by the CPU, or by a DMA that runs between edge and write.        *)
(***************************************************************************)
Refused == busyOnWrite \/ AluBusy

Written == busyOnWrite' = FALSE /\ writing' = FALSE

\* $4203
WriteMultiplier(b) ==
  /\ writing /\ Written
  /\ rdmpy' = 0
  /\ IF Refused
     THEN /\ want' = [want EXCEPT !.spoilt = TRUE]
          /\ UNCHANGED <<rddiv, mpyctr, shift>>
     ELSE /\ rddiv' = b * 2^Width + wrmpya
          /\ mpyctr' = Width
          /\ shift' = b
          /\ want' = [rddiv |-> b, rdmpy |-> b * wrmpya, spoilt |-> FALSE]
  /\ UNCHANGED <<operands, divctr>>

\* $4206.  Dividing by 0 leaves a quotient of ones and the dividend.
Quotient(n, d) == IF d = 0 THEN WordSize - 1 ELSE n \div d
Remainder(n, d) == IF d = 0 THEN n ELSE n % d

WriteDivisor(b) ==
  /\ writing /\ Written
  /\ rdmpy' = wrdiva
  /\ IF Refused
     THEN /\ want' = [want EXCEPT !.spoilt = TRUE]
          /\ UNCHANGED <<divctr, shift>>
     ELSE /\ divctr' = 2 * Width
          /\ shift' = b * WordSize
          /\ want' = [rddiv |-> Quotient(wrdiva, b), rdmpy |-> Remainder(wrdiva, b),
                      spoilt |-> FALSE]
  /\ UNCHANGED <<operands, rddiv, mpyctr>>

WriteOperands(b, n) ==
  /\ writing /\ Written
  /\ wrmpya' = b /\ wrdiva' = n
  /\ UNCHANGED <<rddiv, rdmpy, mpyctr, divctr, shift, want>>

\* A write to anything else, which keeps the flag if it is not one of these
\* registers; the next edge replaces it.
WriteElsewhere ==
  /\ writing
  /\ writing' = FALSE
  /\ UNCHANGED <<operands, rddiv, rdmpy, mpyctr, divctr, shift, busyOnWrite, want>>

-----------------------------------------------------------------------------
AluNext ==
  \/ ReadCycle
  \/ WriteEdge
  \/ \E b \in Factors : WriteMultiplier(b) \/ WriteDivisor(b)
  \/ \E b \in Factors, n \in Dividends : WriteOperands(b, n)
  \/ WriteElsewhere

AluSpec == AluInit /\ [][AluNext]_aluVars

-----------------------------------------------------------------------------
\* The two operations share rdmpy, rddiv and the shifter, and never run at once.
OneOperation == mpyctr = 0 \/ divctr = 0

\* An operation that no second trigger has disturbed ends with the product, or
\* with quotient and remainder, whatever the program did to the operands.
ExactResult ==
  ~AluBusy /\ ~want.spoilt => rddiv = want.rddiv /\ rdmpy = want.rdmpy

\* docs/dma-video-and-sdd1.md: CPU multiply and divide results are immediate.
ResultsImmediate ==
  ~want.spoilt => rddiv = want.rddiv /\ rdmpy = want.rdmpy
=============================================================================
