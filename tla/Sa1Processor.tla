---------------------------- MODULE Sa1Processor ----------------------------
(***************************************************************************)
(* Messages and interrupts on the side of the SA-1                         *)
(* (core/src/cartridge/Sa1.cpp): register $2200 of the CPU, $220A and      *)
(* $220B of the SA-1, and StepProcessor, which runs one instruction or     *)
(* interrupt entry of the SA-1 at a time.  The CPU acts between two of     *)
(* them.  The timer may match at any bus cycle.                            *)
(*                                                                         *)
(* A transfer keeps the processor from running until its bytes are moved.  *)
(* Either side starts one by the last byte of its destination ($2236,      *)
(* $2237), but only the SA-1 sets its length ($2238, $2239).  Here are     *)
(* only its bytes; where they go and what they cost is Sa1Dma's.           *)
(*                                                                         *)
(* The flags towards the CPU ($2201, $2202, $2209) are latches no step     *)
(* here reads.                                                             *)
(***************************************************************************)
EXTENDS Naturals

CONSTANTS
  Enables,  \* what the SA-1 writes to $220A,
  Lengths   \* to $2238 and $2239

Irqs == {"message", "timer", "dma"}
Flags == Irqs \cup {"nmi"}

\* What the constants are to satisfy.
ASSUME Sa1ProcessorAssumption == Enables \subseteq SUBSET Flags /\ Lengths \subseteq Nat

VARIABLES
  control,  \* bits 5 and 6 of $2200: "reset", "wait"
  chip,     \* sa1Flags_, $220A, nmiServiced_, $2238 and $2239, and the bytes left of
            \* a transfer, 0 if dma_ is not active
  cpu,      \* r.wai, r.stp and the I flag of the SA-1, and sampledIrq_
  cause     \* history: an NMI was asked for since the last one was taken

sa1Vars == <<control, chip, cpu, cause>>

PowerOn == [wai |-> FALSE, stp |-> FALSE, masked |-> TRUE, sampled |-> FALSE]

Sa1Init ==
  /\ control = {"reset"}
  /\ chip = [flags |-> {}, enable |-> {}, serviced |-> FALSE, length |-> 0, left |-> 0]
  /\ cpu = PowerOn
  /\ cause = FALSE

Held == control # {} \/ cpu.stp
Busy == chip.left > 0

IrqPending(c) == c.flags \cap c.enable \cap Irqs # {}
NmiPending(c) == "nmi" \in c.flags \cap c.enable /\ ~c.serviced

\* The timer may match in a bus cycle.
Clocked(c) == {c, [c EXCEPT !.flags = @ \cup {"timer"}]}

\* StartDma: a transfer of the bytes $2238 and $2239 say, from its beginning even if
\* one is under way; one of no bytes is over at once.
Started(c) ==
  [c EXCEPT !.left = c.length, !.flags = @ \cup (IF c.length = 0 THEN {"dma"} ELSE {})]

\* Mutant: the registers keep the length the transfer had.
LengthKept(c) ==
  [c EXCEPT !.left = @ - 1, !.flags = @ \cup (IF c.left = 1 THEN {"dma"} ELSE {})]

\* A byte is moved, and the registers follow.
ByteDone(c) ==
  [c EXCEPT !.left = @ - 1, !.length = c.left - 1,
            !.flags = @ \cup (IF c.left = 1 THEN {"dma"} ELSE {})]

-----------------------------------------------------------------------------
(***************************************************************************)
(* The CPU's registers.                                                    *)
(***************************************************************************)
WriteControl(bits, message, nmi) ==
  LET released == "reset" \in control /\ "reset" \notin bits
  IN  /\ control' = bits
      /\ chip' = [chip EXCEPT
           !.flags = @ \cup (IF message THEN {"message"} ELSE {})
                       \cup (IF nmi THEN {"nmi"} ELSE {}),
           !.serviced = @ /\ ~nmi /\ ~released]
      /\ cpu' = IF released THEN PowerOn ELSE cpu
      /\ cause' = (cause \/ nmi \/ released)

\* $2236 or $2237, where $2230, which only the SA-1 writes, lets it start a transfer.
WriteDestinationEnd ==
  /\ chip' = Started(chip)
  /\ UNCHANGED <<control, cpu, cause>>

CpuWrites ==
  \/ \E bits \in SUBSET {"reset", "wait"}, message, nmi \in BOOLEAN :
       WriteControl(bits, message, nmi)
  \/ WriteDestinationEnd

-----------------------------------------------------------------------------
(***************************************************************************)
(* The SA-1's registers, as functions on chip.                             *)
(***************************************************************************)
Store(reg, set, bytes) == [reg |-> reg, set |-> set, bytes |-> bytes]

NoWrite == Store("none", {}, 0)

EnableWrites == {Store("enable", set, 0) : set \in Enables}
ClearWrites == {Store("clear", set, 0) : set \in SUBSET Flags}
LengthWrites == {Store("length", {}, n) : n \in Lengths}
StartWrites == {Store("start", {}, 0)}

Sa1Writes == {NoWrite} \cup EnableWrites \cup ClearWrites \cup LengthWrites \cup StartWrites

\* What an instruction writes before its call of lastCycle and in its last cycle: a
\* word may reach two neighbours, $220A and $220B or $2237 and $2238, in either order.
Pairs(A, B) == (A \X B) \cup (B \X A)

Stores ==
  Pairs(Sa1Writes, {NoWrite}) \cup Pairs(EnableWrites, ClearWrites)
    \cup Pairs(StartWrites, LengthWrites)

Rises(c, w) == w.reg = "enable" /\ "nmi" \in w.set \ c.enable

\* Mutant: any write to $220A rearms an NMI in service.
RearmedByAny(c, w) ==
  (w.reg = "enable" /\ "nmi" \in w.set) \/ (w.reg = "clear" /\ "nmi" \in w.set)

Rearmed(c, w) == Rises(c, w) \/ (w.reg = "clear" /\ "nmi" \in w.set)

Written(c, w) ==
  CASE w.reg = "enable" -> [c EXCEPT !.enable = w.set, !.serviced = @ /\ ~Rearmed(c, w)]
    [] w.reg = "clear" -> [c EXCEPT !.flags = @ \ w.set, !.serviced = @ /\ ~Rearmed(c, w)]
    [] w.reg = "length" -> [c EXCEPT !.length = w.bytes]
    [] w.reg = "start" -> Started(c)
    [] OTHER -> c

-----------------------------------------------------------------------------
(***************************************************************************)
(* StepProcessor.                                                          *)
(***************************************************************************)
Runs == ~Busy /\ ~Held

TakesIrq == cpu.sampled \/ (cpu.wai /\ IrqPending(chip) /\ ~cpu.masked)

\* InterruptProcessor: the I flag is set before the sample in the entry.
Entered == [cpu EXCEPT !.wai = FALSE, !.masked = TRUE, !.sampled = FALSE]

TakeNmi ==
  /\ Runs /\ NmiPending(chip)
  /\ chip' \in Clocked([chip EXCEPT !.serviced = TRUE])
  /\ cpu' = Entered
  /\ cause' = FALSE
  /\ UNCHANGED control

TakeIrq ==
  /\ Runs /\ ~NmiPending(chip) /\ TakesIrq
  /\ chip' \in Clocked(chip)
  /\ cpu' = Entered
  /\ UNCHANGED <<control, cause>>

\* A waiting processor: a masked IRQ ends the wait.  Mutant: it does not.
WaitsOn(c) == IrqPending(c) => cpu.masked

StillWaits(c) == ~IrqPending(c)

Wait ==
  /\ Runs /\ ~NmiPending(chip) /\ ~TakesIrq /\ cpu.wai
  /\ chip' \in Clocked(chip)
  /\ cpu' = [cpu EXCEPT !.wai = StillWaits(chip), !.sampled = IrqPending(chip') /\ ~cpu.masked]
  /\ UNCHANGED <<control, cause>>

\* An instruction: what it writes before its call of lastCycle and in its last cycle,
\* and the I flag at either.
Execute(kind, early, late, i1, i2) ==
  /\ Runs /\ ~NmiPending(chip) /\ ~TakesIrq /\ ~cpu.wai
  /\ \E atSample \in Clocked(Written(chip, early)) :
       /\ \E atEnd \in Clocked(atSample) : chip' = Written(atEnd, late)
       /\ cpu' = [wai |-> kind = "WAI" /\ ~IrqPending(atSample) /\ ~NmiPending(atSample),
                  stp |-> kind = "STP",
                  masked |-> i2,
                  sampled |-> kind # "STP" /\ IrqPending(atSample) /\ ~i1]
       /\ cause' = (cause \/ Rises(chip, early) \/ Rises(atSample, late))
  /\ UNCHANGED control

\* One that touches neither a register of the chip nor the I flag.
Plain(kind) == Execute(kind, NoWrite, NoWrite, cpu.masked, cpu.masked)

\* It stores, or changes the I flag before the sample (RTI) or after it (CLI, SEI,
\* PLP), or is WAI or STP.
Instruction ==
  \/ \E s \in Stores : Execute("plain", s[1], s[2], cpu.masked, cpu.masked)
  \/ \E i1, i2 \in BOOLEAN : Execute("plain", NoWrite, NoWrite, i1, i2)
  \/ Plain("WAI") \/ Plain("STP")

\* The chip is held or has stopped, and its clock runs on.
Idle ==
  /\ Held /\ ~Busy
  /\ chip' \in Clocked(chip)
  /\ UNCHANGED <<control, cpu, cause>>

Step == TakeNmi \/ TakeIrq \/ Wait \/ Instruction \/ Idle

\* StepDma: the slice that ends a byte, and one that does not.
TransferByte ==
  /\ Busy
  /\ \E c \in Clocked(chip) : chip' = ByteDone(c)
  /\ UNCHANGED <<control, cpu, cause>>

TransferSlice ==
  /\ Busy
  /\ chip' \in Clocked(chip)
  /\ UNCHANGED <<control, cpu, cause>>

Sa1Next == CpuWrites \/ Step \/ TransferByte \/ TransferSlice

\* Advance runs for every bus cycle of the CPU, whose six clocks or more are enough for
\* a byte (two or four): so a byte ends even if the CPU starts the transfer again in
\* each of them.  The program does not write its interrupt registers or I in every
\* instruction.
Sa1Spec ==
  /\ Sa1Init /\ [][Sa1Next]_sa1Vars
  /\ WF_sa1Vars(Step) /\ WF_sa1Vars(TransferByte) /\ SF_sa1Vars(Plain("plain"))

-----------------------------------------------------------------------------

HasCause == TakeNmi => cause

\* nmiServiced_: the flag of an NMI stays up while it is handled, so that an NMI is
\* taken again only when the CPU has asked for another, the SA-1 has enabled it
\* anew, or was reset; acknowledging it or writing $220A as it was takes none.
NmiOncePerCause == [][HasCause]_sa1Vars

Unanswered == IrqPending(chip) /\ ~cpu.masked
Answered == cpu.masked \/ ~IrqPending(chip) \/ Held
Asleep == cpu.wai /\ (IrqPending(chip) \/ NmiPending(chip))
Awake == ~cpu.wai \/ Held

\* StepProcessor: an IRQ that stays requested and unmasked is taken, and a wait ends
\* with any enabled request, masked or not, whatever the program does and however often
\* the CPU starts transfers between two steps: the length runs to 0 with the first, the
\* CPU cannot set it, and those it starts then move nothing and keep nothing from running.
RequestsEndWaits == (Unanswered ~> Answered) /\ (Asleep ~> Awake)
=============================================================================
