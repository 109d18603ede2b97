----------------------------- MODULE Interrupts -----------------------------
(***************************************************************************)
(* The CPU side of interrupts, composed with IrqController: SnesCpu::Step, *)
(* lastCycle and pollInterrupts (core/src/cpu/SnesCpu.cpp), the interrupt  *)
(* entry, WAI and flag instructions of Processor65816, and the lock that   *)
(* Emulator::BeginCpuCycle releases before every bus cycle.                *)
(*                                                                         *)
(* A bus cycle is an action: its access happens first and its clocks       *)
(* follow; left counts the ticks of it still to come.  DMA and DRAM        *)
(* refresh insert clocks of their own, so a tick may always come, and the  *)
(* CPU goes on at some time after left has reached 0.  pc is the place in  *)
(* Step:                                                                   *)
(*   step          the next Step decides what to do                        *)
(*   body          inside an instruction, after its fetch                  *)
(*   last          lastCycle has been called, the last cycle is to come    *)
(*   nmi, irq      interrupt entry, up to the low byte of the vector       *)
(*   wait1, wait2  the two idle cycles of WAI                              *)
(*   waiting       Step with wai set, after its idle cycle                 *)
(***************************************************************************)
EXTENDS IrqController

CONSTANT CycleTicks  \* ticks of a bus cycle: {3, 4, 6}

ASSUME CycleAssumption == CycleTicks \subseteq Nat \ (0 .. 2) /\ CycleTicks # {}

VARIABLES
  pc, left,
  cpu,     \* nmiPending_, irqLine_, irqPending_, regs().wai and the I flag
  device,  \* Cartridge::CpuIrqPending
  credit,  \* history: causes of an NMI, less the NMIs taken (counted up to 2)
  aged,    \* history: irqLine_ was up before the last poll
  stored   \* history: since the last sample $4200 was stored to in the "last" cycle,
           \* in an "earlier" one, or not ("no")

cpuVars == <<pc, left, cpu, device>>
history == <<credit, aged, stored>>
vars == <<controller, cpuVars, history>>

\* nmiEdge_ is set and consumed by one call of lastCycle, so it has no place here.
Cpu == [nmiPending : BOOLEAN, irqLine : BOOLEAN, irqPending : BOOLEAN,
        wai : BOOLEAN, i : BOOLEAN]

Places == {"step", "body", "last", "nmi", "irq", "wait1", "wait2", "waiting"}

Init ==
  /\ ControllerInit
  /\ pc = "step" /\ left = 0
  /\ cpu = [nmiPending |-> FALSE, irqLine |-> FALSE, irqPending |-> FALSE,
            wai |-> FALSE, i |-> TRUE]
  /\ device = FALSE
  /\ credit = 0 /\ aged = FALSE /\ stored = "no"

Credit(n) == IF n > 2 THEN 2 ELSE n
Bit(b) == IF b THEN 1 ELSE 0
Older == IF stored = "no" THEN "no" ELSE "earlier"

-----------------------------------------------------------------------------
(***************************************************************************)
(* Time, and the cartridge's own interrupt.                                *)
(***************************************************************************)
Clock ==
  /\ Tick
  /\ left' = IF left > 0 THEN left - 1 ELSE 0
  /\ credit' = Credit(credit + Bit(nmi'.valid /\ ~nmi.valid))
  /\ aged' = IF h' % 2 = 1 THEN irq.line ELSE aged
  /\ UNCHANGED <<pc, cpu, device, stored>>

DeviceRaises ==
  /\ ~device
  /\ device' = TRUE
  /\ UNCHANGED <<controller, pc, left, cpu, history>>

-----------------------------------------------------------------------------
(***************************************************************************)
(* One bus cycle of an instruction, its access chosen by the program.      *)
(***************************************************************************)
\* An access to the registers of the controller, or to none of them.
Access ==
  \/ /\ \E m \in Modes :
          /\ WriteNmitimen(m)
          /\ credit' = Credit(credit + Bit(m.nmi /\ ~nmi.enable /\ nmi.line /\ ~nmi.hold))
     /\ aged' = (aged /\ irq'.line)
     /\ stored' = "last"
     /\ UNCHANGED device
  \/ /\ \E t \in Targets : WriteTarget(t)
     /\ stored' = Older
     /\ UNCHANGED <<device, credit, aged>>
  \/ /\ ReadRdnmi
     /\ stored' = Older
     /\ UNCHANGED <<device, credit, aged>>
  \/ /\ ReadTimeup
     /\ aged' = (aged /\ irq'.line)
     /\ stored' = Older
     /\ UNCHANGED <<device, credit>>
  \/ /\ OtherCycle
     /\ device' \in {device, FALSE}
     /\ stored' = Older
     /\ UNCHANGED <<credit, aged>>

\* A cycle that accesses nothing here.
PlainCycle ==
  /\ OtherCycle
  /\ stored' = Older
  /\ UNCHANGED <<device, credit, aged>>

\* The CPU is at place p with its last cycle over, and goes to place q with a
\* new one.
CycleTo(p, q) ==
  /\ pc = p /\ left = 0
  /\ pc' = q /\ left' \in CycleTicks

\* SetFlag(i): the cycle changes the I flag or leaves it.
FlagChange == \E b \in BOOLEAN : cpu' = [cpu EXCEPT !.i = b]

-----------------------------------------------------------------------------
(***************************************************************************)
(* lastCycle, with the callback of InitSubsystems and pollInterrupts.      *)
(***************************************************************************)
Sampled(c, i) ==
  [c EXCEPT !.nmiPending = @ \/ nmi.transition,
            !.irqLine = irq.transition \/ device,
            !.irqPending = (irq.transition \/ device) /\ ~i]

AfterLastCycle(i) == IF lock THEN [cpu EXCEPT !.i = i] ELSE [Sampled(cpu, i) EXCEPT !.i = i]

LastCycle(p, q, i) ==
  /\ pc = p /\ left = 0
  /\ Test
  /\ cpu' = AfterLastCycle(i)
  /\ pc' = q
  /\ stored' = "no"
  /\ UNCHANGED <<left, device, credit, aged>>

-----------------------------------------------------------------------------
(***************************************************************************)
(* Step.                                                                   *)
(***************************************************************************)
EnterNmi ==
  /\ CycleTo("step", "nmi")
  /\ cpu.nmiPending
  /\ cpu' = [cpu EXCEPT !.nmiPending = FALSE, !.wai = FALSE]
  /\ credit' = IF credit > 0 THEN credit - 1 ELSE 0
  /\ OtherCycle /\ stored' = Older
  /\ UNCHANGED <<device, aged>>

EnterIrq ==
  /\ CycleTo("step", "irq")
  /\ ~cpu.nmiPending /\ cpu.irqPending
  /\ cpu' = [cpu EXCEPT !.irqPending = FALSE, !.wai = FALSE]
  /\ PlainCycle

\* The entry sets I and samples before it reads the high byte of the vector.
VectorSample == \E p \in {"nmi", "irq"} : LastCycle(p, "last", TRUE)

Ready == ~cpu.nmiPending /\ ~cpu.irqPending

Fetch ==
  /\ CycleTo("step", "body")
  /\ Ready /\ ~cpu.wai
  /\ PlainCycle
  /\ UNCHANGED cpu

Body ==
  /\ CycleTo("body", "body")
  /\ \/ Access /\ UNCHANGED cpu
     \/ PlainCycle /\ FlagChange

Sample == LastCycle("body", "last", cpu.i)

Last ==
  /\ CycleTo("last", "step")
  /\ \/ Access /\ UNCHANGED cpu
     \/ PlainCycle /\ FlagChange

\* WAI samples and idles twice.
WaitSample == LastCycle("body", "wait1", cpu.i)

Wait1 == CycleTo("wait1", "wait2") /\ PlainCycle /\ UNCHANGED cpu

Wait2 ==
  /\ CycleTo("wait2", "step")
  /\ PlainCycle
  /\ cpu' = [cpu EXCEPT !.wai = TRUE]

\* What ends the wait.  Mutant: only an interrupt that will be taken.
WakesUnmasked(c) == c.nmiPending \/ c.irqPending

Wakes(c) == c.nmiPending \/ c.irqLine

\* Step with wai set: an idle cycle, then a sample that a masked IRQ also ends.
Waiting ==
  /\ CycleTo("step", "waiting")
  /\ Ready /\ cpu.wai
  /\ PlainCycle
  /\ UNCHANGED cpu

Wake ==
  /\ pc = "waiting" /\ left = 0
  /\ Test
  /\ LET c == AfterLastCycle(cpu.i)
     IN  cpu' = [c EXCEPT !.wai = ~Wakes(c)]
  /\ pc' = "step"
  /\ stored' = "no"
  /\ UNCHANGED <<left, device, credit, aged>>

-----------------------------------------------------------------------------
Instruction == Fetch \/ Body \/ Sample \/ Last \/ WaitSample \/ Wait1 \/ Wait2

Entry == EnterNmi \/ EnterIrq \/ VectorSample

Wait == Waiting \/ Wake

CpuNext == Instruction \/ Entry \/ Wait

Next == Clock \/ DeviceRaises \/ CpuNext

\* StepFrame runs one Step after the other and every cycle ticks the beam; an
\* instruction has finitely many cycles, and of the program it is assumed that not
\* all its instructions from some point on are word stores to $4200.
Fairness ==
  /\ WF_vars(Clock)
  /\ WF_vars(CpuNext)
  /\ SF_vars(Sample \/ WaitSample)
  /\ SF_vars(~lock /\ (Sample \/ WaitSample))

Spec == Init /\ [][Next]_vars /\ Fairness

-----------------------------------------------------------------------------
TypeOK ==
  /\ ControllerTypeOK
  /\ pc \in Places /\ left \in Nat
  /\ cpu \in Cpu /\ device \in BOOLEAN
  /\ credit \in 0 .. 2 /\ aged \in BOOLEAN /\ stored \in {"no", "last", "earlier"}

\* Every NMI has a cause of its own: the one in the controller and the one pending
\* in the CPU never outnumber the VBlanks begun and the times $4200 enabled NMI
\* under a raised flag, less the NMIs taken.  Enabling it in the very poll that
\* raises the flag is no second cause: the two requests merge, since no sample
\* comes between the store and the poll that ends the hold.
HasCause ==
  Bit(nmi.hold \/ nmi.transition) + Bit(cpu.nmiPending) <= credit

\* The controller's one-shot IRQ request behaves as a level: whenever the CPU
\* samples, a line that was up before the last poll shows, although every
\* sample before it has consumed the request.
IsLevel ==
  pc \in {"body", "nmi", "irq", "waiting"} /\ left = 0 /\ aged /\ irq.line
    => irq.transition

\* The requests the CPU samples are faithful to the lines: no NMI is made up, and no
\* IRQ is missed.
RequestsFaithful == HasCause /\ IsLevel

\* docs/cpu-regressions.md: the sample between the two bytes of a word store to
\* $4200 stays suppressed, and no request is lost by it.
StoreSuppressesSample ==
  [][stored = "last" /\ Sample => UNCHANGED <<nmi, irq, cpu>>]_vars

\* The comment on the lock in IrqController.hpp: a write to $4200 prevents NMI and
\* IRQ dispatch for one instruction, for one test, wherever in the instruction
\* the write was.
StoreSuppressesNextSample ==
  [][stored # "no" /\ Sample => UNCHANGED <<nmi, irq, cpu>>]_vars

\* An NMI latched in the controller is taken, whatever the program does to the
\* registers, the I flag or by waiting; and a waiting CPU wakes on an IRQ, masked or
\* not.
RequestsServed ==
  /\ nmi.transition ~> pc = "nmi"
  /\ cpu.wai /\ (irq.line \/ device) ~> ~cpu.wai
=============================================================================
