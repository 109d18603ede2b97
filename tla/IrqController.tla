---------------------------- MODULE IrqController ----------------------------
(***************************************************************************)
(* The NMI and H/V-timer IRQ logic of the console: class IrqController     *)
(* (core/src/io/IrqController.cpp), polled by Timing::tickOnce.  Time is   *)
(* counted in ticks of two master clocks; h and v are the beam position    *)
(* after the last tick, and every second tick polls the controller.        *)
(*                                                                         *)
(* ControllerSpec lets the program and the CPU call the controller at any  *)
(* time; Interrupts adds the CPU that calls it.                            *)
(***************************************************************************)
EXTENDS Naturals

CONSTANTS
  NumLines,  \* scanlines of a frame
  Period,    \* Period[v]: ticks of scanline v
  VDisp,     \* first scanline of VBlank
  Modes,     \* what the program writes to $4200: [nmi, hen, ven]
  Targets    \* what it writes to $4207-$420A: [h, v], in ticks and lines

Line == 0 .. NumLines - 1

\* The delay of the counters the timer compares: 10 master clocks.
Delay == 5

Mode == [nmi : BOOLEAN, hen : BOOLEAN, ven : BOOLEAN]
Target == [h : Nat, v : Nat]

ASSUME IrqAssumption ==
  /\ NumLines \in Nat \ {0}
  /\ Period \in [Line -> Nat]
  /\ \A y \in Line : Period[y] > Delay /\ Period[y] % 2 = 0
  /\ VDisp \in Line \ {0}
  /\ Modes \subseteq Mode
  /\ Targets \subseteq Target

VARIABLES
  h, v,  \* Timing::hcounter_ / 2 and vcounter_
  nmi,   \* nmiEnable_, nmiLine_, nmiValid_, nmiHold_, nmiTransition_
  irq,   \* the same for IRQ; hen, ven are hirqEnable_, virqEnable_, and target
         \* is htimeMc_ / 2 and vtime_
  lock   \* irqLock_

controller == <<h, v, nmi, irq, lock>>

Nmi == [enable : BOOLEAN, line : BOOLEAN, valid : BOOLEAN, hold : BOOLEAN,
        transition : BOOLEAN]

Irq == [hen : BOOLEAN, ven : BOOLEAN, line : BOOLEAN, valid : BOOLEAN,
        hold : BOOLEAN, transition : BOOLEAN, target : Target]

\* irqEnable_
Enabled(i) == i.hen \/ i.ven

\* No line is as long as the H target Reset leaves.
ResetTarget == [h |-> 1024, v |-> 511]

ControllerInit ==
  /\ h = 0 /\ v = 0
  /\ nmi = [enable |-> FALSE, line |-> FALSE, valid |-> FALSE, hold |-> FALSE,
            transition |-> FALSE]
  /\ irq = [hen |-> FALSE, ven |-> FALSE, line |-> FALSE, valid |-> FALSE,
            hold |-> FALSE, transition |-> FALSE, target |-> ResetTarget]
  /\ lock = FALSE

-----------------------------------------------------------------------------
(***************************************************************************)
(* Poll.                                                                   *)
(***************************************************************************)
\* nmiPoll.  Polls fall on odd ticks, where the line two clocks ago is y.
NmiPoll(n, y) ==
  LET valid == y >= VDisp
      m == [n EXCEPT !.hold = FALSE, !.transition = @ \/ (n.hold /\ n.enable)]
  IN  IF valid = n.valid THEN m
      ELSE [m EXCEPT !.valid = valid, !.line = valid, !.hold = valid]

\* Mutant: the boundary of the line is off by one.
DelayedLate(x, y) ==
  IF x > Delay THEN [h |-> x - Delay, v |-> y]
  ELSE [h |-> x + Period[y] - Delay, v |-> IF y > 0 THEN y - 1 ELSE 0]

\* The counters of ten clocks ago as irqPoll has them: the last ticks of a line
\* are counted with the length of the next one, and the line before line 0 is
\* line 0.
Delayed(x, y) ==
  IF x >= Delay THEN [h |-> x - Delay, v |-> y]
  ELSE [h |-> x + Period[y] - Delay, v |-> IF y > 0 THEN y - 1 ELSE 0]

Coincides(i, p) ==
  /\ Enabled(i)
  /\ i.ven => p.v = i.target.v
  /\ i.hen => p.h = i.target.h
  /\ p.v > 0 \/ p.h > 0

IrqPoll(i, x, y) ==
  LET active == Coincides(i, Delayed(x, y))
      rises == active /\ ~i.valid
  IN  [i EXCEPT !.hold = rises, !.valid = active, !.line = @ \/ rises,
                !.transition = @ \/ (i.line /\ Enabled(i))]

\* Whether a tick ends the line.
LineOver == h + 1 >= Period[v]

\* tickOnce, as far as the controller sees it.
Tick ==
  /\ IF LineOver THEN h' = 0 /\ v' = (v + 1) % NumLines
                 ELSE h' = h + 1 /\ v' = v
  /\ IF h' % 2 = 1
     THEN nmi' = NmiPoll(nmi, v') /\ irq' = IrqPoll(irq, h', v')
     ELSE UNCHANGED <<nmi, irq>>
  /\ UNCHANGED lock

-----------------------------------------------------------------------------
(***************************************************************************)
(* Register accesses.  BeginCpuCycle has released the lock before each.    *)
(***************************************************************************)
\* Mutant: every store that has NMI enabled latches a request, not an edge.
NmiUpdateLevel(n, m) == [n EXCEPT !.enable = m.nmi, !.transition = @ \/ (m.nmi /\ n.line)]

NmiUpdate(n, m) ==
  [n EXCEPT !.enable = m.nmi, !.transition = @ \/ (~n.enable /\ m.nmi /\ n.line)]

IrqUpdate(i, m) ==
  [i EXCEPT !.hen = m.hen, !.ven = m.ven, !.line = @ /\ (m.hen \/ m.ven),
            !.transition = CASE m.ven /\ ~m.hen -> @ \/ i.line
                             [] m.hen           -> @
                             [] OTHER           -> FALSE]

\* Whether the store locks.
Locked == TRUE

\* $4200: NmitimenUpdate.
WriteNmitimen(m) ==
  /\ nmi' = NmiUpdate(nmi, m)
  /\ irq' = IrqUpdate(irq, m)
  /\ lock' = Locked
  /\ UNCHANGED <<h, v>>

\* $4207-$420A: SetHTime and SetVTime.
WriteTarget(t) ==
  /\ irq' = [irq EXCEPT !.target = t]
  /\ lock' = FALSE
  /\ UNCHANGED <<h, v, nmi>>

\* $4210: Rdnmi.
ReadRdnmi ==
  /\ nmi' = [nmi EXCEPT !.line = @ /\ nmi.hold]
  /\ lock' = FALSE
  /\ UNCHANGED <<h, v, irq>>

\* $4211: Timeup.
\* Mutant: the latched request is kept.
AfterTimeupLatched(i) == [i EXCEPT !.line = @ /\ i.hold]

AfterTimeup(i) == [i EXCEPT !.line = @ /\ i.hold, !.transition = @ /\ i.hold]

ReadTimeup ==
  /\ irq' = AfterTimeup(irq)
  /\ lock' = FALSE
  /\ UNCHANGED <<h, v, nmi>>

\* Any other cycle of the CPU.
OtherCycle ==
  /\ lock' = FALSE
  /\ UNCHANGED <<h, v, nmi, irq>>

Held == lock

\* NmiTest and IrqTest, from SnesCpu::lastCycle.
Test ==
  /\ IF Held THEN UNCHANGED <<nmi, irq>>
     ELSE /\ nmi' = [nmi EXCEPT !.transition = FALSE]
          /\ irq' = [irq EXCEPT !.transition = FALSE]
  /\ UNCHANGED <<h, v, lock>>

-----------------------------------------------------------------------------
Registers ==
  \/ \E m \in Modes : WriteNmitimen(m)
  \/ \E t \in Targets : WriteTarget(t)
  \/ ReadRdnmi
  \/ ReadTimeup
  \/ OtherCycle

ControllerNext == Tick \/ Registers \/ Test

ControllerSpec == ControllerInit /\ [][ControllerNext]_controller

-----------------------------------------------------------------------------
ControllerTypeOK ==
  /\ v \in Line /\ h \in 0 .. Period[v] - 1
  /\ nmi \in Nmi /\ irq \in Irq /\ lock \in BOOLEAN

\* No request outlives its cause: the CPU is not told of an IRQ that was
\* acknowledged or disabled, the NMI flag is not up outside VBlank, and a flag
\* that has just gone up cannot have been taken down by a read of its register
\* in the same poll.
FlagsAgree ==
  /\ irq.transition => irq.line
  /\ irq.line => Enabled(irq)
  /\ nmi.line => nmi.valid
  /\ nmi.hold => nmi.line

\* Where the beam really was Delay ticks ago.
BeamAgo(x, y) ==
  LET before == (y + NumLines - 1) % NumLines
  IN  IF x >= Delay THEN [h |-> x - Delay, v |-> y]
      ELSE [h |-> x + Period[before] - Delay, v |-> before]

OnTarget(i, p) ==
  /\ i.ven => p.v = i.target.v
  /\ i.hen => p.h = i.target.h

\* The comments of irqPoll: the timer compares the H counter and the V counter
\* from 10 master clocks ago, so it asserts only if the beam was there.
AssertsOnTarget ==
  [][~irq.hold /\ irq'.hold => OnTarget(irq', BeamAgo(h', v'))]_controller

\* With a target on neither the first nor the last line of the frame, the timer
\* asserts only when the beam was there ten clocks ago, and a poll at which it
\* was there leaves the condition latched; for an H target, after a line as long
\* as the one before it.
InnerTarget(i) == i.ven => i.target.v \in 1 .. NumLines - 2

AsLong(y) == Period[(y + NumLines - 1) % NumLines] = Period[y]

InnerTargetExact ==
  [][/\ h' # h /\ h' % 2 = 1
     /\ Enabled(irq) /\ InnerTarget(irq) /\ (irq.hen => AsLong(v'))
     => LET p == BeamAgo(h', v')
        IN  irq'.valid <=> OnTarget(irq, p) /\ p # [h |-> 0, v |-> 0]]_controller
=============================================================================
