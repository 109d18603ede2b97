-------------------------- MODULE InterruptsProofs --------------------------
(***************************************************************************)
(* Proofs about IrqController and Interrupts, for frames of any shape and  *)
(* any modes and targets the program chooses.                              *)
(***************************************************************************)
EXTENDS Interrupts, TLAPS

-----------------------------------------------------------------------------
(***************************************************************************)
(* The operators of the controller.                                        *)
(***************************************************************************)
\* What the flags of the two halves of the controller promise.
NmiAgrees(n) == (n.line => n.valid) /\ (n.hold => n.line)
IrqAgrees(i) == (i.transition => i.line) /\ (i.line => Enabled(i))

LEMMA FlagsSplit == FlagsAgree <=> NmiAgrees(nmi) /\ IrqAgrees(irq)
BY DEF FlagsAgree, NmiAgrees, IrqAgrees

LEMMA NmiPollAgrees ==
  ASSUME NEW n \in Nmi, NEW y \in Line
  PROVE  NmiPoll(n, y) \in Nmi /\ (NmiAgrees(n) => NmiAgrees(NmiPoll(n, y)))
<1> DEFINE valid == y >= VDisp
           m == [n EXCEPT !.hold = FALSE, !.transition = @ \/ (n.hold /\ n.enable)]
<1>1. valid \in BOOLEAN
  BY IrqAssumption DEF Line
<1>2. m \in Nmi /\ ~m.hold /\ (m.line <=> n.line) /\ (m.valid <=> n.valid)
  BY DEF Nmi
<1> HIDE DEF valid, m
<1>3. CASE valid = n.valid
  <2>1. NmiPoll(n, y) = m
    BY <1>3 DEF NmiPoll, valid, m
  <2> QED
    BY <1>2, <2>1 DEF NmiAgrees
<1>4. CASE valid # n.valid
  <2>1. NmiPoll(n, y) = [m EXCEPT !.valid = valid, !.line = valid, !.hold = valid]
    BY <1>4 DEF NmiPoll, valid, m
  <2> QED
    BY <1>1, <1>2, <2>1 DEF NmiAgrees, Nmi
<1> QED
  BY <1>3, <1>4

LEMMA IrqPollAgrees ==
  ASSUME NEW i \in Irq, NEW x, NEW y
  PROVE  IrqPoll(i, x, y) \in Irq /\ (IrqAgrees(i) => IrqAgrees(IrqPoll(i, x, y)))
<1> DEFINE active == Coincides(i, Delayed(x, y))
           rises == active /\ ~i.valid
<1>1. active \in BOOLEAN /\ (active => Enabled(i))
  BY Zenon DEF Coincides
<1> HIDE DEF active
<1>2. IrqPoll(i, x, y) =
        [i EXCEPT !.hold = rises, !.valid = active, !.line = @ \/ rises,
                  !.transition = @ \/ (i.line /\ Enabled(i))]
  BY DEF IrqPoll, active
<1> QED
  BY <1>1, <1>2 DEF IrqAgrees, Enabled, Irq

LEMMA NmiUpdateAgrees ==
  ASSUME NEW n \in Nmi, NEW m \in Mode
  PROVE  NmiUpdate(n, m) \in Nmi /\ (NmiAgrees(n) => NmiAgrees(NmiUpdate(n, m)))
BY DEF NmiUpdate, NmiAgrees, Nmi, Mode

LEMMA IrqUpdateAgrees ==
  ASSUME NEW i \in Irq, NEW m \in Mode
  PROVE  IrqUpdate(i, m) \in Irq /\ (IrqAgrees(i) => IrqAgrees(IrqUpdate(i, m)))
<1>1. CASE m.ven /\ ~m.hen
  BY <1>1 DEF IrqUpdate, IrqAgrees, Enabled, Irq, Mode
<1>2. CASE m.hen
  BY <1>2 DEF IrqUpdate, IrqAgrees, Enabled, Irq, Mode
<1>3. CASE ~m.ven /\ ~m.hen
  BY <1>3 DEF IrqUpdate, IrqAgrees, Enabled, Irq, Mode
<1> QED
  BY <1>1, <1>2, <1>3

-----------------------------------------------------------------------------
(***************************************************************************)
(* The controller, called by anyone at any time.                           *)
(***************************************************************************)
CInv == ControllerTypeOK /\ FlagsAgree

LEMMA InitCInv == ControllerInit => CInv
<1> SUFFICES ASSUME ControllerInit PROVE CInv
  OBVIOUS
<1>1. v \in Line /\ h \in 0 .. Period[v] - 1
  <2>1. 0 \in Line /\ Period[0] \in Nat /\ Period[0] > 5
    BY IrqAssumption DEF Line, Delay
  <2> QED
    BY <2>1 DEF ControllerInit
<1>2. nmi \in Nmi /\ irq \in Irq /\ lock \in BOOLEAN
  <2>1. ResetTarget \in Target
    BY DEF ResetTarget, Target
  <2>2. nmi \in Nmi
    BY DEF ControllerInit, Nmi
  <2>3. irq \in Irq
    BY <2>1 DEF ControllerInit, Irq
  <2> QED
    BY <2>2, <2>3 DEF ControllerInit
<1>3. FlagsAgree
  <2>1. ~irq.transition /\ ~irq.line /\ ~nmi.line /\ ~nmi.hold
    BY DEF ControllerInit
  <2> QED
    BY <2>1 DEF FlagsAgree
<1> QED
  BY <1>1, <1>2, <1>3 DEF CInv, ControllerTypeOK

\* The beam stays in the frame, whatever the lengths of its lines.
LEMMA TickBeam == ControllerTypeOK /\ Tick => v' \in Line /\ h' \in 0 .. Period[v'] - 1
<1> SUFFICES ASSUME ControllerTypeOK, Tick
             PROVE  v' \in Line /\ h' \in 0 .. Period[v'] - 1
  OBVIOUS
<1>1. NumLines \in Nat /\ NumLines > 0
  BY IrqAssumption
<1>2. \A y \in Line : Period[y] \in Nat /\ Period[y] > 5
  BY IrqAssumption DEF Delay
<1>3. v \in Line /\ h \in 0 .. Period[v] - 1
  BY DEF ControllerTypeOK
<1>4. CASE LineOver
  <2>1. h' = 0 /\ v' = (v + 1) % NumLines
    BY <1>4 DEF Tick
  <2>2. v' \in Line
    BY <1>1, <1>3, <2>1 DEF Line
  <2> QED
    BY <1>2, <2>1, <2>2
<1>5. CASE ~LineOver
  <2>1. h' = h + 1 /\ v' = v
    BY <1>5 DEF Tick
  <2> QED
    BY <1>2, <1>3, <1>5, <2>1 DEF LineOver
<1> QED
  BY <1>4, <1>5

LEMMA TickCInv == CInv /\ Tick => CInv'
<1> SUFFICES ASSUME CInv, Tick PROVE CInv'
  OBVIOUS
<1> USE DEF CInv
<1>1. v' \in Line /\ h' \in 0 .. Period[v'] - 1
  BY TickBeam
<1>2. nmi \in Nmi /\ irq \in Irq /\ NmiAgrees(nmi) /\ IrqAgrees(irq)
  BY FlagsSplit DEF ControllerTypeOK
<1>3. nmi' \in Nmi /\ NmiAgrees(nmi')
  <2>1. nmi' = nmi \/ nmi' = NmiPoll(nmi, v')
    BY DEF Tick
  <2> QED
    BY <1>1, <1>2, <2>1, NmiPollAgrees
<1>4. irq' \in Irq /\ IrqAgrees(irq')
  <2>1. irq' = irq \/ irq' = IrqPoll(irq, h', v')
    BY DEF Tick
  <2> QED
    BY <1>2, <2>1, IrqPollAgrees
<1>5. lock' = lock
  BY DEF Tick
<1> QED
  BY <1>1, <1>3, <1>4, <1>5 DEF ControllerTypeOK, FlagsAgree, NmiAgrees, IrqAgrees

\* A register access or a test leaves the beam alone.
LEMMA AccessCInv ==
  ASSUME CInv, UNCHANGED <<h, v>>, lock' \in BOOLEAN,
         nmi' \in Nmi, irq' \in Irq, NmiAgrees(nmi'), IrqAgrees(irq')
  PROVE  CInv'
BY DEF CInv, ControllerTypeOK, FlagsAgree, NmiAgrees, IrqAgrees

LEMMA RegistersCInv == CInv /\ Registers => CInv'
<1> SUFFICES ASSUME CInv, Registers PROVE CInv'
  OBVIOUS
<1>1. nmi \in Nmi /\ irq \in Irq /\ NmiAgrees(nmi) /\ IrqAgrees(irq)
  BY FlagsSplit DEF CInv, ControllerTypeOK
<1>2. ASSUME NEW m \in Modes, WriteNmitimen(m)
      PROVE  CInv'
  <2>1. m \in Mode
    BY IrqAssumption
  <2>2. /\ nmi' = NmiUpdate(nmi, m) /\ irq' = IrqUpdate(irq, m)
        /\ lock' = TRUE /\ UNCHANGED <<h, v>>
    BY <1>2 DEF WriteNmitimen, Locked
  <2> QED
    BY <1>1, <2>1, <2>2, NmiUpdateAgrees, IrqUpdateAgrees, AccessCInv
<1>3. ASSUME NEW t \in Targets, WriteTarget(t)
      PROVE  CInv'
  <2>1. t \in Target
    BY IrqAssumption
  <2>2. /\ irq' = [irq EXCEPT !.target = t] /\ nmi' = nmi
        /\ lock' = FALSE /\ UNCHANGED <<h, v>>
    BY <1>3 DEF WriteTarget
  <2>3. irq' \in Irq /\ IrqAgrees(irq')
    BY <1>1, <2>1, <2>2 DEF Irq, IrqAgrees, Enabled
  <2> QED
    BY <1>1, <2>2, <2>3, AccessCInv
<1>4. CASE ReadRdnmi
  <2>1. nmi' \in Nmi /\ NmiAgrees(nmi')
    BY <1>1, <1>4 DEF ReadRdnmi, Nmi, NmiAgrees
  <2> QED
    BY <1>1, <1>4, <2>1, AccessCInv DEF ReadRdnmi
<1>5. CASE ReadTimeup
  <2>1. irq' \in Irq /\ IrqAgrees(irq')
    BY <1>1, <1>5 DEF ReadTimeup, AfterTimeup, Irq, IrqAgrees, Enabled
  <2> QED
    BY <1>1, <1>5, <2>1, AccessCInv DEF ReadTimeup
<1>6. CASE OtherCycle
  BY <1>1, <1>6, AccessCInv DEF OtherCycle
<1> QED
  BY <1>2, <1>3, <1>4, <1>5, <1>6 DEF Registers

LEMMA TestCInv == CInv /\ Test => CInv'
<1> SUFFICES ASSUME CInv, Test PROVE CInv'
  OBVIOUS
<1>1. nmi \in Nmi /\ irq \in Irq /\ NmiAgrees(nmi) /\ IrqAgrees(irq) /\ lock \in BOOLEAN
  BY FlagsSplit DEF CInv, ControllerTypeOK
<1>2. nmi' \in Nmi /\ NmiAgrees(nmi')
  BY <1>1 DEF Test, Nmi, NmiAgrees
<1>3. irq' \in Irq /\ IrqAgrees(irq')
  BY <1>1 DEF Test, Irq, IrqAgrees, Enabled
<1> QED
  BY <1>1, <1>2, <1>3, AccessCInv DEF Test

LEMMA ControllerInductive == ControllerSpec => []CInv
<1>1. CInv /\ [ControllerNext]_controller => CInv'
  <2>1. CInv /\ UNCHANGED controller => CInv'
    BY DEF CInv, ControllerTypeOK, FlagsAgree, controller, Enabled
  <2> QED
    BY <2>1, TickCInv, RegistersCInv, TestCInv DEF ControllerNext
<1> QED
  BY InitCInv, <1>1, PTL DEF ControllerSpec

\* The beam stays inside the frame and every flag is a flag, for any frame shape.
THEOREM ControllerTypeCorrect == ControllerSpec => []ControllerTypeOK
<1>1. CInv => ControllerTypeOK
  BY DEF CInv
<1> QED
  BY ControllerInductive, <1>1, PTL

\* No request outlives its cause, in whatever order polls, writes to $4200, reads
\* of $4210 and $4211 and the samples of the CPU arrive.
THEOREM FlagsAlwaysAgree == ControllerSpec => []FlagsAgree
<1>1. CInv => FlagsAgree
  BY DEF CInv
<1> QED
  BY ControllerInductive, <1>1, PTL

-----------------------------------------------------------------------------
(***************************************************************************)
(* The timer compares where the beam was.                                  *)
(***************************************************************************)
LEMMA CoincidesExactly ==
  ASSUME NEW i \in Irq, NEW y \in Line, NEW x \in 0 .. Period[y] - 1,
         Enabled(i), InnerTarget(i), i.hen => AsLong(y)
  PROVE  Coincides(i, Delayed(x, y))
           <=> OnTarget(i, BeamAgo(x, y)) /\ BeamAgo(x, y) # [h |-> 0, v |-> 0]
<1> DEFINE before == (y + NumLines - 1) % NumLines
           p == Delayed(x, y)
           q == BeamAgo(x, y)
<1>1. /\ NumLines \in Nat /\ NumLines > 1 /\ y \in Nat /\ y < NumLines
      /\ Period[y] \in Nat /\ Period[y] > 5 /\ x \in Nat
  BY IrqAssumption DEF Line, Delay
<1>2. i.target.h \in Nat /\ i.target.v \in Nat
  BY DEF Irq, Target
<1>3. Coincides(i, p) <=> OnTarget(i, p) /\ (p.v > 0 \/ p.h > 0)
  BY DEF Coincides, OnTarget
<1>4. CASE x >= 5
  <2>1. p = [h |-> x - 5, v |-> y] /\ q = p
    BY <1>4 DEF Delayed, BeamAgo, Delay
  <2>2. p.v > 0 \/ p.h > 0 <=> q # [h |-> 0, v |-> 0]
    BY <1>1, <1>4, <2>1
  <2> QED
    BY <1>3, <2>1, <2>2
<1>5. CASE x < 5
  <2>1. p = [h |-> x + Period[y] - 5, v |-> IF y > 0 THEN y - 1 ELSE 0]
    BY <1>1, <1>5 DEF Delayed, Delay
  <2>2. q = [h |-> x + Period[before] - 5, v |-> before]
    BY <1>1, <1>5 DEF BeamAgo, Delay
  <2>3. before = IF y > 0 THEN y - 1 ELSE NumLines - 1
    BY <1>1
  <2>4. before \in Line /\ Period[before] \in Nat /\ Period[before] > 5
    BY <1>1, <2>3, IrqAssumption DEF Line, Delay
  <2>5. p.h > 0 /\ q.h > 0 /\ (i.hen => p.h = q.h)
    BY <1>1, <2>1, <2>2, <2>4 DEF AsLong
  <2>6. i.ven => (p.v = i.target.v <=> q.v = i.target.v)
    BY <1>1, <1>2, <2>1, <2>2, <2>3 DEF InnerTarget
  <2>7. q # [h |-> 0, v |-> 0]
    BY <2>5
  <2> HIDE DEF p, q
  <2>8. OnTarget(i, p) <=> OnTarget(i, q)
    BY <2>5, <2>6 DEF OnTarget
  <2> QED
    BY <1>3, <2>5, <2>7, <2>8 DEF p, q
<1> QED
  BY <1>1, <1>4, <1>5

\* A poll judges an inner target by the place the beam was at ten clocks ago, on
\* any frame, wherever the poll falls in the line and whatever was written since.
THEOREM TimerIsExact == ControllerSpec => InnerTargetExact
<1> DEFINE Exact ==
      /\ h' # h /\ h' % 2 = 1
      /\ Enabled(irq) /\ InnerTarget(irq) /\ (irq.hen => AsLong(v'))
      => LET p == BeamAgo(h', v')
         IN  irq'.valid <=> OnTarget(irq, p) /\ p # [h |-> 0, v |-> 0]
<1>1. CInv /\ [ControllerNext]_controller => [Exact]_controller
  <2> SUFFICES ASSUME CInv, ControllerNext, h' # h, (h' % 2) = 1,
                      Enabled(irq), InnerTarget(irq), irq.hen => AsLong(v')
               PROVE  irq'.valid <=> /\ OnTarget(irq, BeamAgo(h', v'))
                                     /\ BeamAgo(h', v') # [h |-> 0, v |-> 0]
    BY DEF Exact
  <2>1. Tick
    BY DEF ControllerNext, Registers, WriteNmitimen, WriteTarget, ReadRdnmi, ReadTimeup,
           OtherCycle, Test
  <2>2. v' \in Line /\ h' \in 0 .. Period[v'] - 1
    BY <2>1, TickBeam DEF CInv
  <2>3. irq' = IrqPoll(irq, h', v')
    BY <2>1 DEF Tick
  <2>4. irq \in Irq
    BY DEF CInv, ControllerTypeOK
  <2>5. irq'.valid = Coincides(irq, Delayed(h', v'))
    BY <2>3, <2>4 DEF IrqPoll, Irq
  <2> QED
    BY <2>2, <2>4, <2>5, CoincidesExactly
<1> QED
  BY ControllerInductive, <1>1, PTL DEF ControllerSpec, InnerTargetExact

-----------------------------------------------------------------------------
(***************************************************************************)
(* The controller under the CPU.                                           *)
(***************************************************************************)
\* A store in the cycle just over still holds the lock when the CPU samples.
StoredLocks == stored = "last" => lock

IInv == CInv /\ TypeOK /\ StoredLocks

\* The place, the flags of the CPU and the histories, without the controller.
CpuTypeOK ==
  /\ pc \in Places /\ left \in Nat
  /\ cpu \in Cpu /\ device \in BOOLEAN
  /\ credit \in 0 .. 2 /\ aged \in BOOLEAN /\ stored \in {"no", "last", "earlier"}

LEMMA TypeSplit == IInv <=> CInv /\ CpuTypeOK /\ StoredLocks
BY DEF IInv, CInv, TypeOK, CpuTypeOK

LEMMA CreditType == \A n \in Nat : Credit(n) \in 0 .. 2
BY DEF Credit

LEMMA BitType == \A b : Bit(b) \in {0, 1}
BY DEF Bit

LEMMA InitIInv == Init => IInv
<1> SUFFICES ASSUME Init PROVE IInv
  OBVIOUS
<1>1. CInv
  BY InitCInv DEF Init
<1>2. CpuTypeOK
  <2>1. cpu \in Cpu
    BY DEF Init, Cpu
  <2>2. pc \in Places /\ left \in Nat /\ credit \in 0 .. 2
    BY DEF Init, Places
  <2> QED
    BY <2>1, <2>2 DEF Init, CpuTypeOK
<1>3. StoredLocks
  BY DEF Init, StoredLocks
<1> QED
  BY <1>1, <1>2, <1>3, TypeSplit

LEMMA ClockIInv == IInv /\ Clock => IInv'
<1> SUFFICES ASSUME IInv, Clock PROVE IInv'
  OBVIOUS
<1>1. CInv'
  BY TickCInv, TypeSplit DEF Clock
<1>2. irq \in Irq /\ CpuTypeOK
  BY TypeSplit DEF CInv, ControllerTypeOK
<1>3. left' \in Nat /\ aged' \in BOOLEAN
  BY <1>2 DEF Clock, CpuTypeOK, Irq
<1>4. credit' \in 0 .. 2
  <2>1. PICK k \in {0, 1} : credit' = Credit(credit + k)
    BY BitType DEF Clock
  <2> QED
    BY <1>2, <2>1, CreditType DEF CpuTypeOK
<1>5. CpuTypeOK'
  BY <1>2, <1>3, <1>4 DEF Clock, CpuTypeOK
<1>6. StoredLocks'
  BY TypeSplit DEF Clock, Tick, StoredLocks
<1> QED
  BY <1>1, <1>5, <1>6 DEF IInv, CInv, TypeOK, CpuTypeOK

\* What an access does to everything but the place of the CPU.
LEMMA AccessType ==
  ASSUME IInv, Access \/ PlainCycle
  PROVE  /\ CInv' /\ StoredLocks'
         /\ device' \in BOOLEAN /\ credit' \in 0 .. 2 /\ aged' \in BOOLEAN
         /\ stored' \in {"no", "last", "earlier"}
<1>1. CpuTypeOK /\ CInv
  BY TypeSplit
<1>2. Registers
  BY DEF Access, PlainCycle, Registers
<1>3. CInv'
  BY <1>1, <1>2, RegistersCInv
<1>4. Older \in {"no", "earlier"}
  BY DEF Older
<1>5. stored' \in {"no", "last", "earlier"} /\ StoredLocks'
  BY <1>4 DEF Access, PlainCycle, StoredLocks, WriteNmitimen, Locked
<1>6. device' \in BOOLEAN
  BY <1>1 DEF Access, PlainCycle, CpuTypeOK
<1>7. aged' \in BOOLEAN
  BY <1>1, <1>3 DEF Access, PlainCycle, CpuTypeOK, CInv, ControllerTypeOK, Irq
<1>8. credit' \in 0 .. 2
  <2>1. credit' = credit \/ \E k \in {0, 1} : credit' = Credit(credit + k)
    BY BitType DEF Access, PlainCycle
  <2> QED
    BY <1>1, <2>1, CreditType DEF CpuTypeOK
<1> QED
  BY <1>3, <1>5, <1>6, <1>7, <1>8

\* A cycle of an instruction: the CPU goes on, with its flags kept or changed.
LEMMA CycleIInv ==
  ASSUME IInv, NEW p, NEW q \in Places, CycleTo(p, q), Access \/ PlainCycle, cpu' \in Cpu
  PROVE  IInv'
<1>1. pc' \in Places /\ left' \in Nat
  BY CycleAssumption DEF CycleTo
<1> QED
  BY <1>1, AccessType DEF IInv, CInv, TypeOK

LEMMA SampleType ==
  ASSUME CInv, CpuTypeOK, NEW i \in BOOLEAN
  PROVE  AfterLastCycle(i) \in Cpu
<1>1. cpu \in Cpu /\ nmi \in Nmi /\ irq \in Irq /\ device \in BOOLEAN
  BY DEF CInv, ControllerTypeOK, CpuTypeOK
<1>2. Sampled(cpu, i) \in Cpu
  <2>1. ASSUME NEW a \in BOOLEAN, NEW b \in BOOLEAN, NEW d \in BOOLEAN
        PROVE  [cpu EXCEPT !.nmiPending = a, !.irqLine = b, !.irqPending = d] \in Cpu
    BY <1>1 DEF Cpu
  <2>2. /\ (cpu.nmiPending \/ nmi.transition) \in BOOLEAN
        /\ (irq.transition \/ device) \in BOOLEAN
        /\ ((irq.transition \/ device) /\ ~i) \in BOOLEAN
    BY Zenon
  <2> QED
    BY <2>1, <2>2, Zenon DEF Sampled
<1> QED
  BY <1>1, <1>2 DEF AfterLastCycle, Cpu

\* A sample: the controller is tested, and no cycle passes.
LEMMA TestIInv ==
  ASSUME IInv, Test, cpu' \in Cpu, pc' \in Places, stored' = "no",
         UNCHANGED <<left, device, credit, aged>>
  PROVE  IInv'
<1>1. CInv'
  BY TestCInv, TypeSplit
<1> QED
  BY <1>1 DEF IInv, CInv, TypeOK, StoredLocks

LEMMA LastCycleIInv ==
  ASSUME IInv, NEW p, NEW q \in Places, NEW i \in BOOLEAN, LastCycle(p, q, i)
  PROVE  IInv'
<1>1. cpu' \in Cpu
  BY SampleType, TypeSplit DEF LastCycle
<1> QED
  BY <1>1, TestIInv DEF LastCycle

LEMMA NextIInv == IInv /\ [Next]_vars => IInv'
<1> SUFFICES ASSUME IInv, [Next]_vars PROVE IInv'
  OBVIOUS
<1>1. cpu \in Cpu /\ cpu.i \in BOOLEAN
  BY TypeSplit DEF CpuTypeOK, Cpu
<1>2. {"step", "body", "last", "nmi", "irq", "wait1", "wait2", "waiting"} = Places
  BY DEF Places
<1>3. CASE Clock
  BY <1>3, ClockIInv
<1>4. CASE DeviceRaises
  BY <1>4 DEF DeviceRaises, IInv, CInv, TypeOK, ControllerTypeOK, FlagsAgree, StoredLocks,
              controller, history, Enabled
<1>5. CASE EnterNmi
  <2>1. cpu' \in Cpu
    BY <1>1, <1>5 DEF EnterNmi, Cpu
  <2>2. credit' \in 0 .. 2
    BY <1>5, TypeSplit DEF EnterNmi, CpuTypeOK
  <2>3. CInv'
    BY <1>5, TypeSplit, RegistersCInv DEF EnterNmi, Registers
  <2>4. pc' \in Places /\ left' \in Nat
    BY <1>2, <1>5, CycleAssumption DEF EnterNmi, CycleTo
  <2>5. stored' \in {"no", "earlier"}
    BY <1>5 DEF EnterNmi, Older
  <2> QED
    BY <1>5, <2>1, <2>2, <2>3, <2>4, <2>5, TypeSplit
       DEF EnterNmi, IInv, CInv, TypeOK, CpuTypeOK, StoredLocks
<1>6. CASE EnterIrq
  <2>1. cpu' \in Cpu
    BY <1>1, <1>6 DEF EnterIrq, Cpu
  <2> QED
    BY <1>2, <1>6, <2>1, CycleIInv DEF EnterIrq
<1>7. CASE VectorSample
  BY <1>2, <1>7, LastCycleIInv DEF VectorSample
<1>8. CASE Sample \/ WaitSample
  BY <1>1, <1>2, <1>8, LastCycleIInv DEF Sample, WaitSample
<1>9. ASSUME FlagChange \/ UNCHANGED cpu
      PROVE  cpu' \in Cpu
  BY <1>1, <1>9 DEF FlagChange, Cpu
<1>10. CASE Body \/ Last
  BY <1>2, <1>9, <1>10, CycleIInv DEF Body, Last
<1>11. CASE Fetch \/ Wait1 \/ Waiting
  BY <1>2, <1>9, <1>11, CycleIInv DEF Fetch, Wait1, Waiting
<1>12. CASE Wait2
  <2>1. cpu' \in Cpu
    BY <1>1, <1>12 DEF Wait2, Cpu
  <2> QED
    BY <1>2, <1>12, <2>1, CycleIInv DEF Wait2
<1>13. CASE Wake
  <2>1. AfterLastCycle(cpu.i) \in Cpu
    BY <1>1, SampleType, TypeSplit
  <2>2. Wakes(AfterLastCycle(cpu.i)) \in BOOLEAN
    BY Zenon DEF Wakes
  <2>3. cpu' = [AfterLastCycle(cpu.i) EXCEPT !.wai = ~Wakes(AfterLastCycle(cpu.i))]
    BY <1>13 DEF Wake
  <2>4. cpu' \in Cpu
    <3>1. ASSUME NEW c \in Cpu, NEW x \in BOOLEAN
          PROVE  [c EXCEPT !.wai = ~x] \in Cpu
      BY DEF Cpu
    <3> QED
      BY <2>1, <2>2, <2>3, <3>1, Zenon
  <2> QED
    BY <1>2, <1>13, <2>4, TestIInv DEF Wake
<1>14. CASE UNCHANGED vars
  BY <1>14 DEF vars, controller, cpuVars, history, IInv, CInv, TypeOK, ControllerTypeOK,
               FlagsAgree, StoredLocks, Enabled
<1> QED
  BY <1>3, <1>4, <1>5, <1>6, <1>7, <1>8, <1>10, <1>11, <1>12, <1>13, <1>14
     DEF Next, CpuNext, Instruction, Entry, Wait

LEMMA Inductive == Spec => []IInv
BY InitIInv, NextIInv, PTL DEF Spec

\* The composition keeps its types: no sample, entry or wait leaves the places.
THEOREM TypeCorrect == Spec => []TypeOK
<1>1. IInv => TypeOK
  BY DEF IInv
<1> QED
  BY Inductive, <1>1, PTL

\* The sample right after a store to $4200 takes nothing from the controller and
\* gives nothing to the CPU: a request that arrives there is kept for the next.
THEOREM StoresSuppressSamples == Spec => StoreSuppressesSample
<1>1. IInv /\ [Next]_vars =>
        [stored = "last" /\ Sample => UNCHANGED <<nmi, irq, cpu>>]_vars
  <2> SUFFICES ASSUME IInv, stored = "last", Sample
               PROVE  UNCHANGED <<nmi, irq, cpu>>
    OBVIOUS
  <2>1. lock
    BY DEF IInv, StoredLocks
  <2>2. UNCHANGED <<nmi, irq>>
    BY <2>1 DEF Sample, LastCycle, Test, Held
  <2>3. cpu' = [cpu EXCEPT !.i = cpu.i]
    BY <2>1 DEF Sample, LastCycle, AfterLastCycle
  <2>4. cpu' = cpu
    BY <2>3 DEF IInv, TypeOK, Cpu
  <2> QED
    BY <2>2, <2>4
<1> QED
  BY Inductive, <1>1, PTL DEF Spec, StoreSuppressesSample
-----------------------------------------------------------------------------
(***************************************************************************)
(* What the CPU samples.  HasCause and IsLevel are not inductive: a bus    *)
(* cycle must be known to last until the next poll, so that no sample      *)
(* falls between a store and the poll that makes its effect a request.     *)
(***************************************************************************)
\* The ticks to the next poll.
UntilPoll == IF h % 2 = 0 THEN 1 ELSE 2

\* The request held in the controller, the one latched there and the one pending in
\* the CPU have a cause each, except until the poll that merges the first two.
CausesApart ==
  \/ credit = 2
  \/ nmi.hold /\ left >= UntilPoll
  \/ Bit(nmi.hold) + Bit(nmi.transition) + Bit(cpu.nmiPending) <= credit

\* A line that was up before the last poll has been latched again, except after a
\* sample, until the cycle that follows it is over.
LatchedAgain ==
  aged /\ irq.line /\ ~irq.transition =>
    pc \in {"last", "wait1", "wait2", "step"} \/ left >= UntilPoll

RInv == IInv /\ HasCause /\ CausesApart /\ LatchedAgain

LEMMA InitRInv == Init => RInv
<1> SUFFICES ASSUME Init PROVE RInv
  OBVIOUS
<1>1. ~nmi.hold /\ ~nmi.transition /\ ~cpu.nmiPending /\ ~aged /\ credit = 0
  BY DEF Init, ControllerInit
<1> QED
  BY <1>1, InitIInv DEF RInv, HasCause, CausesApart, LatchedAgain, Bit

LEMMA UntilPollType == h \in Nat => UntilPoll \in {1, 2}
BY DEF UntilPoll

\* Lines have an even number of ticks: no poll is skipped where one ends.
LEMMA PollsAlternate ==
  ASSUME ControllerTypeOK, Tick
  PROVE  /\ (h % 2) = 0 => (h' % 2) = 1
         /\ (h % 2) # 0 => (h' % 2) = 0
<1>1. h \in Nat /\ Period[v] \in Nat /\ (Period[v] % 2) = 0 /\ h < Period[v]
  BY IrqAssumption DEF ControllerTypeOK
<1>2. (h' = 0 /\ h + 1 >= Period[v]) \/ h' = h + 1
  BY DEF Tick, LineOver
<1>3. (h % 2) = 0 => h' = h + 1
  BY <1>1, <1>2
<1> QED
  BY <1>1, <1>2, <1>3

LEMMA NmiPollRequests ==
  ASSUME NEW n \in Nmi, NmiAgrees(n), NEW y \in Line
  PROVE  /\ NmiPoll(n, y).hold <=> NmiPoll(n, y).valid /\ ~n.valid
         /\ NmiPoll(n, y).transition <=> n.transition \/ (n.hold /\ n.enable)
         /\ NmiPoll(n, y).hold => ~n.hold
<1> DEFINE valid == y >= VDisp
           m == [n EXCEPT !.hold = FALSE, !.transition = @ \/ (n.hold /\ n.enable)]
<1>1. valid \in BOOLEAN
  BY IrqAssumption DEF Line
<1>2. /\ m \in Nmi /\ ~m.hold /\ (m.valid <=> n.valid)
      /\ m.transition <=> n.transition \/ (n.hold /\ n.enable)
  BY DEF Nmi
<1> HIDE DEF valid, m
<1>3. CASE valid = n.valid
  <2>1. NmiPoll(n, y) = m
    BY <1>3 DEF NmiPoll, valid, m
  <2> QED
    BY <1>2, <2>1
<1>4. CASE valid # n.valid
  <2>1. NmiPoll(n, y) = [m EXCEPT !.valid = valid, !.line = valid, !.hold = valid]
    BY <1>4 DEF NmiPoll, valid, m
  <2>2. NmiPoll(n, y).hold <=> valid
    BY <1>1, <1>2, <2>1 DEF Nmi
  <2>3. NmiPoll(n, y).valid <=> valid
    BY <1>1, <1>2, <2>1 DEF Nmi
  <2>4. NmiPoll(n, y).transition <=> n.transition \/ (n.hold /\ n.enable)
    BY <1>1, <1>2, <2>1 DEF Nmi
  <2>5. n.valid \in BOOLEAN /\ (n.hold => n.valid)
    BY DEF Nmi, NmiAgrees
  <2> QED
    BY <1>1, <1>4, <2>2, <2>3, <2>4, <2>5
<1> QED
  BY <1>3, <1>4

LEMMA IrqPollRequests ==
  ASSUME NEW i \in Irq, IrqAgrees(i), NEW x, NEW y, i.line
  PROVE  IrqPoll(i, x, y).transition
<1> DEFINE active == Coincides(i, Delayed(x, y))
           rises == active /\ ~i.valid
<1>1. IrqPoll(i, x, y) =
        [i EXCEPT !.hold = rises, !.valid = active, !.line = @ \/ rises,
                  !.transition = @ \/ (i.line /\ Enabled(i))]
  BY DEF IrqPoll
<1> HIDE DEF active
<1>2. IrqPoll(i, x, y).transition = (i.transition \/ (i.line /\ Enabled(i)))
  BY <1>1 DEF Irq
<1> QED
  BY <1>2 DEF IrqAgrees
\* Causes counted up to two are enough for as many requests.
LEMMA CreditCovers ==
  ASSUME NEW c \in 0 .. 2, NEW k \in {0, 1}
  PROVE  /\ Credit(c + k) = 2 \/ Credit(c + k) = c + k
         /\ Credit(c + k) >= c
BY DEF Credit

LEMMA BitValue == \A b : Bit(b) = IF b THEN 1 ELSE 0
BY DEF Bit

LEMMA BitOrder ==
  ASSUME NEW a \in BOOLEAN, NEW b \in BOOLEAN
  PROVE  /\ (a => b) => Bit(a) <= Bit(b)
         /\ Bit(a \/ b) <= Bit(a) + Bit(b)
BY DEF Bit

LEMMA ClockRequests == RInv /\ Clock => HasCause' /\ CausesApart' /\ LatchedAgain'
<1> SUFFICES ASSUME RInv, Clock PROVE HasCause' /\ CausesApart' /\ LatchedAgain'
  OBVIOUS
<1>1. /\ nmi \in Nmi /\ NmiAgrees(nmi) /\ irq \in Irq /\ IrqAgrees(irq)
      /\ credit \in 0 .. 2 /\ left \in Nat /\ h \in Nat /\ ControllerTypeOK
  BY FlagsSplit, TypeSplit DEF RInv, CInv, ControllerTypeOK, CpuTypeOK
<1>2. HasCause /\ CausesApart /\ LatchedAgain
  BY DEF RInv
<1>3. /\ Tick /\ UNCHANGED <<pc, cpu>>
      /\ left' = IF left > 0 THEN left - 1 ELSE 0
      /\ credit' = Credit(credit + Bit(nmi'.valid /\ ~nmi.valid))
      /\ aged' = IF h' % 2 = 1 THEN irq.line ELSE aged
  BY DEF Clock
<1>4. /\ (h % 2) = 0 => (h' % 2) = 1
      /\ (h % 2) # 0 => (h' % 2) = 0
  BY <1>1, <1>3, PollsAlternate
<1>5. CASE (h % 2) = 0
  <2>1. v' \in Line
    BY <1>1, <1>3, TickBeam
  <2>2. nmi' = NmiPoll(nmi, v') /\ irq' = IrqPoll(irq, h', v')
    BY <1>3, <1>4, <1>5 DEF Tick
  <2>3. /\ nmi'.hold <=> nmi'.valid /\ ~nmi.valid
        /\ nmi'.transition => nmi.transition \/ nmi.hold
        /\ nmi'.hold => ~nmi.hold
    BY <1>1, <2>1, <2>2, NmiPollRequests
  <2>4. credit' = Credit(credit + Bit(nmi'.hold))
    BY <1>3, <2>3, BitValue
  <2>5. credit \in 0 .. 2 /\ Bit(nmi.hold \/ nmi.transition) + Bit(cpu.nmiPending) <= credit
    BY <1>1, <1>2 DEF HasCause
  <2>6. /\ Bit(nmi'.hold) \in {0, 1} /\ Bit(nmi'.transition) \in {0, 1}
        /\ Bit(cpu.nmiPending) \in {0, 1} /\ Bit(nmi.hold \/ nmi.transition) \in {0, 1}
        /\ Bit(nmi'.hold \/ nmi'.transition) \in {0, 1}
    BY BitType
  <2>7. /\ nmi'.hold \in BOOLEAN /\ nmi'.transition \in BOOLEAN
        /\ (nmi.hold \/ nmi.transition) \in BOOLEAN
    BY <1>1, <2>1, <2>2, NmiPollAgrees DEF Nmi
  <2>8. nmi'.transition => nmi.hold \/ nmi.transition
    BY <2>3
  <2>9. Bit(nmi'.transition) <= Bit(nmi.hold \/ nmi.transition)
    BY <2>7, <2>8, BitOrder, Zenon
  <2>10. /\ credit' \in Nat
         /\ credit' = 2 \/ credit' = credit + Bit(nmi'.hold)
    BY <2>4, <2>5, <2>6, CreditCovers DEF Credit
  <2>11. \/ credit' = 2
         \/ Bit(nmi'.hold) + Bit(nmi'.transition) + Bit(cpu.nmiPending) <= credit'
    BY <2>5, <2>6, <2>9, <2>10
  <2>12. CausesApart'
    BY <1>3, <2>11 DEF CausesApart
  <2>13. Bit(nmi'.hold \/ nmi'.transition) <= Bit(nmi'.hold) + Bit(nmi'.transition)
    BY <2>7, BitOrder, Zenon
  <2>14. Bit(nmi'.hold \/ nmi'.transition) + Bit(cpu.nmiPending) <= credit'
    BY <2>6, <2>10, <2>11, <2>13
  <2>15. HasCause'
    BY <1>3, <2>14 DEF HasCause
  <2>16. irq.line => irq'.transition
    BY <1>1, <2>2, IrqPollRequests
  <2>17. LatchedAgain'
    BY <1>3, <1>4, <1>5, <2>16 DEF LatchedAgain
  <2> QED
    BY <2>17, <2>12, <2>15
<1>6. CASE (h % 2) # 0
  <2>1. UNCHANGED <<nmi, irq>>
    BY <1>3, <1>4, <1>6 DEF Tick
  <2>2. Bit(nmi'.valid /\ ~nmi.valid) = 0
    BY <2>1, BitValue
  <2>3. credit' = credit
    BY <1>1, <1>3, <2>2 DEF Credit
  <2>4. credit' = credit /\ aged' = aged
    BY <1>3, <1>4, <1>6, <2>3
  <2>5. left >= UntilPoll => left' >= UntilPoll'
    BY <1>1, <1>3, <1>4, <1>6 DEF UntilPoll
  <2>6. HasCause'
    BY <1>2, <1>3, <2>1, <2>4 DEF HasCause
  <2>7. CausesApart'
    BY <1>2, <1>3, <2>1, <2>4, <2>5 DEF CausesApart
  <2>8. LatchedAgain'
    BY <1>2, <1>3, <2>1, <2>4, <2>5 DEF LatchedAgain
  <2> QED
    BY <2>6, <2>7, <2>8
<1> QED
  BY <1>5, <1>6

\* A bus cycle begins: it lasts until the next poll, whatever it accesses.
LEMMA CycleRequests ==
  ASSUME RInv, NEW p, NEW q, CycleTo(p, q), Access \/ PlainCycle,
         cpu'.nmiPending = cpu.nmiPending
  PROVE  HasCause' /\ CausesApart' /\ LatchedAgain'
<1>1. /\ nmi \in Nmi /\ NmiAgrees(nmi) /\ irq \in Irq
      /\ credit \in 0 .. 2 /\ h \in Nat
  BY FlagsSplit, TypeSplit DEF RInv, CInv, ControllerTypeOK, CpuTypeOK
<1>2. HasCause /\ CausesApart
  BY DEF RInv
<1>3. h' = h
  BY DEF Access, PlainCycle, WriteNmitimen, WriteTarget, ReadRdnmi, ReadTimeup, OtherCycle
<1>4. left = 0 /\ left' \in Nat /\ left' >= UntilPoll' /\ UntilPoll' = UntilPoll
  BY <1>1, <1>3, CycleAssumption DEF CycleTo, UntilPoll
<1>5. LatchedAgain'
  BY <1>4 DEF LatchedAgain
<1>6. credit = 2 \/ Bit(nmi.hold) + Bit(nmi.transition) + Bit(cpu.nmiPending) <= credit
  BY <1>1, <1>2, <1>4, UntilPollType DEF CausesApart
<1>7. ASSUME NEW m \in Modes, WriteNmitimen(m),
             credit' = Credit(credit + Bit(m.nmi /\ ~nmi.enable /\ nmi.line /\ ~nmi.hold))
      PROVE  HasCause' /\ CausesApart'
  <2>1. m \in Mode
    BY IrqAssumption
  <2>2. nmi' = [nmi EXCEPT !.enable = m.nmi, !.transition = @ \/ (~nmi.enable /\ m.nmi /\ nmi.line)]
    BY <1>7 DEF WriteNmitimen, NmiUpdate
  <2>3. /\ nmi'.hold = nmi.hold
        /\ nmi'.transition <=> nmi.transition \/ (~nmi.enable /\ m.nmi /\ nmi.line)
    BY <1>1, <2>1, <2>2 DEF Nmi, Mode
  <2> DEFINE new == m.nmi /\ ~nmi.enable /\ nmi.line /\ ~nmi.hold
  <2>4. /\ Bit(nmi.hold \/ nmi.transition) \in {0, 1} /\ Bit(cpu.nmiPending) \in {0, 1}
        /\ Bit(new) \in {0, 1}
    BY BitType
  <2>5. credit' \in Nat /\ credit' >= credit /\ (credit' = 2 \/ credit' = credit + Bit(new))
    BY <1>1, <1>7, <2>4, CreditCovers DEF Credit
  <2>6. nmi'.transition => nmi.transition \/ nmi.hold \/ new
    BY <2>3
  <2> HIDE DEF new
  <2>7. Bit(nmi'.hold \/ nmi'.transition) \in {0, 1}
    BY BitType
  <2>8. Bit(nmi'.hold \/ nmi'.transition) <= Bit(nmi.hold \/ nmi.transition) + Bit(new)
    BY <2>3, <2>6, BitValue
  <2>9. HasCause'
    BY <1>1, <1>2, <2>4, <2>5, <2>7, <2>8 DEF HasCause
  <2>10. CausesApart'
    <3>1. CASE nmi.hold
      BY <1>4, <2>3, <3>1 DEF CausesApart
    <3>2. CASE ~nmi.hold
      <4>1. Bit(nmi'.hold) = Bit(nmi.hold)
        BY <2>3
      <4>2. Bit(nmi'.transition) <= Bit(nmi.transition) + Bit(new)
        BY <2>6, <3>2, BitValue
      <4>3. /\ Bit(nmi'.transition) \in {0, 1} /\ Bit(nmi.transition) \in {0, 1}
            /\ Bit(nmi.hold) \in {0, 1}
        BY BitType
      <4>4. \/ credit' = 2
            \/ Bit(nmi'.hold) + Bit(nmi'.transition) + Bit(cpu'.nmiPending) <= credit'
        BY <1>1, <1>6, <2>4, <2>5, <4>1, <4>2, <4>3
      <4> QED
        BY <4>4 DEF CausesApart
    <3> QED
      BY <3>1, <3>2
  <2> QED
    BY <2>9, <2>10
<1>8. ASSUME credit' = credit, nmi'.hold = nmi.hold, nmi'.transition = nmi.transition
      PROVE  HasCause' /\ CausesApart'
  BY <1>2, <1>6, <1>8 DEF HasCause, CausesApart
<1>9. HasCause' /\ CausesApart'
  <2>1. CASE UNCHANGED <<nmi, credit>>
    BY <1>8, <2>1
  <2>2. CASE ReadRdnmi /\ UNCHANGED credit
    <3>1. nmi' = [nmi EXCEPT !.line = @ /\ nmi.hold]
      BY <2>2 DEF ReadRdnmi
    <3>2. nmi'.hold = nmi.hold /\ nmi'.transition = nmi.transition
      BY <1>1, <3>1 DEF Nmi
    <3> QED
      BY <1>8, <2>2, <3>2
  <2> QED
    BY <1>7, <2>1, <2>2 DEF Access, PlainCycle, WriteTarget, ReadTimeup, OtherCycle
<1> QED
  BY <1>5, <1>9
\* A sample moves the latched request into the CPU, or finds the lock and moves
\* nothing; none falls between a store and the poll that merges its cause.
LEMMA SampleRequests ==
  ASSUME RInv, left = 0, Test, pc' \in {"last", "wait1", "step"},
         UNCHANGED <<left, credit, aged>>,
         NEW i \in BOOLEAN, cpu'.nmiPending = AfterLastCycle(i).nmiPending
  PROVE  HasCause' /\ CausesApart' /\ LatchedAgain'
<1>1. /\ nmi \in Nmi /\ cpu \in Cpu /\ credit \in 0 .. 2 /\ h \in Nat
  BY TypeSplit DEF RInv, CInv, ControllerTypeOK, CpuTypeOK
<1>2. HasCause /\ CausesApart
  BY DEF RInv
<1>3. credit = 2 \/ Bit(nmi.hold) + Bit(nmi.transition) + Bit(cpu.nmiPending) <= credit
  BY <1>1, <1>2, UntilPollType DEF CausesApart
<1>4. LatchedAgain'
  BY DEF LatchedAgain
<1>5. CASE lock
  <2>1. nmi' = nmi /\ cpu'.nmiPending = cpu.nmiPending
    BY <1>1, <1>5 DEF Test, Held, AfterLastCycle, Cpu
  <2> QED
    BY <1>2, <1>3, <1>4, <2>1 DEF HasCause, CausesApart
<1>6. CASE ~lock
  <2>1. ~nmi'.transition /\ nmi'.hold = nmi.hold
    BY <1>1, <1>6 DEF Test, Held, Nmi
  <2>2. cpu'.nmiPending => cpu.nmiPending \/ nmi.transition
    BY <1>1, <1>6 DEF AfterLastCycle, Sampled, Cpu
  <2>3. /\ Bit(nmi'.hold \/ nmi'.transition) = Bit(nmi.hold)
        /\ Bit(nmi'.transition) = 0 /\ Bit(nmi'.hold) = Bit(nmi.hold)
    BY <2>1, BitValue
  <2>4. Bit(cpu'.nmiPending) <= Bit(nmi.transition) + Bit(cpu.nmiPending)
    BY <2>2, BitValue
  <2>5. /\ Bit(nmi.hold) \in {0, 1} /\ Bit(cpu'.nmiPending) \in {0, 1}
        /\ Bit(nmi.transition) \in {0, 1} /\ Bit(cpu.nmiPending) \in {0, 1}
    BY BitType
  <2>6. Bit(nmi.hold) + Bit(cpu'.nmiPending) <= credit
    BY <1>1, <1>3, <2>4, <2>5
  <2> QED
    BY <1>4, <2>3, <2>5, <2>6 DEF HasCause, CausesApart
<1> QED
  BY <1>1, <1>5, <1>6

\* Taking an NMI uses up a cause of it.
LEMMA EnterNmiRequests == RInv /\ EnterNmi => HasCause' /\ CausesApart' /\ LatchedAgain'
<1> SUFFICES ASSUME RInv, EnterNmi PROVE HasCause' /\ CausesApart' /\ LatchedAgain'
  OBVIOUS
<1>1. cpu \in Cpu /\ credit \in 0 .. 2 /\ h \in Nat
  BY TypeSplit DEF RInv, CInv, ControllerTypeOK, CpuTypeOK
<1>2. HasCause /\ CausesApart
  BY DEF RInv
<1>3. left = 0 /\ h' = h /\ nmi' = nmi /\ cpu.nmiPending
  BY DEF EnterNmi, CycleTo, OtherCycle
<1>4. credit' = IF credit > 0 THEN credit - 1 ELSE 0
  BY DEF EnterNmi
<1>5. left' >= UntilPoll'
  BY <1>1, <1>3, CycleAssumption DEF EnterNmi, CycleTo, UntilPoll
<1>6. ~cpu'.nmiPending
  BY <1>1 DEF EnterNmi, Cpu
<1>7. LatchedAgain'
  BY <1>5 DEF LatchedAgain
<1>8. ~(left >= UntilPoll)
  BY <1>1, <1>3, UntilPollType
<1>9. credit = 2 \/ Bit(nmi.hold) + Bit(nmi.transition) + Bit(cpu.nmiPending) <= credit
  BY <1>1, <1>2, <1>3, <1>8 DEF CausesApart
<1>10. /\ Bit(nmi.hold) \in {0, 1} /\ Bit(nmi.transition) \in {0, 1}
       /\ Bit(nmi.hold \/ nmi.transition) \in {0, 1}
       /\ Bit(cpu.nmiPending) = 1 /\ Bit(cpu'.nmiPending) = 0
  BY <1>3, <1>6, BitValue
<1>11. HasCause'
  <2>1. Bit(nmi.hold \/ nmi.transition) <= credit'
    BY <1>1, <1>2, <1>10, <1>4 DEF HasCause
  <2> QED
    BY <1>3, <1>10, <2>1 DEF HasCause
<1>12. CausesApart'
  <2>1. CASE nmi.hold
    BY <1>3, <1>5, <2>1 DEF CausesApart
  <2>2. CASE ~nmi.hold
    <3>1. Bit(nmi.hold) = 0
      BY <2>2, BitValue
    <3>2. Bit(nmi.hold) + Bit(nmi.transition) + Bit(cpu'.nmiPending) <= credit'
      BY <1>1, <1>9, <1>10, <1>4, <3>1
    <3> QED
      BY <1>3, <3>2 DEF CausesApart
  <2> QED
    BY <2>1, <2>2
<1> QED
  BY <1>7, <1>11, <1>12

LEMMA NextRInv == RInv /\ [Next]_vars => RInv'
<1> SUFFICES ASSUME RInv, [Next]_vars PROVE HasCause' /\ CausesApart' /\ LatchedAgain'
  BY NextIInv DEF RInv
<1>1. cpu \in Cpu /\ cpu.i \in BOOLEAN
  BY TypeSplit DEF RInv, CpuTypeOK, Cpu
<1>2. CASE Clock
  BY <1>2, ClockRequests
<1>3. CASE DeviceRaises
  BY <1>3 DEF DeviceRaises, RInv, HasCause, CausesApart, LatchedAgain, UntilPoll,
              controller, history
<1>4. CASE EnterNmi
  BY <1>4, EnterNmiRequests
<1>5. CASE EnterIrq
  <2>1. cpu'.nmiPending = cpu.nmiPending
    BY <1>1, <1>5 DEF EnterIrq, Cpu
  <2> QED
    BY <1>5, <2>1, CycleRequests DEF EnterIrq
<1>6. CASE VectorSample \/ Sample \/ WaitSample
  <2>1. PICK p \in {"body", "nmi", "irq"}, q \in {"last", "wait1"}, i \in BOOLEAN : LastCycle(p, q, i)
    BY <1>1, <1>6 DEF VectorSample, Sample, WaitSample
  <2> QED
    BY <2>1, SampleRequests DEF LastCycle
<1>7. ASSUME FlagChange \/ UNCHANGED cpu
      PROVE  cpu'.nmiPending = cpu.nmiPending
  BY <1>1, <1>7 DEF FlagChange, Cpu
<1>8. CASE Body \/ Last \/ Fetch \/ Wait1 \/ Waiting
  BY <1>7, <1>8, CycleRequests DEF Body, Last, Fetch, Wait1, Waiting
<1>9. CASE Wait2
  <2>1. cpu'.nmiPending = cpu.nmiPending
    BY <1>1, <1>9 DEF Wait2, Cpu
  <2> QED
    BY <1>9, <2>1, CycleRequests DEF Wait2
<1>10. CASE Wake
  <2>1. AfterLastCycle(cpu.i) \in Cpu
    BY <1>1, SampleType, TypeSplit DEF RInv
  <2>2. cpu' = [AfterLastCycle(cpu.i) EXCEPT !.wai = ~Wakes(AfterLastCycle(cpu.i))]
    BY <1>10 DEF Wake
  <2>3. cpu'.nmiPending = AfterLastCycle(cpu.i).nmiPending
    BY <2>1, <2>2 DEF Cpu
  <2> QED
    BY <1>1, <1>10, <2>3, SampleRequests DEF Wake
<1>11. CASE UNCHANGED vars
  BY <1>11 DEF vars, controller, cpuVars, history, RInv, HasCause, CausesApart,
               LatchedAgain, UntilPoll
<1> QED
  BY <1>2, <1>3, <1>4, <1>5, <1>6, <1>8, <1>9, <1>10, <1>11
     DEF Next, CpuNext, Instruction, Entry, Wait

\* No NMI is made up and no IRQ is missed, on any frame, whatever the lengths of
\* the bus cycles, the registers the program touches and the place of its samples.
THEOREM RequestsAreFaithful == Spec => []RequestsFaithful
<1>1. RInv => RequestsFaithful
  <2> SUFFICES ASSUME RInv PROVE IsLevel
    BY DEF RInv, RequestsFaithful
  <2>1. h \in Nat
    BY DEF RInv, IInv, CInv, ControllerTypeOK
  <2> QED
    BY <2>1, UntilPollType DEF RInv, LatchedAgain, IsLevel
<1> QED
  BY InitRInv, NextRInv, <1>1, PTL DEF Spec
=============================================================================
