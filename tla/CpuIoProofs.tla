---------------------------- MODULE CpuIoProofs ----------------------------
(***************************************************************************)
(* Proofs about two units behind the CPU's I/O registers: AutoJoypad, for  *)
(* controllers of any number of buttons, and MulDiv, for registers of any  *)
(* width.                                                                  *)
(***************************************************************************)
EXTENDS AutoJoypad, MulDiv, FiniteSetTheorems, FunctionTheorems, SequenceTheorems, TLAPS

\* Two ticks that may start a poll are never neighbours, since the divider by
\* 256 alternates: the automatic latch is released before it could be taken
\* again, or forgotten by a poll that starts disabled.
Released128 ==
  /\ counter \in 0 .. Done
  /\ div256 \in BOOLEAN /\ poll \in BOOLEAN
  /\ manualLatch \in BOOLEAN /\ autoLatch \in BOOLEAN
  /\ autoLatch => div256

LatchInv == LatchShared /\ Released128

LEMMA DoneType ==
  Done \in Nat /\ Done > 2
<1>1. Bits \in Nat /\ Bits > 0
  BY JoypadAssumption
<1> QED
  BY <1>1 DEF Done

LEMMA LatchInit ==
  Init => LatchInv
<1> SUFFICES ASSUME Init PROVE LatchInv
  OBVIOUS
<1>1. counter \in 0 .. Done
  BY DoneType DEF Init
<1>2. LatchShared
  BY DEF Init, LatchShared
<1> QED
  BY <1>1, <1>2 DEF Init, LatchInv, Released128

\* One step of the poll, to counter c.
LEMMA LatchStep ==
  ASSUME LatchInv, NEW c \in 0 .. Done, Step(c), div256' = ~div256,
         UNCHANGED <<poll, manualLatch>>,
         c = 0 => ~div256,
         c > 0 => c = counter + 1
  PROVE  LatchInv'
<1> USE DEF LatchInv, LatchShared, Released128
<1>1. CASE c = 0 /\ poll
  <2>1. Latched(c)
    BY <1>1 DEF Step
  <2>2. latch' = TRUE /\ autoLatch' = TRUE /\ counter' = 0 /\ div256' = TRUE
    BY <1>1, <2>1 DEF Latched, SetLatch
  <2> QED
    BY <2>2, DoneType
<1>2. CASE c = 0 /\ ~poll
  <2>1. Latched(c)
    BY <1>2 DEF Step
  <2>2. counter' = Done /\ UNCHANGED <<latch, autoLatch>> /\ ~autoLatch
    BY <1>2, <2>1 DEF Latched, port
  <2> QED
    BY <2>2, DoneType
<1>3. CASE c = 1
  <2>1. Released(c)
    BY <1>3 DEF Step
  <2>2. autoLatch' = FALSE /\ latch' = manualLatch /\ counter' = c
    BY <2>1 DEF Released, ReleasedLevel, SetLatch
  <2> QED
    BY <2>2
<1>4. CASE c > 1
  <2>1. ~autoLatch
    BY <1>4
  <2>2. latch' = latch /\ autoLatch' = autoLatch /\ counter' \in {c, Done}
    BY <1>4, DoneType DEF Step, Aborted, Sampled, Shifted, ShiftPort, port
  <2> QED
    BY <2>1, <2>2, DoneType
<1> QED
  BY <1>1, <1>2, <1>3, <1>4, DoneType

LEMMA LatchNext ==
  LatchInv /\ [Next]_vars => LatchInv'
<1> SUFFICES ASSUME LatchInv, [Next]_vars PROVE LatchInv'
  OBVIOUS
<1> USE DEF LatchInv, LatchShared, Released128
<1>1. CASE Tick128
  <2> DEFINE starts == StartsAt(Clocks, div256')
  <2>1. div256' = ~div256 /\ UNCHANGED <<poll, manualLatch>>
    BY <1>1 DEF Tick128
  <2>2. CASE starts
    <3>1. Step(0)
      BY <1>1, <2>2 DEF Tick128
    <3>2. div256'
      BY <2>2 DEF StartsAt
    <3>3. ~div256
      BY <2>1, <3>2, Zenon
    <3> QED
      BY <2>1, <3>1, <3>3, LatchStep, DoneType
  <2>3. CASE ~starts /\ counter < Done
    <3>1. Step(counter + 1)
      BY <1>1, <2>3 DEF Tick128
    <3>2. counter + 1 \in 0 .. Done /\ counter + 1 > 0
      BY <2>3, DoneType
    <3> QED
      BY <2>1, <3>1, <3>2, LatchStep
  <2>4. CASE ~starts /\ ~(counter < Done)
    <3>1. Resting
      BY <1>1, <2>4 DEF Tick128
    <3>2. ~autoLatch
      BY <2>4, DoneType
    <3> QED
      BY <2>1, <3>1, <3>2 DEF Resting, port
  <2> QED
    BY <2>2, <2>3, <2>4
<1>2. CASE FrameBegin
  <2>1. /\ counter' = Done /\ autoLatch' = FALSE /\ latch' = manualLatch
        /\ div256' \in BOOLEAN /\ UNCHANGED <<poll, manualLatch>>
    BY <1>2 DEF FrameBegin, SetLatch
  <2>2. counter' \in 0 .. Done
    BY <2>1, DoneType
  <2> QED
    BY <2>1, <2>2
<1>3. ASSUME NEW on \in BOOLEAN, WriteNmitimen(on)
      PROVE  LatchInv'
  BY <1>3, DoneType DEF WriteNmitimen, port
<1>4. ASSUME NEW high \in BOOLEAN, WriteJoyser(high)
      PROVE  LatchInv'
  BY <1>4 DEF WriteJoyser, SetLatch
<1>5. CASE ReadJoyser
  BY <1>5 DEF ReadJoyser, ShiftPort
<1>6. CASE UNCHANGED vars
  BY <1>6 DEF vars, port
<1> QED
  BY <1>1, <1>2, <1>3, <1>4, <1>5, <1>6 DEF Next, Program

\* Whatever the program writes to $4016 and $4200 and whenever, the latch line is
\* the disjunction of its two drivers, and the automatic one lasts one tick.
THEOREM LatchIsShared ==
  Spec => []LatchShared
<1>1. LatchInv => LatchShared
  BY DEF LatchInv
<1> QED
  BY LatchInit, LatchNext, <1>1, PTL DEF Spec

-----------------------------------------------------------------------------
\* The first tick of VBlank that falls into the window in which a poll may start;
\* the next one is the last.
FirstTick == IF phase = 0 THEN 2 ELSE 1

Packet == [1 .. Bits -> {0, 1}]

PollTypes ==
  /\ tick \in 0 .. Ticks /\ phase \in Phases
  /\ pad \in Packet
  /\ start \in [packet : Packet, polls : {0, 1}, clean : BOOLEAN]

\* Of the two ticks of the window one is aligned, whichever the divider has it.
PollsCounted ==
  /\ asked => poll
  /\ tick <= FirstTick => start.polls = 0
  /\ tick = FirstTick + 1 /\ ~div256 => start.polls = 0
  /\ tick = FirstTick + 1 /\ div256 /\ asked => start.polls = 1
  /\ tick > FirstTick + 1 /\ asked => start.polls = 1

PollInv == LatchInv /\ PollTypes /\ PollsCounted

LEMMA Window ==
  ASSUME tick \in Nat, phase \in Phases, NEW aligned \in BOOLEAN
  PROVE  StartsAt(Clocks, aligned) <=> aligned /\ (tick = FirstTick \/ tick = FirstTick + 1)
<1>1. phase \in 0 .. 127 /\ phase % 2 = 0
  BY JoypadAssumption
<1>2. phase = 0 \/ phase \in 2 .. 126
  BY <1>1
<1>3. (Clocks < 1364 /\ Clocks >= 130 /\ Clocks <= 384) <=>
        (tick = FirstTick \/ tick = FirstTick + 1)
  BY <1>2 DEF Clocks, FirstTick
<1> QED
  BY <1>3 DEF StartsAt

LEMMA PollInit == Init => PollInv
<1> SUFFICES ASSUME Init PROVE PollInv
  OBVIOUS
<1>1. Zeros \in Packet /\ 0 \in 0 .. Ticks
  BY JoypadAssumption DEF Zeros, Packet
<1>2. PollTypes
  BY <1>1 DEF Init, PollTypes
<1>3. PollsCounted
  BY <1>2, JoypadAssumption DEF Init, PollsCounted, FirstTick
<1> QED
  BY <1>2, <1>3, LatchInit DEF PollInv

\* The latch takes a packet or leaves the one it has.
LEMMA LatchTakesPacket ==
  ASSUME pad \in Packet, NEW high, SetLatch(high)
  PROVE  pad' \in Packet
BY JoypadAssumption DEF SetLatch, Packet

LEMMA PadStays ==
  ASSUME pad \in Packet, NEW c \in Nat, Step(c)
  PROVE  pad' \in Packet
<1>1. CASE c = 0
  <2>1. Latched(c)
    BY <1>1 DEF Step
  <2>2. SetLatch(TRUE) \/ pad' = pad
    BY <2>1, Zenon DEF Latched, port
  <2> QED
    BY <2>2, LatchTakesPacket
<1>2. CASE c = 1
  BY <1>2, LatchTakesPacket DEF Step, Released
<1>3. CASE c > 1
  <2>1. pad' = pad
    BY <1>3 DEF Step, Aborted, Sampled, Shifted, ShiftPort, port
  <2> QED
    BY <2>1 DEF Packet
<1> QED
  BY <1>1, <1>2, <1>3

\* What a tick does to the history of polls.
LEMMA TickCounts ==
  ASSUME PollInv, Tick128
  PROVE  PollTypes' /\ PollsCounted'
<1> DEFINE starts == StartsAt(Clocks, div256')
<1>1. div256' = ~div256 /\ div256' \in BOOLEAN /\ tick \in Nat /\ tick' \in 0 .. Ticks
  BY JoypadAssumption DEF Tick128, PollInv, PollTypes, LatchInv, Released128
<1>2. starts <=> div256' /\ (tick = FirstTick \/ tick = FirstTick + 1)
  BY <1>1, Window DEF PollInv, PollTypes
<1>3. pad' \in Packet
  <2>1. CASE starts
    BY <2>1, PadStays DEF Tick128, PollInv, PollTypes
  <2>2. CASE ~starts /\ counter < Done
    BY <2>2, PadStays DEF Tick128, PollInv, PollTypes, LatchInv, Released128
  <2>3. CASE ~starts /\ ~(counter < Done)
    BY <2>3 DEF Tick128, Resting, port, PollInv, PollTypes
  <2> QED
    BY <2>1, <2>2, <2>3
<1>4. tick' = tick + 1 /\ UNCHANGED <<poll, manualLatch, phase, asked>>
  BY DEF Tick128
<1>5. FirstTick' = FirstTick /\ FirstTick \in {1, 2}
  BY <1>4 DEF FirstTick
<1>6. CASE starts /\ poll
  <2>1. start' = [packet |-> pad', polls |-> Twice(start.polls), clean |-> ~manualLatch]
    BY <1>6 DEF Tick128
  <2>2. ~div256 /\ (tick = FirstTick \/ tick = FirstTick + 1)
    BY <1>1, <1>2, <1>6, Zenon
  <2>3. start.polls = 0
    BY <1>5, <2>2 DEF PollInv, PollsCounted
  <2>4. start' = [packet |-> pad', polls |-> 1, clean |-> ~manualLatch]
    BY <2>1, <2>3 DEF Twice
  <2>5. PollTypes'
    BY <1>1, <1>3, <1>4, <2>4 DEF PollInv, PollTypes, LatchInv, Released128
  <2>6. div256' /\ tick' > FirstTick' /\ start.polls' = 1 /\ (asked' => poll')
    BY <1>1, <1>2, <1>4, <1>5, <1>6, <2>4 DEF PollInv, PollsCounted
  <2> QED
    BY <1>1, <1>5, <2>5, <2>6 DEF PollsCounted
<1>7. CASE ~(starts /\ poll)
  <2>1. start' = start
    BY <1>7 DEF Tick128
  <2>2. PollTypes'
    BY <1>1, <1>3, <1>4, <2>1 DEF PollInv, PollTypes
  <2>3. asked => ~starts
    BY <1>7 DEF PollInv, PollsCounted
  <2>4. asked /\ tick = FirstTick => ~div256'
    BY <1>1, <1>2, <2>3, Zenon
  <2>5. asked /\ tick = FirstTick + 1 => div256
    BY <1>1, <1>2, <2>3, Zenon
  <2>6. PollsCounted'
    BY <1>1, <1>4, <1>5, <2>1, <2>4, <2>5 DEF PollInv, PollsCounted, PollTypes
  <2> QED
    BY <2>2, <2>6
<1> QED
  BY <1>6, <1>7

LEMMA PollNext == PollInv /\ [Next]_vars => PollInv'
<1> SUFFICES ASSUME PollInv, [Next]_vars PROVE PollTypes' /\ PollsCounted'
  BY LatchNext DEF PollInv
<1>1. CASE Tick128
  BY <1>1, TickCounts
<1>2. CASE FrameBegin
  <2>1. /\ tick' = 0 /\ phase' \in Phases /\ asked' = poll /\ poll' = poll
        /\ start' = [start EXCEPT !.polls = 0, !.clean = FALSE]
    BY <1>2 DEF FrameBegin
  <2>2. pad' \in Packet
    BY <1>2, LatchTakesPacket DEF FrameBegin, PollInv, PollTypes
  <2>3. 0 \in 0 .. Ticks /\ FirstTick' \in {1, 2}
    BY JoypadAssumption DEF FirstTick
  <2>4. PollTypes'
    BY <2>1, <2>2, <2>3 DEF PollInv, PollTypes
  <2>5. start'.polls = 0 /\ tick' <= FirstTick'
    BY <2>1, <2>3 DEF PollInv, PollTypes
  <2> QED
    BY <2>1, <2>3, <2>4, <2>5 DEF PollsCounted
<1>3. ASSUME NEW on \in BOOLEAN, WriteNmitimen(on)
      PROVE  PollTypes' /\ PollsCounted'
  BY <1>3 DEF WriteNmitimen, PollInv, PollTypes, PollsCounted, FirstTick, port, clockVars
<1>4. ASSUME NEW high \in BOOLEAN, WriteJoyser(high)
      PROVE  PollTypes' /\ PollsCounted'
  <2>1. pad' \in Packet
    BY <1>4, LatchTakesPacket DEF WriteJoyser, PollInv, PollTypes
  <2> QED
    BY <1>4, <2>1 DEF WriteJoyser, PollInv, PollTypes, PollsCounted, FirstTick, clockVars
<1>5. CASE ReadJoyser
  BY <1>5 DEF ReadJoyser, ShiftPort, PollInv, PollTypes, PollsCounted, FirstTick, clockVars
<1>6. CASE UNCHANGED vars
  BY <1>6 DEF vars, port, clockVars, PollInv, PollTypes, PollsCounted, FirstTick
<1> QED
  BY <1>1, <1>2, <1>3, <1>4, <1>5, <1>6 DEF Next, Program

\* With whatever phase the ticks of any VBlank fall, and whatever the divider by 256
\* counted before it, a program that keeps polling enabled gets exactly one poll, and
\* no program more than one (AutoJoypad::Tick128).
THEOREM PollsAreSingle == Spec => []PollsOnce
<1>1. PollInv => PollsOnce
  BY DEF PollInv, PollTypes, PollsCounted, PollsOnce, FirstTick
<1> QED
  BY PollInit, PollNext, <1>1, PTL DEF Spec

-----------------------------------------------------------------------------
\* The shift register with the first n bits of the packet in it.
Received(n) ==
  [i \in 1 .. Bits |-> IF i <= Bits - n THEN 0 ELSE start.packet[i + n - Bits]]

\* The latch holds the line; n bits are in the register; or the next one is on the wire.
Latching == counter = 0 /\ latch /\ taken = 0 /\ joy = Received(0)
Waiting(n) == counter = 2 * n + 1 /\ ~latch /\ taken = n /\ joy = Received(n)
OnWire(n) ==
  /\ counter = 2 * n + 2 /\ ~latch /\ taken = n + 1
  /\ wire = start.packet[n + 1] /\ joy = Received(n)

\* A poll the program leaves alone goes through the packet bit after bit.
Delivering ==
  start.clean /\ start.polls > 0 =>
    /\ poll /\ ~manualLatch /\ pad = start.packet
    /\ copy = [counter |-> counter, joy |-> joy]
    /\ Latching \/ (\E n \in 0 .. Bits : Waiting(n)) \/ (\E n \in 0 .. Bits - 1 : OnWire(n))

DeliverInv == PollInv /\ Delivering

\* Shifting the wire into the register adds the next bit of the packet.
LEMMA ShiftReceives ==
  ASSUME start.packet \in Packet, NEW n \in 0 .. Bits - 1, joy = Received(n),
         wire = start.packet[n + 1]
  PROVE  ShiftedLeft = Received(n + 1)
<1>1. Bits \in Nat /\ Bits > 0
  BY JoypadAssumption
<1>2. wire \in {0, 1}
  BY <1>1 DEF Packet
<1>3. joy \in [1 .. Bits -> {0, 1}]
  <2>1. ASSUME NEW i \in 1 .. Bits PROVE (IF i <= Bits - n THEN 0 ELSE start.packet[i + n - Bits]) \in {0, 1}
    BY <1>1 DEF Packet
  <2> QED
    BY <2>1 DEF Received
<1>4. joy \in Seq({0, 1}) /\ Len(joy) = Bits
  BY <1>1, <1>3
<1>5. Tail(joy) \in Seq({0, 1}) /\ Len(Tail(joy)) = Bits - 1
  BY <1>1, <1>4
<1>6. ASSUME NEW i \in 1 .. Bits - 1 PROVE Tail(joy)[i] = joy[i + 1]
  BY <1>1, <1>4
<1>7. ShiftedLeft \in Seq({0, 1}) /\ Len(ShiftedLeft) = Bits
  BY <1>1, <1>2, <1>5 DEF ShiftedLeft
<1>8. ASSUME NEW i \in 1 .. Bits
      PROVE  ShiftedLeft[i] = IF i <= Bits - (n + 1) THEN 0 ELSE start.packet[i + (n + 1) - Bits]
  <2>1. CASE i = Bits
    <3>1. ShiftedLeft[i] = wire
      BY <1>1, <1>2, <1>5, <2>1 DEF ShiftedLeft
    <3>2. ~(i <= Bits - (n + 1)) /\ i + (n + 1) - Bits = n + 1
      BY <1>1, <2>1
    <3> QED
      BY <3>1, <3>2
  <2>2. CASE i < Bits
    <3>1. ShiftedLeft[i] = joy[i + 1]
      BY <1>1, <1>2, <1>5, <1>6, <2>2 DEF ShiftedLeft
    <3>2. joy[i + 1] = IF i + 1 <= Bits - n THEN 0 ELSE start.packet[(i + 1) + n - Bits]
      BY <1>1, <2>2 DEF Received
    <3>3. (i + 1 <= Bits - n <=> i <= Bits - (n + 1)) /\ (i + 1) + n - Bits = i + (n + 1) - Bits
      BY <1>1
    <3> QED
      BY <3>1, <3>2, <3>3
  <2> QED
    BY <1>1, <2>1, <2>2
<1>9. ShiftedLeft = [i \in 1 .. Bits |-> ShiftedLeft[i]]
  BY <1>1, <1>7
<1> QED
  BY <1>8, <1>9 DEF Received

\* The tick that begins a poll.
LEMMA PollBegins ==
  ASSUME DeliverInv, Tick128, StartsAt(Clocks, div256')
  PROVE  Delivering'
<1>1. div256' /\ ~div256 /\ ~autoLatch
  <2>1. div256' /\ div256' = ~div256
    BY DEF StartsAt, Tick128
  <2>2. ~div256
    BY <2>1, Zenon
  <2> QED
    BY <2>1, <2>2 DEF DeliverInv, PollInv, LatchInv, Released128
<1>2. Latched(0)
  BY DEF Tick128, Step
<1>3. CASE ~poll
  <2>1. start' = start /\ poll' = poll
    BY <1>3 DEF Tick128
  <2> QED
    BY <1>3, <2>1 DEF DeliverInv, Delivering
<1>4. CASE poll
  <2>1. start' = [packet |-> pad', polls |-> Twice(start.polls), clean |-> ~manualLatch]
    BY <1>4 DEF Tick128
  <2>2. poll' = poll /\ manualLatch' = manualLatch /\ copy' = [counter |-> counter', joy |-> joy']
    BY DEF Tick128
  <2>3. SetLatch(TRUE) /\ joy' = Zeros /\ counter' = 0
    BY <1>2, <1>4 DEF Latched
  <2>4. ASSUME ~manualLatch PROVE Latching'
    <3>1. ~latch
      BY <1>1, <2>4 DEF DeliverInv, PollInv, LatchInv, LatchShared
    <3>2. latch' = TRUE /\ taken' = 0
      BY <2>3, <3>1 DEF SetLatch
    <3>3. joy' = [i \in 1 .. Bits |-> IF i <= Bits - 0 THEN 0 ELSE start'.packet[i + 0 - Bits]]
      BY <2>3, JoypadAssumption DEF Zeros
    <3> QED
      BY <2>3, <3>2, <3>3 DEF Latching, Received
  <2> QED
    BY <1>4, <2>1, <2>2, <2>4 DEF Delivering
<1> QED
  BY <1>3, <1>4

\* A tick of a poll in progress.
LEMMA PollGoesOn ==
  ASSUME DeliverInv, Tick128, ~StartsAt(Clocks, div256')
  PROVE  Delivering'
<1>1. /\ UNCHANGED <<start, poll, manualLatch>>
      /\ copy' = [counter |-> counter', joy |-> joy']
  BY DEF Tick128
<1> SUFFICES ASSUME start.clean, start.polls > 0
             PROVE  /\ pad' = pad
                    /\ \/ \E n \in 0 .. Bits : Waiting(n)'
                       \/ \E n \in 0 .. Bits - 1 : OnWire(n)'
  BY <1>1 DEF DeliverInv, Delivering
<1>2. /\ poll /\ ~manualLatch /\ pad = start.packet
      /\ Latching \/ (\E n \in 0 .. Bits : Waiting(n)) \/ (\E n \in 0 .. Bits - 1 : OnWire(n))
  BY DEF DeliverInv, Delivering
<1>3. Bits \in Nat /\ Bits > 0 /\ Done = 2 * Bits + 1
  BY JoypadAssumption DEF Done
<1>4. start.packet \in Packet
  BY DEF DeliverInv, PollInv, PollTypes
<1>5. ASSUME NEW n \in Int PROVE Received(n)' = Received(n)
  BY <1>1 DEF Received
<1>6. CASE Latching
  <2>1. counter = 0 /\ taken = 0 /\ joy = Received(0)
    BY <1>6 DEF Latching
  <2>2. Step(1)
    BY <1>3, <2>1 DEF Tick128
  <2>3. Released(1)
    BY <2>2 DEF Step
  <2>4. ~latch' /\ pad' = pad /\ taken' = taken /\ counter' = 1 /\ joy' = joy
    BY <1>2, <2>3 DEF Released, ReleasedLevel, SetLatch
  <2>5. Waiting(0)'
    BY <1>5, <2>1, <2>4 DEF Waiting
  <2> QED
    BY <1>3, <2>4, <2>5
<1>7. ASSUME NEW n \in 0 .. Bits - 1, Waiting(n)
      PROVE  pad' = pad /\ OnWire(n)'
  <2>1. counter = 2 * n + 1 /\ ~latch /\ taken = n /\ joy = Received(n)
    BY <1>7 DEF Waiting
  <2>2. counter < Done /\ counter + 1 > 1 /\ (counter + 1) % 2 = 0
    BY <1>3, <2>1
  <2>3. Step(counter + 1)
    BY <2>2 DEF Tick128
  <2>4. Sampled(counter + 1)
    BY <1>2, <2>2, <2>3 DEF Step
  <2>5. ReadBit = start.packet[n + 1] /\ NextBit = n + 1
    BY <1>2, <1>3, <2>1 DEF ReadBit, NextBit
  <2>6. /\ wire' = start.packet[n + 1] /\ taken' = n + 1 /\ latch' = latch /\ pad' = pad
        /\ counter' = counter + 1 /\ joy' = joy
    BY <2>4, <2>5 DEF Sampled, ShiftPort
  <2> QED
    BY <1>1, <1>5, <2>1, <2>6 DEF OnWire
<1>8. ASSUME Waiting(Bits)
      PROVE  pad' = pad /\ Waiting(Bits)'
  <2>1. counter = Done /\ ~latch /\ taken = Bits /\ joy = Received(Bits)
    BY <1>3, <1>8 DEF Waiting
  <2>2. Resting
    BY <1>3, <2>1 DEF Tick128
  <2> QED
    BY <1>3, <1>5, <2>1, <2>2 DEF Resting, port, Waiting
<1>9. ASSUME NEW n \in 0 .. Bits - 1, OnWire(n)
      PROVE  pad' = pad /\ Waiting(n + 1)'
  <2>1. /\ counter = 2 * n + 2 /\ ~latch /\ taken = n + 1
        /\ wire = start.packet[n + 1] /\ joy = Received(n)
    BY <1>9 DEF OnWire
  <2>2. counter < Done /\ counter + 1 > 1 /\ (counter + 1) % 2 = 1
    BY <1>3, <2>1
  <2>3. Step(counter + 1)
    BY <2>2 DEF Tick128
  <2>4. Shifted(counter + 1)
    BY <1>2, <2>2, <2>3 DEF Step
  <2>5. UNCHANGED <<latch, pad, taken>> /\ counter' = counter + 1 /\ joy' = ShiftedLeft
    BY <2>4 DEF Shifted, port
  <2>6. ShiftedLeft = Received(n + 1)
    BY <1>4, <2>1, ShiftReceives
  <2> QED
    BY <1>5, <2>1, <2>5, <2>6 DEF Waiting
<1> QED
  BY <1>2, <1>3, <1>6, <1>7, <1>8, <1>9

LEMMA DeliverNext == DeliverInv /\ [Next]_vars => DeliverInv'
<1> SUFFICES ASSUME DeliverInv, [Next]_vars PROVE Delivering'
  BY PollNext DEF DeliverInv
<1>1. CASE Tick128
  BY <1>1, PollBegins, PollGoesOn
<1>2. CASE FrameBegin
  BY <1>2 DEF FrameBegin, Delivering, DeliverInv, PollInv, PollTypes
<1>3. ASSUME NEW on \in BOOLEAN, WriteNmitimen(on)
      PROVE  Delivering'
  BY <1>3 DEF WriteNmitimen, Delivering, DeliverInv, PollInv, PollTypes, Latching, Waiting, OnWire,
              Received, port
<1>4. ASSUME NEW high \in BOOLEAN, WriteJoyser(high)
      PROVE  Delivering'
  BY <1>4 DEF WriteJoyser, Delivering, DeliverInv, PollInv, PollTypes
<1>5. CASE ReadJoyser
  BY <1>5 DEF ReadJoyser, Delivering, DeliverInv, PollInv, PollTypes
<1>6. CASE UNCHANGED vars
  BY <1>6 DEF vars, port, Delivering, DeliverInv, Latching, Waiting, OnWire, Received
<1> QED
  BY <1>1, <1>2, <1>3, <1>4, <1>5, <1>6 DEF Next, Program

\* A poll that no write to $4016, no read of it and no clearing of the enable bit has
\* touched leaves in the register the packet that was taken when it began, whatever the
\* number of buttons, and $4212 is not busy until it has (AutoJoypad::Tick128).
THEOREM PacketsDelivered == Spec => []PollDelivers
<1>1. Init => DeliverInv
  BY PollInit DEF DeliverInv, Delivering, Init
<1>2. DeliverInv => PollDelivers
  <2> SUFFICES ASSUME DeliverInv, start.clean, start.polls > 0, counter = Done \/ ~Busy
               PROVE  joy = start.packet /\ copy.joy = start.packet
    BY DEF PollDelivers, DeliverInv, Delivering, Busy
  <2>1. poll /\ copy = [counter |-> counter, joy |-> joy]
    BY DEF DeliverInv, Delivering
  <2>2. Bits \in Nat /\ Bits > 0 /\ Done = 2 * Bits + 1 /\ counter \in 0 .. Done
    BY JoypadAssumption DEF Done, DeliverInv, PollInv, LatchInv, Released128
  <2>3. counter = Done
    BY <2>1, <2>2 DEF Busy
  <2>4. joy = Received(Bits)
    BY <2>2, <2>3 DEF DeliverInv, Delivering, Latching, Waiting, OnWire
  <2>5. start.packet \in [1 .. Bits -> {0, 1}]
    BY DEF DeliverInv, PollInv, PollTypes, Packet
  <2>6. Received(Bits) = [i \in 1 .. Bits |-> start.packet[i]]
    BY <2>2 DEF Received
  <2> QED
    BY <2>1, <2>4, <2>5, <2>6
<1> QED
  BY <1>1, <1>2, DeliverNext, PTL DEF Spec

-----------------------------------------------------------------------------
CountersInv == mpyctr \in Nat /\ divctr \in Nat /\ OneOperation

\* A step of the ALU lets a counter fall, never rise.
LEMMA StepCounters ==
  ASSUME mpyctr \in Nat, divctr \in Nat
  PROVE  /\ Stepped.m = IF mpyctr = 0 THEN 0 ELSE mpyctr - 1
         /\ Stepped.d = IF divctr = 0 THEN 0 ELSE divctr - 1
<1> DEFINE a == MulStep(Alu)
<1>1. a.m = (IF mpyctr = 0 THEN 0 ELSE mpyctr - 1) /\ a.d = divctr
  BY DEF MulStep, Alu
<1>2. Stepped.m = a.m /\ Stepped.d = IF a.d = 0 THEN a.d ELSE a.d - 1
  BY DEF Stepped, DivStep, MulStep, Alu
<1> QED
  BY <1>1, <1>2

LEMMA CountersStep == CountersInv /\ AluStep => CountersInv'
BY StepCounters DEF CountersInv, OneOperation, AluStep

LEMMA CountersNext ==
  CountersInv /\ [AluNext]_aluVars => CountersInv'
<1> SUFFICES ASSUME CountersInv, [AluNext]_aluVars PROVE CountersInv'
  OBVIOUS
<1>1. CASE ReadCycle \/ WriteEdge
  BY <1>1, CountersStep DEF ReadCycle, WriteEdge
<1>2. ASSUME NEW b \in Factors, WriteMultiplier(b) \/ WriteDivisor(b)
      PROVE  CountersInv'
  BY <1>2, MulDivAssumption DEF CountersInv, OneOperation, WriteMultiplier, WriteDivisor, Refused, AluBusy
<1>3. ASSUME NEW b \in Factors, NEW n \in Dividends, WriteOperands(b, n)
      PROVE  CountersInv'
  BY <1>3 DEF CountersInv, OneOperation, WriteOperands
<1>4. CASE WriteElsewhere
  BY <1>4 DEF CountersInv, OneOperation, WriteElsewhere
<1>5. CASE UNCHANGED aluVars
  BY <1>5 DEF CountersInv, OneOperation, aluVars
<1> QED
  BY <1>1, <1>2, <1>3, <1>4, <1>5 DEF AluNext

\* However many triggers the program writes, and however refreshes and DMA move
\* the edges of the ALU against them, a multiplication and a division never
\* share its registers.
THEOREM NeverTwoOperations ==
  AluSpec => []OneOperation
<1>1. AluInit => CountersInv
  BY DEF AluInit, CountersInv, OneOperation
<1>2. CountersInv => OneOperation
  BY DEF CountersInv
<1> QED
  BY CountersNext, <1>1, <1>2, PTL DEF AluSpec
-----------------------------------------------------------------------------
\* Powers of two count the subsets of an interval, whence what the provers do not know
\* of exponents.
LEMMA PowerCounts ==
  ASSUME NEW n \in Nat
  PROVE  IsFiniteSet(SUBSET (1 .. n)) /\ Cardinality(SUBSET (1 .. n)) = 2^n /\ 2^n \in Nat
<1>1. IsFiniteSet(1 .. n) /\ Cardinality(1 .. n) = n
  BY FS_Interval
<1>2. IsFiniteSet(SUBSET (1 .. n)) /\ Cardinality(SUBSET (1 .. n)) = 2^n
  BY <1>1, FS_SUBSET
<1> QED
  BY <1>2, FS_CardinalityType

\* A subset of two intervals side by side is a pair of subsets.
LEMMA PowersMultiply ==
  ASSUME NEW a \in Nat, NEW b \in Nat
  PROVE  2^(a + b) = 2^a * 2^b
<1> DEFINE A == 1 .. a
           B == a + 1 .. a + b
           C == 1 .. a + b
           f == [X \in (SUBSET A) \X (SUBSET B) |-> X[1] \cup X[2]]
<1>1. IsFiniteSet(A) /\ Cardinality(A) = a /\ IsFiniteSet(B) /\ Cardinality(B) = b
  BY FS_Interval
<1>2. /\ IsFiniteSet(SUBSET A) /\ Cardinality(SUBSET A) = 2^a
      /\ IsFiniteSet(SUBSET B) /\ Cardinality(SUBSET B) = 2^b
  BY <1>1, FS_SUBSET
<1>3. /\ IsFiniteSet((SUBSET A) \X (SUBSET B))
      /\ Cardinality((SUBSET A) \X (SUBSET B)) = 2^a * 2^b
  <2> DEFINE S == SUBSET A
             T == SUBSET B
  <2>1. IsFiniteSet(S) /\ IsFiniteSet(T) /\ Cardinality(S) = 2^a /\ Cardinality(T) = 2^b
    BY <1>2
  <2> HIDE DEF S, T
  <2>2. IsFiniteSet(S \X T) /\ Cardinality(S \X T) = Cardinality(S) * Cardinality(T)
    BY <2>1, FS_Product
  <2> QED
    BY <2>1, <2>2 DEF S, T
<1>4. A \cap B = {} /\ A \cup B = C
  OBVIOUS
<1>5. f \in Bijection((SUBSET A) \X (SUBSET B), SUBSET C)
  <2> HIDE DEF A, B, C
  <2>1. f \in [(SUBSET A) \X (SUBSET B) -> SUBSET C]
    BY <1>4
  <2>2. ASSUME NEW X \in (SUBSET A) \X (SUBSET B), NEW Y \in (SUBSET A) \X (SUBSET B), f[X] = f[Y]
        PROVE  X = Y
    <3>1. X[1] \cup X[2] = Y[1] \cup Y[2] /\ X = <<X[1], X[2]>> /\ Y = <<Y[1], Y[2]>>
      BY <2>2
    <3>2. X[1] = Y[1] /\ X[2] = Y[2]
      BY <1>4, <3>1
    <3> QED
      BY <3>1, <3>2
  <2>3. ASSUME NEW Z \in SUBSET C PROVE \E X \in (SUBSET A) \X (SUBSET B) : f[X] = Z
    <3>1. <<Z \cap A, Z \cap B>> \in (SUBSET A) \X (SUBSET B) /\ f[<<Z \cap A, Z \cap B>>] = Z
      BY <1>4
    <3> QED
      BY <3>1
  <2> QED
    BY <2>1, <2>2, <2>3, Fun_IsBij
<1>6. Cardinality(SUBSET C) = 2^a * 2^b
  BY <1>3, <1>5, FS_Bijection DEF ExistsBijection
<1>7. a + b \in Nat
  OBVIOUS
<1>8. Cardinality(SUBSET C) = 2^(a + b)
  BY <1>7, PowerCounts, Zenon
<1> QED
  BY <1>6, <1>8, Zenon

LEMMA PowerDoubles ==
  ASSUME NEW n \in Nat
  PROVE  2^(n + 1) = 2 * 2^n /\ 2^n \in Nat /\ 2^n > 0
<1>1. 2^1 = 2
  OBVIOUS
<1>2. 2^(n + 1) = 2^n * 2^1
  BY PowersMultiply
<1>3. 2^n \in Nat
  BY PowerCounts, Zenon
<1>4. 2^n > 0
  <2> DEFINE T == SUBSET (1 .. n)
  <2>1. IsFiniteSet(T) /\ Cardinality(T) = 2^n
    BY PowerCounts, Zenon
  <2>2. T # {}
    OBVIOUS
  <2> HIDE DEF T
  <2>3. Cardinality(T) # 0
    BY <2>1, <2>2, FS_EmptySet, Zenon
  <2> QED
    BY <1>3, <2>1, <2>3
<1> QED
  BY <1>1, <1>2, <1>3, <1>4

\* The word is the square of the byte, and even.
LEMMA Sizes ==
  /\ Width \in Nat /\ Width > 0
  /\ 2^Width \in Nat /\ 2^Width > 0 /\ WordSize = 2^Width * 2^Width
  /\ WordSize \in Nat /\ WordSize > 1 /\ WordSize % 2 = 0
<1>1. Width \in Nat /\ Width > 0
  BY MulDivAssumption
<1>2. 2 * Width = Width + Width /\ 2 * Width \in Nat /\ 2 * Width = (2 * Width - 1) + 1
      /\ 2 * Width - 1 \in Nat
  BY <1>1
<1>3. WordSize = 2^Width * 2^Width
  BY <1>1, <1>2, PowersMultiply DEF WordSize
<1>4. WordSize = 2 * 2^(2 * Width - 1) /\ 2^(2 * Width - 1) \in Nat /\ 2^(2 * Width - 1) > 0
  BY <1>2, PowerDoubles DEF WordSize
<1> QED
  BY <1>1, <1>3, <1>4, PowerDoubles
-----------------------------------------------------------------------------
AluTypes ==
  /\ wrmpya \in ByteValues /\ wrdiva \in WordValues /\ rddiv \in WordValues
  /\ want \in [rddiv : Nat, rdmpy : Nat, spoilt : BOOLEAN]

\* The multiplicand is in the upper part of rddiv, the bits x of the multiplier that have
\* still to be added in the lower one; at the end there are none.
Multiplying ==
  /\ divctr = 0 /\ mpyctr \in 0 .. Width
  /\ rdmpy \in Nat /\ shift \in Nat /\ want.rdmpy < WordSize
  /\ \E x \in 0 .. 2^mpyctr - 1 :
        rddiv = want.rddiv * 2^mpyctr + x /\ rdmpy + shift * x = want.rdmpy

\* The quotient h of n by the shifted divisor is in the lower part of rddiv, what was
\* in the register before is still in the upper one, and rdmpy is the remainder.
Dividing ==
  /\ mpyctr = 0 /\ divctr \in 0 .. 2 * Width /\ rdmpy \in Nat
  /\ \E b \in ByteValues, n \in WordValues, h \in 0 .. 2^(2 * Width - divctr) - 1,
        y \in 0 .. 2^divctr - 1 :
       /\ want.rddiv = Quotient(n, b) /\ want.rdmpy = Remainder(n, b)
       /\ shift = b * 2^divctr /\ n = h * shift + rdmpy
       /\ b > 0 => rdmpy < shift
       /\ b = 0 => h = 2^(2 * Width - divctr) - 1
       /\ rddiv = y * 2^(2 * Width - divctr) + h

InProgress == ~want.spoilt => Multiplying \/ Dividing

AluInv == CountersInv /\ AluTypes /\ InProgress

\* One partial product.
LEMMA MulArithmetic ==
  ASSUME NEW w \in Nat, NEW p \in Nat, NEW x \in 0 .. 2 * p - 1, NEW r \in Nat, NEW s \in Nat,
         NEW q, q = w * (2 * p) + x
  PROVE  /\ q \div 2 = w * p + x \div 2 /\ x \div 2 \in 0 .. p - 1 /\ q % 2 = x % 2
         /\ x % 2 = 1 => r + s <= r + s * x /\ (r + s) + (2 * s) * (x \div 2) = r + s * x
         /\ x % 2 = 0 => r + (2 * s) * (x \div 2) = r + s * x
         /\ x % 2 \in {0, 1}
<1> DEFINE y == x \div 2
           k == w * p
<1>1. x = 2 * y + (x % 2) /\ (x % 2) \in {0, 1} /\ y \in 0 .. p - 1
  OBVIOUS
<1>2. k \in Nat /\ w * (2 * p) = 2 * k
  OBVIOUS
<1>3. PICK e \in {0, 1} : x % 2 = e
  BY <1>1
<1> HIDE DEF y, k
<1>4. q = 2 * (k + y) + e
  BY <1>1, <1>2, <1>3
<1>5. q \div 2 = k + y /\ q % 2 = e
  BY <1>1, <1>2, <1>3, <1>4
<1>6. s * y \in Nat /\ (2 * s) * y = 2 * (s * y)
  BY <1>1
<1>7. CASE e = 0
  <2>1. s * x = 2 * (s * y)
    BY <1>1, <1>3, <1>7
  <2> QED
    BY <1>1, <1>3, <1>5, <1>6, <1>7, <2>1 DEF y, k
<1>8. CASE e = 1
  <2>1. s * x = 2 * (s * y) + s
    BY <1>1, <1>3, <1>8
  <2> QED
    BY <1>1, <1>3, <1>5, <1>6, <1>8, <2>1 DEF y, k
<1> QED
  BY <1>7, <1>8

\* One bit of the quotient: d and k are what the halves of rddiv range over.
LEMMA DivArithmetic ==
  ASSUME NEW d \in Nat \ {0}, NEW k \in Nat \ {0}, NEW h \in 0 .. k - 1, NEW y \in 0 .. 2 * d - 1
  PROVE  \E z \in 0 .. d - 1 : (2 * (y * k + h)) % ((2 * d) * k) = z * (2 * k) + 2 * h
<1> DEFINE z == IF y < d THEN y ELSE y - d
           e == 2 * (d * k)
           q == y * k + h
<1>1. z \in 0 .. d - 1 /\ (y = z \/ y = z + d)
  OBVIOUS
<1>2. d * k \in Nat /\ d * k > 0 /\ (2 * d) * k = e /\ e \in Nat /\ e > 0
  OBVIOUS
<1> HIDE DEF z
<1>3. z * k \in Nat /\ z * k <= d * k - k
  <2>1. z * k <= (d - 1) * k
    BY <1>1
  <2> QED
    BY <1>1, <2>1
<1>4. z * (2 * k) = 2 * (z * k)
  BY <1>1
<1>5. 2 * q = z * (2 * k) + 2 * h \/ 2 * q = e + (z * (2 * k) + 2 * h)
  <2>1. CASE y = z
    BY <1>1, <1>4, <2>1
  <2>2. CASE y = z + d
    <3> DEFINE a == z * k
               c == d * k
    <3>1. y * k = a + c
      BY <1>1, <2>2
    <3>2. a \in Nat /\ c \in Nat /\ z * (2 * k) = 2 * a /\ e = 2 * c
      BY <1>2, <1>3, <1>4
    <3> HIDE DEF a, c, e
    <3> QED
      BY <3>1, <3>2
  <2> QED
    BY <1>1, <2>1, <2>2
<1> DEFINE v == z * (2 * k) + 2 * h
<1>6. v \in Nat /\ v < e
  BY <1>2, <1>3, <1>4
<1> HIDE DEF v, e, q
<1>7. (2 * q) % e = v
  BY <1>2, <1>5, <1>6 DEF v
<1> QED
  BY <1>1, <1>2, <1>7 DEF v, q
\* What a step of the ALU does while it multiplies, while it divides, and at rest.
LEMMA StepOfProduct ==
  ASSUME mpyctr \in Nat, mpyctr > 0, divctr = 0, AluStep
  PROVE  /\ rddiv' = rddiv \div 2 /\ shift' = 2 * shift
         /\ rdmpy' = IF rddiv % 2 = 1 THEN Added(rdmpy, shift) ELSE rdmpy
         /\ mpyctr' = mpyctr - 1 /\ divctr' = 0
<1> DEFINE a == MulStep(Alu)
<1>1. /\ a.q = rddiv \div 2 /\ a.s = 2 * shift
      /\ a.r = IF rddiv % 2 = 1 THEN Added(rdmpy, shift) ELSE rdmpy
      /\ a.m = mpyctr - 1 /\ a.d = 0
  BY DEF MulStep, Alu
<1> HIDE DEF a
<1>2. DivStep(a) = a
  BY <1>1 DEF DivStep
<1>3. Stepped = a
  BY <1>2 DEF Stepped, a
<1> QED
  BY <1>1, <1>3 DEF AluStep

LEMMA StepOfQuotient ==
  ASSUME mpyctr = 0, divctr \in Nat, divctr > 0, AluStep
  PROVE  /\ shift' = shift \div 2 /\ mpyctr' = 0 /\ divctr' = divctr - 1
         /\ rdmpy >= shift \div 2 =>
              rddiv' = ((2 * rddiv) % WordSize) + 1 /\ rdmpy' = rdmpy - (shift \div 2)
         /\ ~(rdmpy >= shift \div 2) => rddiv' = ((2 * rddiv) % WordSize) /\ rdmpy' = rdmpy
<1> DEFINE s == shift \div 2
           q == ((2 * rddiv) % WordSize)
<1>1. MulStep(Alu) = Alu
  BY DEF MulStep, Alu
<1>2. /\ DOMAIN Alu = {"q", "r", "m", "d", "s"}
      /\ Alu.q = rddiv /\ Alu.r = rdmpy /\ Alu.m = 0 /\ Alu.d = divctr /\ Alu.s = shift
  BY DEF Alu
<1>3. Alu.d # 0 /\ Alu.s \div 2 = s /\ ((2 * Alu.q) % WordSize) = q
  BY <1>2
<1> HIDE DEF s, q
<1>4. Stepped = IF rdmpy >= s
                THEN [Alu EXCEPT !.d = @ - 1, !.s = s, !.q = q + 1, !.r = @ - s]
                ELSE [Alu EXCEPT !.d = @ - 1, !.s = s, !.q = q]
  <2>1. Stepped = DivStep(Alu)
    BY <1>1, Zenon DEF Stepped
  <2> QED
    BY <1>2, <1>3, <2>1 DEF DivStep
<1>5. CASE rdmpy >= s
  <2>1. Stepped = [Alu EXCEPT !.d = @ - 1, !.s = s, !.q = q + 1, !.r = @ - s]
    BY <1>4, <1>5
  <2>2. /\ Stepped.q = q + 1 /\ Stepped.r = rdmpy - s /\ Stepped.m = 0
        /\ Stepped.d = divctr - 1 /\ Stepped.s = s
    BY <1>2, <2>1
  <2> QED
    BY <1>5, <2>2 DEF AluStep, s, q
<1>6. CASE ~(rdmpy >= s)
  <2>1. Stepped = [Alu EXCEPT !.d = @ - 1, !.s = s, !.q = q]
    BY <1>4, <1>6
  <2>2. /\ Stepped.q = q /\ Stepped.r = rdmpy /\ Stepped.m = 0
        /\ Stepped.d = divctr - 1 /\ Stepped.s = s
    BY <1>2, <2>1
  <2> QED
    BY <1>6, <2>2 DEF AluStep, s, q
<1> QED
  BY <1>5, <1>6

LEMMA StepAtRest ==
  ASSUME mpyctr = 0, divctr = 0, AluStep
  PROVE  UNCHANGED <<rddiv, rdmpy, mpyctr, divctr, shift>>
<1>1. MulStep(Alu) = Alu
  BY DEF MulStep, Alu
<1>2. Stepped = Alu
  BY <1>1 DEF Stepped, DivStep, Alu
<1> QED
  BY <1>2 DEF AluStep, Alu

\* rddiv stays a word.
LEMMA StepTypes ==
  ASSUME CountersInv, AluTypes, AluStep
  PROVE  rddiv' \in WordValues
<1>1. rddiv \in Nat /\ rddiv < WordSize /\ WordSize \in Nat /\ WordSize > 1 /\ (WordSize % 2) = 0
  BY Sizes DEF AluTypes, WordValues
<1>2. mpyctr \in Nat /\ divctr \in Nat /\ (mpyctr = 0 \/ divctr = 0)
  BY DEF CountersInv, OneOperation
<1>3. CASE mpyctr > 0
  <2>1. rddiv' = rddiv \div 2
    BY <1>2, <1>3, StepOfProduct
  <2> QED
    BY <1>1, <2>1 DEF WordValues
<1>4. CASE mpyctr = 0 /\ divctr > 0
  <2>1. rddiv' = ((2 * rddiv) % WordSize) + 1 \/ rddiv' = ((2 * rddiv) % WordSize)
    BY <1>2, <1>4, StepOfQuotient
  <2>2. ((2 * rddiv) % WordSize) \in 0 .. WordSize - 2
    <3>1. PICK e \in Nat : e = WordSize
      BY <1>1
    <3>2. PICK q \in Nat : q = rddiv /\ q < e
      BY <1>1, <3>1
    <3>3. e > 1 /\ (e % 2) = 0
      BY <1>1, <3>1
    <3>4. PICK g \in Nat : e = 2 * g
      BY <3>3
    <3>5. CASE q < g
      <4>1. (2 * q) % e = 2 * q
        BY <3>3, <3>4, <3>5
      <4> QED
        BY <3>1, <3>2, <3>4, <3>5, <4>1
    <3>6. CASE q >= g
      <4>1. (2 * q) % e = 2 * q - e
        BY <3>2, <3>3, <3>4, <3>6
      <4> QED
        BY <3>1, <3>2, <3>4, <3>6, <4>1
    <3> QED
      BY <3>5, <3>6
  <2> QED
    BY <1>1, <2>1, <2>2 DEF WordValues
<1>5. CASE mpyctr = 0 /\ divctr = 0
  <2>1. rddiv' = rddiv
    BY <1>2, <1>5, StepAtRest
  <2> QED
    BY <2>1 DEF AluTypes, WordValues
<1> QED
  BY <1>2, <1>3, <1>4, <1>5

LEMMA StepMultiplies ==
  ASSUME CountersInv, AluTypes, Multiplying, AluStep, want' = want
  PROVE  Multiplying'
<1>1. mpyctr \in Nat /\ mpyctr <= Width /\ divctr = 0 /\ Width \in Nat
  BY Sizes DEF Multiplying
<1>2. CASE mpyctr = 0
  <2>1. UNCHANGED <<rddiv, rdmpy, mpyctr, divctr, shift>>
    BY <1>1, <1>2, StepAtRest
  <2> QED
    BY <2>1 DEF Multiplying, WordSize
<1>3. CASE mpyctr > 0
  <2>1. PICK m \in Nat : mpyctr = m + 1
    BY <1>1, <1>3
  <2>2. PICK p \in Nat : p = 2^m /\ 2^mpyctr = 2 * p
    BY <2>1, PowerDoubles
  <2>3. PICK x \in 0 .. 2 * p - 1 :
          rddiv = want.rddiv * (2 * p) + x /\ rdmpy + shift * x = want.rdmpy
    BY <2>2 DEF Multiplying
  <2>4. /\ want.rddiv \in Nat /\ want.rdmpy \in Nat /\ rdmpy \in Nat /\ shift \in Nat
        /\ want.rdmpy < WordSize /\ WordSize \in Nat
    BY Sizes DEF AluTypes, Multiplying
  <2>5. /\ rddiv' = rddiv \div 2 /\ shift' = 2 * shift
        /\ rdmpy' = IF rddiv % 2 = 1 THEN Added(rdmpy, shift) ELSE rdmpy
        /\ mpyctr' = m /\ divctr' = 0
    BY <1>1, <1>3, <2>1, StepOfProduct
  <2>6. /\ rddiv \div 2 = want.rddiv * p + x \div 2 /\ x \div 2 \in 0 .. p - 1 /\ rddiv % 2 = x % 2
        /\ x % 2 = 1 => /\ rdmpy + shift <= want.rdmpy
                        /\ (rdmpy + shift) + (2 * shift) * (x \div 2) = want.rdmpy
        /\ x % 2 = 0 => rdmpy + (2 * shift) * (x \div 2) = want.rdmpy
        /\ x % 2 \in {0, 1}
    BY <2>3, <2>4, MulArithmetic
  <2>7. rdmpy' \in Nat /\ shift' \in Nat /\ rdmpy' + shift' * (x \div 2) = want.rdmpy
    <3>1. CASE x % 2 = 1
      <4>1. rdmpy + shift \in Nat /\ rdmpy + shift < WordSize
        BY <2>4, <2>6, <3>1
      <4>2. Added(rdmpy, shift) = rdmpy + shift
        BY <2>4, <4>1 DEF Added
      <4> QED
        BY <2>4, <2>5, <2>6, <3>1, <4>1, <4>2
    <3>2. CASE x % 2 = 0
      <4>1. rdmpy' = rdmpy
        BY <2>5, <2>6, <3>2
      <4> QED
        BY <2>4, <2>5, <2>6, <3>2, <4>1
    <3> QED
      BY <2>6, <3>1, <3>2
  <2>8. /\ x \div 2 \in 0 .. 2^(mpyctr') - 1
        /\ rddiv' = want'.rddiv * 2^(mpyctr') + x \div 2
        /\ rdmpy' + shift' * (x \div 2) = want'.rdmpy
    BY <2>2, <2>5, <2>6, <2>7
  <2>9. \E i \in 0 .. 2^(mpyctr') - 1 :
          rddiv' = want'.rddiv * 2^(mpyctr') + i /\ rdmpy' + shift' * i = want'.rdmpy
    BY <2>8
  <2>10. mpyctr' \in 0 .. Width
    BY <1>1, <2>1, <2>5
  <2>11. want'.rdmpy < WordSize
    BY <2>4
  <2> QED
    BY <2>5, <2>7, <2>9, <2>10, <2>11 DEF Multiplying, WordSize
<1> QED
  BY <1>1, <1>2, <1>3

LEMMA StepDivides ==
  ASSUME CountersInv, AluTypes, Dividing, AluStep, want' = want
  PROVE  Dividing'
<1>1. /\ divctr \in Nat /\ divctr <= 2 * Width /\ mpyctr = 0 /\ rdmpy \in Nat
      /\ Width \in Nat /\ WordSize \in Nat
  BY Sizes DEF Dividing
<1>2. CASE divctr = 0
  <2>1. UNCHANGED <<rddiv, rdmpy, mpyctr, divctr, shift>>
    BY <1>1, <1>2, StepAtRest
  <2> QED
    BY <2>1 DEF Dividing, WordSize
<1>3. CASE divctr > 0
  <2>1. PICK c \in Nat : divctr = c + 1
    BY <1>1, <1>3
  <2>2. 2 * Width - divctr \in Nat
    BY <1>1
  <2>3. PICK u \in Nat : u = 2 * Width - divctr
    BY <2>2, Zenon
  <2>4. 2 * Width - c = u + 1 /\ divctr + u = 2 * Width
    BY <1>1, <2>1, <2>3
  <2>5. PICK d \in Nat : d = 2^c /\ d > 0 /\ 2^divctr = 2 * d
    BY <2>1, PowerDoubles
  <2>6. PICK k \in Nat : k = 2^u /\ k > 0 /\ 2^(2 * Width - c) = 2 * k
    BY <2>4, PowerDoubles
  <2>7. WordSize = (2 * d) * k
    <3>1. 2^(divctr + u) = 2^divctr * 2^u
      BY <1>1, PowersMultiply
    <3> QED
      BY <2>4, <2>5, <2>6, <3>1, Zenon DEF WordSize
  <2>8. PICK b \in ByteValues, n \in WordValues, h \in 0 .. k - 1, y \in 0 .. 2 * d - 1 :
          /\ want.rddiv = Quotient(n, b) /\ want.rdmpy = Remainder(n, b)
          /\ shift = b * (2 * d) /\ n = h * shift + rdmpy
          /\ b > 0 => rdmpy < shift
          /\ b = 0 => h = k - 1
          /\ rddiv = y * k + h
    BY <2>3, <2>5, <2>6 DEF Dividing
  <2>9. b \in Nat /\ n \in Nat
    BY Sizes DEF ByteValues, WordValues
  <2>10. PICK s \in Nat : s = b * d /\ shift = 2 * s
    BY <2>8, <2>9
  <2>11. PICK z \in 0 .. d - 1 : ((2 * rddiv) % WordSize) = z * (2 * k) + 2 * h
    <3>1. \E z \in 0 .. d - 1 : (2 * rddiv) % ((2 * d) * k) = z * (2 * k) + 2 * h
      <4>1. rddiv = y * k + h /\ d \in Nat \ {0} /\ k \in Nat \ {0}
        BY <2>5, <2>6, <2>8
      <4>2. \E z \in 0 .. d - 1 : (2 * (y * k + h)) % ((2 * d) * k) = z * (2 * k) + 2 * h
        BY <4>1, DivArithmetic, Zenon
      <4> QED
        BY <4>1, <4>2, Zenon
    <3> QED
      BY <2>7, <3>1, Zenon
  <2>12. /\ shift' = s /\ mpyctr' = 0 /\ divctr' = c
         /\ rdmpy >= s => rddiv' = ((2 * rddiv) % WordSize) + 1 /\ rdmpy' = rdmpy - s
         /\ ~(rdmpy >= s) => rddiv' = ((2 * rddiv) % WordSize) /\ rdmpy' = rdmpy
    <3>1. shift \div 2 = s
      BY <2>10
    <3> QED
      BY <1>1, <1>3, <2>1, <3>1, StepOfQuotient
  <2>13. PICK i \in 0 .. 2 * k - 1 :
           /\ rdmpy' \in Nat /\ n = i * s + rdmpy'
           /\ b > 0 => rdmpy' < s
           /\ b = 0 => i = 2 * k - 1
           /\ rddiv' = z * (2 * k) + i
    <3>1. h * shift = (2 * h) * s /\ (2 * h + 1) * s = (2 * h) * s + s /\ (2 * h) * s \in Nat
      BY <2>10
    <3>2. PICK a \in Nat : a = (2 * h) * s
      BY <3>1
    <3>3. PICK v \in Int : v = z * (2 * k)
      BY <2>11
    <3>4. b = 0 => s = 0
      BY <2>5, <2>10
    <3>5. CASE rdmpy >= s
      <4>1. /\ rdmpy' = rdmpy - s /\ rddiv' = v + (2 * h + 1)
        BY <2>11, <2>12, <3>3, <3>5
      <4>2. n = (2 * h + 1) * s + rdmpy'
        BY <1>1, <2>8, <3>1, <3>2, <4>1
      <4>3. rdmpy' \in Nat /\ (b > 0 => rdmpy' < s)
        BY <1>1, <2>8, <2>10, <3>5, <4>1
      <4>4. 2 * h + 1 \in 0 .. 2 * k - 1 /\ (b = 0 => 2 * h + 1 = 2 * k - 1)
        BY <2>6, <2>8
      <4> QED
        BY <3>3, <4>1, <4>2, <4>3, <4>4
    <3>6. CASE ~(rdmpy >= s)
      <4>1. /\ rdmpy' = rdmpy /\ rddiv' = v + 2 * h
        BY <2>11, <2>12, <3>3, <3>6
      <4>2. n = (2 * h) * s + rdmpy'
        BY <1>1, <2>8, <3>1, <3>2, <4>1
      <4>3. rdmpy' \in Nat /\ rdmpy' < s
        BY <1>1, <3>6, <4>1
      <4>4. 2 * h \in 0 .. 2 * k - 1 /\ b # 0
        BY <1>1, <3>4, <3>6, <2>6, <2>8
      <4> QED
        BY <3>3, <4>1, <4>2, <4>3, <4>4
    <3> QED
      BY <3>5, <3>6
  <2>14. /\ want'.rddiv = Quotient(n, b) /\ want'.rdmpy = Remainder(n, b)
         /\ shift' = b * 2^(divctr') /\ n = i * shift' + rdmpy'
         /\ b > 0 => rdmpy' < shift'
         /\ b = 0 => i = 2^(2 * Width - divctr') - 1
         /\ rddiv' = z * 2^(2 * Width - divctr') + i
         /\ i \in 0 .. 2^(2 * Width - divctr') - 1 /\ z \in 0 .. 2^(divctr') - 1
    BY <2>5, <2>6, <2>8, <2>10, <2>12, <2>13
  <2>15. divctr' \in 0 .. 2 * Width
    BY <1>1, <2>1, <2>12
  <2> QED
    BY <2>12, <2>13, <2>14, <2>15 DEF Dividing, ByteValues, WordValues, WordSize, Quotient, Remainder
<1> QED
  BY <1>1, <1>2, <1>3
LEMMA StepAluInv ==
  ASSUME AluInv, AluStep, UNCHANGED <<operands, want>>
  PROVE  AluInv'
<1>1. CountersInv'
  BY CountersStep DEF AluInv
<1>2. want' = want /\ wrmpya' = wrmpya /\ wrdiva' = wrdiva
  BY DEF operands
<1>3. AluTypes'
  <2>1. rddiv' \in WordValues
    BY StepTypes DEF AluInv
  <2> QED
    BY <1>2, <2>1 DEF AluInv, AluTypes, ByteValues, WordValues, WordSize
<1>4. ASSUME ~want'.spoilt PROVE Multiplying' \/ Dividing'
  <2>1. Multiplying \/ Dividing
    BY <1>2, <1>4 DEF AluInv, InProgress
  <2> QED
    BY <1>2, <2>1, StepMultiplies, StepDivides DEF AluInv
<1> QED
  BY <1>1, <1>3, <1>4 DEF AluInv, InProgress

\* A trigger that comes while the ALU is busy spoils the operation.
LEMMA RefusedSpoils ==
  ASSUME AluTypes, want' = [want EXCEPT !.spoilt = TRUE]
  PROVE  want' \in [rddiv : Nat, rdmpy : Nat, spoilt : BOOLEAN] /\ InProgress'
BY DEF AluTypes, InProgress

LEMMA MultiplierStarts ==
  ASSUME AluInv, NEW b \in Factors, WriteMultiplier(b)
  PROVE  AluTypes' /\ InProgress'
<1>1. b \in Nat /\ b <= 2^Width - 1 /\ wrmpya \in Nat /\ wrmpya <= 2^Width - 1
  BY Sizes, MulDivAssumption DEF AluInv, AluTypes, ByteValues
<1>2. wrmpya' \in ByteValues /\ wrdiva' \in WordValues /\ divctr' = divctr
  BY DEF WriteMultiplier, operands, AluInv, AluTypes, ByteValues, WordValues, WordSize
<1>3. CASE Refused
  <2>1. want' = [want EXCEPT !.spoilt = TRUE] /\ rddiv' = rddiv
    BY <1>3 DEF WriteMultiplier
  <2> QED
    BY <1>2, <2>1, RefusedSpoils DEF AluInv, AluTypes, WordValues, WordSize
<1>4. CASE ~Refused
  <2>1. /\ rddiv' = b * 2^Width + wrmpya /\ rdmpy' = 0 /\ mpyctr' = Width /\ shift' = b
        /\ want' = [rddiv |-> b, rdmpy |-> b * wrmpya, spoilt |-> FALSE]
    BY <1>4 DEF WriteMultiplier
  <2>2. divctr' = 0
    BY <1>2, <1>4 DEF Refused, AluBusy, AluInv, CountersInv
  <2>3. b * wrmpya \in Nat /\ b * wrmpya < WordSize /\ b * 2^Width + wrmpya \in 0 .. WordSize - 1
    <3>1. PICK e \in Nat : e = 2^Width /\ e > 0 /\ WordSize = e * e
      BY Sizes
    <3>2. PICK a \in Nat : a = wrmpya /\ a <= e - 1
      BY <1>1, <3>1
    <3>3. b * e <= (e - 1) * e /\ b * a <= (e - 1) * e /\ (e - 1) * e = e * e - e
      BY <1>1, <3>1, <3>2
    <3>4. b * e \in Nat /\ b * a \in Nat /\ e * e \in Nat
      BY <1>1
    <3>5. b * a < e * e /\ b * e + a \in 0 .. e * e - 1
      <4> DEFINE ba == b * a
                 be == b * e
                 ee == e * e
      <4>1. be <= ee - e /\ ba <= ee - e /\ be \in Nat /\ ba \in Nat /\ ee \in Nat
        BY <3>3, <3>4
      <4> HIDE DEF ba, be, ee
      <4>2. ba < ee /\ be + a \in 0 .. ee - 1
        BY <3>1, <3>2, <4>1
      <4> QED
        BY <4>2 DEF ba, be, ee
    <3> QED
      BY <3>1, <3>2, <3>4, <3>5
  <2>4. AluTypes'
    BY <1>1, <1>2, <2>1, <2>3 DEF AluTypes, WordValues, WordSize
  <2>5. /\ wrmpya \in 0 .. 2^(mpyctr') - 1
        /\ rddiv' = want'.rddiv * 2^(mpyctr') + wrmpya
        /\ rdmpy' + shift' * wrmpya = want'.rdmpy
    BY <1>1, <2>1, <2>3, Sizes
  <2>6. \E x \in 0 .. 2^(mpyctr') - 1 :
          rddiv' = want'.rddiv * 2^(mpyctr') + x /\ rdmpy' + shift' * x = want'.rdmpy
    BY <2>5
  <2>7. mpyctr' \in 0 .. Width /\ rdmpy' \in Nat /\ shift' \in Nat /\ want'.rdmpy < WordSize
    BY <1>1, <2>1, <2>3, Sizes
  <2>8. Multiplying'
    BY <2>2, <2>6, <2>7 DEF Multiplying, WordSize
  <2> QED
    BY <2>4, <2>8 DEF InProgress
<1> QED
  BY <1>3, <1>4

LEMMA DivisorStarts ==
  ASSUME AluInv, NEW b \in Factors, WriteDivisor(b)
  PROVE  AluTypes' /\ InProgress'
<1>1. /\ b \in ByteValues /\ b \in Nat /\ wrdiva \in WordValues /\ wrdiva \in Nat /\ wrdiva < WordSize
      /\ rddiv \in WordValues /\ rddiv \in Nat /\ rddiv < WordSize
  BY Sizes, MulDivAssumption DEF AluInv, AluTypes, ByteValues, WordValues
<1>2. /\ wrmpya' \in ByteValues /\ wrdiva' \in WordValues /\ rddiv' \in WordValues
      /\ mpyctr' = mpyctr /\ rdmpy' = wrdiva /\ rddiv' = rddiv
  BY DEF WriteDivisor, operands, AluInv, AluTypes, ByteValues, WordValues, WordSize
<1>3. CASE Refused
  <2>1. want' = [want EXCEPT !.spoilt = TRUE]
    BY <1>3 DEF WriteDivisor
  <2>2. want' \in [rddiv : Nat, rdmpy : Nat, spoilt : BOOLEAN] /\ InProgress'
    BY <2>1, RefusedSpoils DEF AluInv
  <2> QED
    BY <1>2, <2>2 DEF AluTypes
<1>4. CASE ~Refused
  <2> DEFINE n == wrdiva
  <2>1. /\ divctr' = 2 * Width /\ shift' = b * WordSize
        /\ want' = [rddiv |-> Quotient(n, b), rdmpy |-> Remainder(n, b), spoilt |-> FALSE]
    BY <1>4 DEF WriteDivisor
  <2>2. mpyctr' = 0
    BY <1>2, <1>4 DEF Refused, AluBusy, AluInv, CountersInv
  <2>3. Quotient(n, b) \in Nat /\ Remainder(n, b) \in Nat
    <3>1. CASE b = 0
      BY <1>1, <3>1, Sizes DEF Quotient, Remainder
    <3>2. CASE b > 0
      BY <1>1, <3>2 DEF Quotient, Remainder
    <3> QED
      BY <1>1, <3>1, <3>2
  <2>4. AluTypes'
    BY <1>2, <2>1, <2>3 DEF AluTypes
  <2>5. 2^(divctr') = WordSize /\ 2 * Width - divctr' = 0 /\ 2^(2 * Width - divctr') = 1
    <3>1. divctr' = 2 * Width /\ 2 * Width - divctr' = 0
      BY <2>1, Sizes
    <3>2. 2^0 = 1
      OBVIOUS
    <3> QED
      BY <3>1, <3>2 DEF WordSize
  <2>6. b > 0 => n < b * WordSize
    <3> SUFFICES ASSUME b > 0 PROVE n < b * WordSize
      OBVIOUS
    <3>1. b * WordSize >= WordSize
      BY <1>1, Sizes
    <3> QED
      BY <1>1, <3>1, Sizes
  <2>7. /\ want'.rddiv = Quotient(n, b) /\ want'.rdmpy = Remainder(n, b)
        /\ shift' = b * 2^(divctr') /\ n = 0 * shift' + rdmpy'
        /\ b > 0 => rdmpy' < shift'
        /\ b = 0 => 0 = 2^(2 * Width - divctr') - 1
        /\ rddiv' = rddiv * 2^(2 * Width - divctr') + 0
        /\ 0 \in 0 .. 2^(2 * Width - divctr') - 1 /\ rddiv \in 0 .. 2^(divctr') - 1
    <3>1. b * WordSize \in Nat
      BY <1>1, Sizes
    <3>2. n = 0 * shift' + rdmpy'
      BY <1>1, <1>2, <2>1, <3>1
    <3>3. rddiv' = rddiv * 2^(2 * Width - divctr') + 0 /\ 0 \in 0 .. 2^(2 * Width - divctr') - 1
      BY <1>1, <1>2, <2>5
    <3>4. rddiv \in 0 .. 2^(divctr') - 1
      BY <1>1, <2>5, Sizes
    <3> QED
      BY <1>2, <2>1, <2>5, <2>6, <3>2, <3>3, <3>4
  <2>8. divctr' \in 0 .. 2 * Width /\ rdmpy' \in Nat
    BY <1>1, <1>2, <2>1, Sizes
  <2>9. Dividing'
    BY <1>1, <2>2, <2>7, <2>8 DEF Dividing, ByteValues, WordValues, WordSize, Quotient, Remainder
  <2> QED
    BY <2>4, <2>9 DEF InProgress
<1> QED
  BY <1>3, <1>4

\* Operands and the phase of a write do not matter to the operation.
LEMMA AluAtRest ==
  ASSUME AluInv, UNCHANGED <<rddiv, rdmpy, mpyctr, divctr, shift, want>>,
         wrmpya' \in ByteValues, wrdiva' \in WordValues
  PROVE  AluInv'
<1>1. CountersInv'
  BY Zenon DEF AluInv, CountersInv, OneOperation
<1>2. AluTypes'
  <2>1. rddiv' = rddiv /\ want' = want
    OBVIOUS
  <2>2. rddiv \in WordValues /\ want \in [rddiv : Nat, rdmpy : Nat, spoilt : BOOLEAN]
    BY DEF AluInv, AluTypes
  <2> QED
    BY <2>1, <2>2, Zenon DEF AluTypes, ByteValues, WordValues, WordSize
<1>3. Multiplying => Multiplying'
  BY ZenonT(40) DEF Multiplying, ByteValues
<1>4. Dividing => Dividing'
  BY ZenonT(40) DEF Dividing, ByteValues, WordValues, WordSize, Quotient, Remainder
<1> QED
  BY <1>1, <1>2, <1>3, <1>4 DEF AluInv, InProgress

LEMMA AluInvNext == AluInv /\ [AluNext]_aluVars => AluInv'
<1> SUFFICES ASSUME AluInv, [AluNext]_aluVars PROVE AluInv'
  OBVIOUS
<1>1. CASE ReadCycle \/ WriteEdge
  BY <1>1, StepAluInv DEF ReadCycle, WriteEdge
<1>2. ASSUME NEW b \in Factors, WriteMultiplier(b) \/ WriteDivisor(b)
      PROVE  AluInv'
  <2>1. CountersInv'
    BY <1>2, CountersNext DEF AluInv, AluNext
  <2> QED
    BY <1>2, <2>1, MultiplierStarts, DivisorStarts DEF AluInv
<1>3. ASSUME NEW b \in Factors, NEW n \in Dividends, WriteOperands(b, n)
      PROVE  AluInv'
  <2>1. /\ UNCHANGED <<rddiv, rdmpy, mpyctr, divctr, shift, want>>
        /\ wrmpya' \in ByteValues /\ wrdiva' \in WordValues
    BY <1>3, MulDivAssumption DEF WriteOperands
  <2> QED
    BY <2>1, AluAtRest
<1>4. CASE WriteElsewhere \/ UNCHANGED aluVars
  <2>1. UNCHANGED <<wrmpya, wrdiva, rddiv, rdmpy, mpyctr, divctr, shift, want>>
    BY <1>4 DEF WriteElsewhere, aluVars, operands
  <2>2. wrmpya \in ByteValues /\ wrdiva \in WordValues
    BY DEF AluInv, AluTypes
  <2> QED
    BY <2>1, <2>2, AluAtRest
<1> QED
  BY <1>1, <1>2, <1>3, <1>4 DEF AluNext

\* An operation is over: its registers hold the product, or quotient and remainder.
LEMMA AluInvExact == AluInv => ExactResult
<1> SUFFICES ASSUME AluInv, mpyctr = 0, divctr = 0, ~want.spoilt
             PROVE  rddiv = want.rddiv /\ rdmpy = want.rdmpy
  BY DEF ExactResult, AluBusy, AluInv, CountersInv
<1>1. 2^0 = 1
  OBVIOUS
<1>2. want.rddiv \in Nat /\ want.rdmpy \in Nat /\ (Multiplying \/ Dividing)
  BY DEF AluInv, AluTypes, InProgress
<1>3. CASE Multiplying
  <2>1. PICK x \in 0 .. 2^0 - 1 :
          rddiv = want.rddiv * 2^0 + x /\ rdmpy + shift * x = want.rdmpy
    BY <1>3 DEF Multiplying
  <2>2. x = 0 /\ rdmpy \in Nat /\ shift \in Nat
    BY <1>1, <1>3, <2>1 DEF Multiplying
  <2> QED
    BY <1>1, <1>2, <2>1, <2>2
<1>4. CASE Dividing
  <2>1. Width \in Nat /\ 2 * Width - divctr = 2 * Width /\ 2^(2 * Width) = WordSize /\ WordSize \in Nat
    BY Sizes DEF WordSize
  <2>2. PICK b \in ByteValues, n \in WordValues, h \in 0 .. WordSize - 1, y \in 0 .. 1 - 1 :
          /\ want.rddiv = Quotient(n, b) /\ want.rdmpy = Remainder(n, b)
          /\ shift = b * 1 /\ n = h * shift + rdmpy
          /\ b > 0 => rdmpy < shift
          /\ b = 0 => h = WordSize - 1
          /\ rddiv = y * WordSize + h
    BY <1>1, <1>4, <2>1 DEF Dividing
  <2>3. b \in Nat /\ n \in Nat /\ h \in Nat /\ y = 0 /\ rdmpy \in Nat
    BY <1>4, <2>1, Sizes DEF ByteValues, WordValues, Dividing
  <2>4. rddiv = h /\ shift = b
    BY <2>1, <2>2, <2>3
  <2>5. CASE b = 0
    <3>1. n = rdmpy
      BY <2>2, <2>3, <2>4, <2>5
    <3> QED
      BY <2>2, <2>4, <2>5, <3>1 DEF Quotient, Remainder
  <2>6. CASE b > 0
    <3>1. PICK r \in 0 .. b - 1 : r = rdmpy /\ n = h * b + r
      BY <2>2, <2>3, <2>4, <2>6
    <3>2. n \div b = h /\ (n % b) = r
      BY <2>3, <2>6, <3>1
    <3> QED
      BY <2>2, <2>4, <2>6, <3>1, <3>2 DEF Quotient, Remainder
  <2> QED
    BY <2>3, <2>5, <2>6
<1> QED
  BY <1>2, <1>3, <1>4

\* For registers of any width, and whatever cycles, refreshes and writes of operands come
\* between its steps, an operation that no second trigger has spoilt ends with the product,
\* or with quotient and remainder, division by 0 included (CpuIoRegisters::AluStep).
THEOREM ResultsAreExact == AluSpec => []ExactResult
<1>1. AluInit => AluInv
  <2> SUFFICES ASSUME AluInit PROVE AluInv
    OBVIOUS
  <2>1. AluTypes
    BY Sizes DEF AluInit, AluTypes, ByteValues, WordValues, Nothing
  <2> QED
    BY <2>1 DEF AluInit, AluInv, CountersInv, OneOperation, InProgress, Nothing
<1> QED
  BY <1>1, AluInvNext, AluInvExact, PTL DEF AluSpec
=============================================================================
