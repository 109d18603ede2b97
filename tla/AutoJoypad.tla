----------------------------- MODULE AutoJoypad -----------------------------
(***************************************************************************)
(* Automatic and manual reading of a controller: AutoJoypad                *)
(* (core/src/io/AutoJoypad.cpp), the gamepad of one port of                *)
(* ControllerPorts (ControllerPorts.cpp), and the copies CpuIoRegisters    *)
(* answers the program from (onJoypadPoll in Emulator.cpp).  The second    *)
(* port and the second wire of a port behave alike.                        *)
(*                                                                         *)
(* A frame is seen from the start of VBlank: tick is the number of joypad  *)
(* ticks since then, every 128 clocks, the first of them at clock phase of *)
(* the line.                                                               *)
(***************************************************************************)
EXTENDS Naturals, Sequences

CONSTANTS
  Bits,     \* buttons of a packet: 16
  Packets,  \* what the input callback may answer: sequences of Bits bits
  Phases,   \* clock of the first tick of VBlank
  Ticks     \* ticks of a frame that are counted; the others do nothing

Done == 2 * Bits + 1   \* 33: not polling

\* What the constants are to satisfy.
ASSUME JoypadAssumption ==
  /\ Bits \in Nat \ {0}
  /\ Packets \subseteq [1 .. Bits -> {0, 1}] /\ Packets # {}
  /\ Phases \subseteq {p \in 0 .. 127 : p % 2 = 0}
  /\ Ticks \in Nat /\ Ticks > Done + 4

VARIABLES
  poll,         \* autoJoypadPoll_
  counter,      \* counter_
  div256,       \* div256_
  manualLatch, autoLatch,
  latch,        \* ControllerPorts::latch_
  pad,          \* pads[0]: the packet the last rise of the latch took
  taken,        \* positions[0]: bits shifted out
  wire,         \* port1Data_
  joy,          \* joy1_, the most significant bit first
  copy,         \* CpuIoRegisters: its counter, its joy1
  tick, phase,
  start,        \* history: the packet taken when polling started, how many
                \* polls this VBlank has started, and whether the program has
                \* since left the port and $4200 alone ("clean")
  asked         \* history: polling has been enabled since VBlank began

port == <<latch, pad, taken>>
clockVars == <<tick, phase>>
vars == <<poll, counter, div256, manualLatch, autoLatch, port, wire, joy, copy,
          clockVars, start, asked>>

Zeros == [n \in 1 .. Bits |-> 0]

Init ==
  /\ poll = FALSE /\ counter = Done /\ div256 = FALSE
  /\ manualLatch = FALSE /\ autoLatch = FALSE
  /\ latch = FALSE /\ pad = Zeros /\ taken = 0
  /\ wire = 0 /\ joy = Zeros
  /\ copy = [counter |-> Done, joy |-> Zeros]
  /\ tick = 0 /\ phase \in Phases
  /\ start = [packet |-> Zeros, polls |-> 0, clean |-> FALSE]
  /\ asked = FALSE

-----------------------------------------------------------------------------
(***************************************************************************)
(* The port.                                                               *)
(***************************************************************************)
\* SetLatch: a rise takes a new packet and goes back to its first bit.
SetLatch(high) ==
  /\ latch' = high
  /\ IF high /\ ~latch THEN pad' \in Packets /\ taken' = 0
                       ELSE UNCHANGED <<pad, taken>>

\* Read: 1s follow the packet, and the position stops at twice its length.
ReadBit == IF latch THEN pad[1] ELSE IF taken < Bits THEN pad[taken + 1] ELSE 1

NextBit == IF latch \/ taken = 2 * Bits THEN taken ELSE taken + 1

ShiftPort ==
  /\ taken' = NextBit
  /\ UNCHANGED <<latch, pad>>

-----------------------------------------------------------------------------
(***************************************************************************)
(* Tick128 and the copies made after it.                                   *)
(***************************************************************************)
\* The position of the tick, on line V = vdisp while below its 1364 clocks.
Clocks == phase + 128 * tick

\* Mutant: the divider by 256 is not looked at.
StartsAtAny(x, aligned) == x < 1364 /\ x >= 130 /\ x <= 384

StartsAt(x, aligned) == x < 1364 /\ aligned /\ x >= 130 /\ x <= 384

\* What counter c does, polling being enabled or not; the port's latch falls at
\* counter 1 even if polling was disabled, and only then.
Latched(c) ==
  /\ IF poll
     THEN /\ SetLatch(TRUE) /\ autoLatch' = TRUE
          /\ joy' = Zeros /\ counter' = c
     ELSE /\ counter' = Done
          /\ UNCHANGED <<port, autoLatch, joy>>
  /\ UNCHANGED wire

\* The level counter 1 gives the line.
ReleasedLevel == manualLatch

Released(c) ==
  /\ autoLatch' = FALSE /\ SetLatch(ReleasedLevel)
  /\ counter' = c
  /\ UNCHANGED <<wire, joy>>

Aborted ==
  /\ counter' = Done
  /\ UNCHANGED <<port, autoLatch, wire, joy>>

Sampled(c) ==
  /\ wire' = ReadBit /\ ShiftPort
  /\ counter' = c
  /\ UNCHANGED <<autoLatch, joy>>

\* The register with the bit on the wire in it.
ShiftedLeft == Append(Tail(joy), wire)

Shifted(c) ==
  /\ joy' = ShiftedLeft
  /\ counter' = c
  /\ UNCHANGED <<port, autoLatch, wire>>

Step(c) ==
  \/ c = 0 /\ Latched(c)
  \/ c = 1 /\ Released(c)
  \/ c > 1 /\ ~poll /\ Aborted
  \/ c > 1 /\ poll /\ c % 2 = 0 /\ Sampled(c)
  \/ c > 1 /\ poll /\ c % 2 = 1 /\ Shifted(c)

Resting == UNCHANGED <<port, autoLatch, wire, joy, counter>>

Twice(n) == IF n < 2 THEN n + 1 ELSE 2

Tick128 ==
  /\ tick < Ticks
  /\ div256' = ~div256
  /\ LET starts == StartsAt(Clocks, div256')
     IN  /\ IF starts THEN Step(0)
            ELSE IF counter < Done THEN Step(counter + 1)
            ELSE Resting
         /\ start' = IF starts /\ poll
                     THEN [packet |-> pad', polls |-> Twice(start.polls),
                           clean |-> ~manualLatch]
                     ELSE start
  /\ copy' = [counter |-> counter', joy |-> joy']
  /\ tick' = tick + 1
  /\ UNCHANGED <<poll, manualLatch, phase, asked>>

\* The rest of the frame; the parity of its ticks is what is left of them.
FrameBegin ==
  /\ tick = Ticks
  /\ counter' = Done /\ autoLatch' = FALSE /\ SetLatch(manualLatch)
  /\ div256' \in BOOLEAN
  /\ tick' = 0 /\ phase' \in Phases
  /\ start' = [start EXCEPT !.polls = 0, !.clean = FALSE]
  /\ asked' = poll
  /\ UNCHANGED <<poll, manualLatch, wire, joy, copy>>

-----------------------------------------------------------------------------
(***************************************************************************)
(* The program.                                                            *)
(***************************************************************************)
\* $4200, bit 0: SetAutoJoypadPoll aborts a poll past its latch.
WriteNmitimen(on) ==
  /\ poll' = on
  /\ counter' = IF ~on /\ counter >= 2 THEN Done ELSE counter
  /\ start' = [start EXCEPT !.clean = @ /\ on]
  /\ asked' = (asked /\ on)
  /\ UNCHANGED <<div256, manualLatch, autoLatch, port, wire, joy, copy, clockVars>>

\* $4016: the latch line is shared with the automatic poll.
WriteJoyser(high) ==
  /\ manualLatch' = high
  /\ SetLatch(high \/ autoLatch)
  /\ start' = [start EXCEPT !.clean = FALSE]
  /\ UNCHANGED <<poll, counter, div256, autoLatch, wire, joy, copy, clockVars, asked>>

ReadJoyser ==
  /\ ShiftPort
  /\ start' = [start EXCEPT !.clean = FALSE]
  /\ UNCHANGED <<poll, counter, div256, manualLatch, autoLatch, wire, joy, copy,
                 clockVars, asked>>

-----------------------------------------------------------------------------
Program ==
  \/ \E b \in BOOLEAN : WriteNmitimen(b) \/ WriteJoyser(b)
  \/ ReadJoyser

Next == Tick128 \/ FrameBegin \/ Program

Spec == Init /\ [][Next]_vars

-----------------------------------------------------------------------------
\* The line is high exactly while one of its two drivers holds it, and the poll
\* holds it for its first tick only, whatever the program does meanwhile.
LatchShared ==
  /\ latch <=> (manualLatch \/ autoLatch)
  /\ autoLatch => counter = 0

\* With whatever phase the ticks reach VBlank, polling starts at most once in it,
\* and exactly once if it was enabled all the time.
PollsOnce ==
  /\ start.polls <= 1
  /\ asked /\ tick > 4 => start.polls = 1

\* HVBJOY, bit 0.  Mutant: ready one tick early.
BusyShort == poll /\ copy.counter < Done - 1

Busy == poll /\ copy.counter < Done

\* A poll the program did not touch delivers the packet taken when it began, the
\* first bit in the most significant place; and a program that sees $4212 not busy
\* after it reads the whole packet, not a part of it.
PollDelivers ==
  start.clean /\ start.polls > 0 =>
    /\ counter = Done => joy = start.packet
    /\ ~Busy => copy.joy = start.packet
=============================================================================
