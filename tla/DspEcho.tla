------------------------------ MODULE DspEcho ------------------------------
(***************************************************************************)
(* The echo of class Dsp (core/src/audio/Dsp.cpp): clockEcho, with the     *)
(* registers it latches at different clocks, the ring in sound RAM and the *)
(* history the filter's eight taps read.  The sound program writes ESA,    *)
(* EDL and FLG between any two clocks.  A sample is its number, and a      *)
(* frame of the ring its age in samples; one address is one frame.         *)
(***************************************************************************)
EXTENDS Integers

CONSTANTS
  Pages,       \* what the program writes to ESA,
  PageFrames,  \* 64: the frames of a page,
  Delays,      \* what it writes to EDL
  DelayFrames  \* 512: the frames of a unit of EDL

\* A register has a largest value.
HasLargest(S) == \E m \in S : \A n \in S : n <= m

ASSUME DspEchoAssumption ==
  /\ Pages \subseteq Nat /\ 0 \in Pages /\ HasLargest(Pages)
  /\ Delays \subseteq Nat /\ 0 \in Delays /\ HasLargest(Delays)
  /\ PageFrames \in Nat \ {0} /\ DelayFrames \in Nat \ {0}

VARIABLES
  clock,   \* phase_, 31 standing for those without an echo operation
  esa, edl, disabled,  \* the registers; disabled: bit 5 of FLG
  latch,   \* echoPage, echoFlags, echoAddress
  ring,    \* echoOffset_, echoLength_
  index,   \* echoHistIdx_
  hist,    \* echoHist_: the number of each sample, modulo SampleNumbers
  number,  \* history: the number of this sample
  used,    \* history: the sample each tap of each channel has used
  age,     \* history: samples since each frame was written, NeverWritten if it was not
  steady   \* history: samples since the registers or the length last changed

echoVars == <<clock, esa, edl, disabled, latch, ring, index, hist, number, used, age, steady>>

Taps == 8
Channels == {0, 1}
SampleNumbers == 2 * Taps
None == -1

MaxOf(S) == CHOOSE m \in S : \A n \in S : n <= m

MaxLength == MaxOf(Delays) * DelayFrames

Addresses == 0 .. MaxOf(Pages) * PageFrames + MaxLength

\* Ages are told apart up to here.
NeverWritten == MaxLength + 2

Older(n) == IF n = NeverWritten THEN n ELSE n + 1

EchoInit ==
  /\ clock = 31
  /\ esa = 0 /\ edl = 0 /\ disabled = TRUE
  /\ latch = [page |-> 0, disabled |-> FALSE, address |-> 0]
  /\ ring = [offset |-> 0, length |-> 0]
  /\ index = 0 /\ number = 0
  /\ hist = [slot \in 0 .. SampleNumbers - 1 |-> [c \in Channels |-> None]]
  /\ used = [c \in Channels |-> [t \in {} |-> 0]]
  /\ age = [f \in Addresses |-> NeverWritten]
  /\ steady = 0

Registers == <<esa, edl, disabled>>

-----------------------------------------------------------------------------
(***************************************************************************)
(* The filter.                                                             *)
(***************************************************************************)
\* Mutant: one half of the doubled history is written.
ReadIntoLow(h, i, c) == [h EXCEPT ![i][c] = number]

\* readEcho, into both halves.
ReadInto(h, i, c) == [h EXCEPT ![i][c] = number, ![i + Taps][c] = number]

Slot(i, t) == i + t + 1

With(u, h, i, taps) ==
  [c \in Channels |->
     [t \in DOMAIN u[c] \cup taps |-> IF t \in taps THEN h[Slot(i, t)][c] ELSE u[c][t]]]

Filter(next, taps) ==
  /\ used' = With(used, hist', index', taps)
  /\ clock' = next
  /\ UNCHANGED <<Registers, ring, number, age, steady>>

\* Clock 22: the address of the frame that is read now and written later.
Clock22 ==
  /\ clock = 22
  /\ index' = (index + 1) % Taps
  /\ latch' = [latch EXCEPT !.address = latch.page * PageFrames + ring.offset]
  /\ hist' = ReadInto(hist, index', 0)
  /\ Filter(23, {0})

RightRead(h) == ReadInto(h, index, 1)

Clock23 ==
  /\ clock = 23
  /\ used' = With(used, hist, index, {1, 2})
  /\ hist' = RightRead(hist)
  /\ clock' = 24
  /\ UNCHANGED <<Registers, ring, latch, index, number, age, steady>>

Clock24 == clock = 24 /\ UNCHANGED <<hist, index, latch>> /\ Filter(25, {3, 4, 5})

Clock25 == clock = 25 /\ UNCHANGED <<hist, index, latch>> /\ Filter(28, {6, 7})

-----------------------------------------------------------------------------
(***************************************************************************)
(* The ring.                                                               *)
(***************************************************************************)
Clock28 ==
  /\ clock = 28
  /\ latch' = [latch EXCEPT !.disabled = disabled]
  /\ clock' = 29
  /\ UNCHANGED <<Registers, ring, index, hist, number, used, age, steady>>

\* A new length counts from the ring's start.
Length == IF ring.offset = 0 THEN edl * DelayFrames ELSE ring.length

WriteEcho(frame, off) == IF off THEN age ELSE [age EXCEPT ![frame] = 0]

Clock29 ==
  /\ clock = 29
  /\ ring' = [offset |-> IF ring.offset + 1 >= Length THEN 0 ELSE ring.offset + 1,
              length |-> Length]
  /\ age' = WriteEcho(latch.address, latch.disabled)
  /\ latch' = [latch EXCEPT !.page = esa, !.disabled = disabled]
  /\ steady' = IF Length # ring.length \/ esa # latch.page THEN 0 ELSE steady
  /\ clock' = 30
  /\ UNCHANGED <<Registers, index, hist, number, used>>

\* The right channel of the same frame.
Clock30 ==
  /\ clock = 30
  /\ age' = WriteEcho(latch.address, latch.disabled)
  /\ clock' = 31
  /\ UNCHANGED <<Registers, latch, ring, index, hist, number, used, steady>>

\* The next sample.
Clock31 ==
  /\ clock = 31
  /\ clock' = 22
  /\ number' = (number + 1) % SampleNumbers
  /\ used' = [c \in Channels |-> [t \in {} |-> 0]]
  /\ age' = [f \in Addresses |-> Older(age[f])]
  /\ steady' = Older(steady)
  /\ UNCHANGED <<Registers, latch, ring, index, hist>>

Tick ==
  Clock22 \/ Clock23 \/ Clock24 \/ Clock25 \/ Clock28 \/ Clock29 \/ Clock30 \/ Clock31

Untouched == UNCHANGED <<clock, latch, ring, index, hist, number, used, age>>

WriteEsa(page) == esa' = page /\ UNCHANGED <<edl, disabled, steady>> /\ Untouched

WriteEdl(delay) == edl' = delay /\ UNCHANGED <<esa, disabled, steady>> /\ Untouched

WriteFlg(off) ==
  /\ disabled' = off
  /\ steady' = 0
  /\ UNCHANGED <<esa, edl>> /\ Untouched

EchoNext ==
  \/ Tick
  \/ \E page \in Pages : WriteEsa(page)
  \/ \E delay \in Delays : WriteEdl(delay)
  \/ \E off \in BOOLEAN : WriteFlg(off)

EchoSpec == EchoInit /\ [][EchoNext]_echoVars

-----------------------------------------------------------------------------
TapsInOrder ==
  clock = 28 =>
    \A c \in Channels :
      /\ DOMAIN used[c] = 0 .. Taps - 1
      /\ \A t \in 0 .. Taps - 1 :
           used[c][t] \in {None, (number + SampleNumbers - (Taps - 1 - t)) % SampleNumbers}
      /\ used[c][Taps - 1] = number

Sweep == IF ring.length = 0 THEN 1 ELSE ring.length

EchoDelay ==
  clock = 23 /\ ~disabled /\ steady \in Sweep + 1 .. NeverWritten - 1
    => age[latch.address] = Sweep

\* Over clocks 22 to 25 every tap of either channel is used once, the first with the
\* oldest of the last eight samples and the last with this one, although the right
\* channel is read when the filter has begun and the ring of the history has turned.
\* And the echo comes back after as many samples as EDL says: when the ring has been
\* written all around, what is read was written one sweep ago, whatever ESA, EDL and
\* FLG were before and at whatever clock they changed.
EchoExact == TapsInOrder /\ EchoDelay
=============================================================================
