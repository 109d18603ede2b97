----------------------------- MODULE AudioMix -----------------------------
(***************************************************************************)
(* The audio of a frame (Emulator::StepFrame and AdvanceClocks,            *)
(* core/src/system/Emulator.cpp; the end of Dsp::Tick): the DSP writes its *)
(* samples into the frame's buffer, the bus phase they fall in mixes the   *)
(* MSU-1 into them and drains a full buffer into the overflow, and the end *)
(* of the frame submits both.  A frame ends with an instruction, and a DMA *)
(* operation may hold that up for several fields.  A sample is its number. *)
(***************************************************************************)
EXTENDS Integers, Sequences

CONSTANTS
  BufSamples,  \* kAudioBufSamples
  PhaseSamples, \* a bound on the samples of a bus phase: 1, as a phase and its refresh
               \* take at most 52 of a sample's 671 clocks
  MaxSamples   \* a bound on the samples of one StepFrame

\* What the constants are to satisfy.
ASSUME AudioMixAssumption ==
  BufSamples \in Nat \ {0} /\ PhaseSamples \in 0 .. 1 /\ MaxSamples \in Nat

VARIABLES
  attached,    \* audioOutput_
  stepping,    \* in StepFrame's loop; collectingAudio_ is this and attached
  buffer,      \* audioBuf_: [sample, mixes] up to SamplesWritten()
  overflow,    \* audioOverflow_
  made,        \* history: the samples the DSP has made in this StepFrame
  submitted    \* what the output was given for the last frame, and what it should have been

mixVars == <<attached, stepping, buffer, overflow, made, submitted>>

MixInit ==
  /\ attached \in BOOLEAN
  /\ stepping = FALSE /\ buffer = <<>> /\ overflow = <<>>
  /\ made = 0 /\ submitted = [got |-> <<>>, made |-> 0]

\* StepFrame, before its loop.
BeginFrame ==
  /\ ~stepping
  /\ overflow' = <<>> /\ buffer' = <<>>
  /\ stepping' = TRUE
  /\ made' = 0
  /\ UNCHANGED <<attached, submitted>>

Numbers(first, count) == [i \in 1 .. count |-> [sample |-> first + i, mixes |-> 0]]

\* Dsp::Tick drops what the buffer has no room for.
Written(count) ==
  LET room == BufSamples - Len(buffer)
  IN  buffer \o Numbers(made, IF count < room THEN count ELSE room)

Mix(buf, first) ==
  [i \in DOMAIN buf |-> IF i > first THEN [buf[i] EXCEPT !.mixes = @ + 1] ELSE buf[i]]

\* AdvanceClocks: the samples of one bus phase.
AdvanceClocks(count) ==
  /\ stepping
  /\ made + count <= MaxSamples
  /\ made' = made + count
  /\ LET mixed == Mix(Written(count), Len(buffer))
     IN  IF Len(mixed) = BufSamples
         THEN /\ buffer' = <<>>
              /\ overflow' = IF attached THEN overflow \o mixed ELSE overflow
         ELSE buffer' = mixed /\ UNCHANGED overflow
  /\ UNCHANGED <<attached, stepping, submitted>>

\* Mutant: only the buffer is submitted.
SubmissionWithoutOverflow == buffer

Submission == overflow \o buffer

\* The loop of StepFrame ends: the instruction that reached the next frame is over.
EndFrame ==
  /\ stepping
  /\ stepping' = FALSE
  /\ submitted' = IF attached THEN [got |-> Submission, made |-> made] ELSE submitted
  /\ made' = 0
  /\ UNCHANGED <<attached, buffer, overflow>>

MixNext ==
  BeginFrame \/ EndFrame \/ \E count \in 0 .. PhaseSamples : AdvanceClocks(count)

MixSpec == MixInit /\ [][MixNext]_mixVars

-----------------------------------------------------------------------------
\* The output gets every sample of the frame once and in order, each mixed with
\* the MSU-1 once, however far a DMA operation overran the frame; and none is
\* left to be mixed after its bus phase, when a write may change the MSU-1.
AudioComplete ==
  /\ submitted.got = [i \in 1 .. submitted.made |-> [sample |-> i, mixes |-> 1]]
  /\ \A i \in DOMAIN buffer : buffer[i].mixes = 1
=============================================================================
