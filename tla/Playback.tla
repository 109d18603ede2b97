----------------------------- MODULE Playback -----------------------------
(***************************************************************************)
(* The frontend's loop (main.cpp), its audio queue (SdlAudioOutput.cpp)    *)
(* and its picture clock (FramePacer.hpp), against an audio device that    *)
(* drains the queue in its own time and a host that may stall the loop for *)
(* any time.  Time is counted from the last picture and to the deadline,   *)
(* in quarters of a frame.  The queue's slow correction of the period,     *)
(* half a percent at most, is left out.                                    *)
(***************************************************************************)
EXTENDS Integers

CONSTANTS
  Target,  \* 40 ms: targetQueuedBytes_
  High,    \* 80 ms: the loop waits from here
  Frames,  \* what a StepFrame may submit
  Kept,    \* input frames SDL retains for its resampler
  Late     \* a bound on the time a stall is told apart to

\* What the constants are to satisfy.
PlaybackAssumption ==
  /\ {Target, High, Kept} \subseteq Nat /\ Frames \subseteq Nat \ {0}
  /\ Kept < Target /\ Target < High

VARIABLES
  queued,            \* SDL's queue
  device,            \* the SDL device runs
  playing, requested,  \* playing_, playbackRequested_
  pacer,             \* active_, and deadline_ - now
  picture,           \* picturePending
  since,             \* history: the time since a picture was shown
  steady             \* history: the picture shown last and the next share a schedule

vars == <<queued, device, playing, requested, pacer, picture, since, steady>>

Period == 4
Quarter == 1

\* The loop is entered after Resume with an empty queue.
Init ==
  /\ queued = 0 /\ device = FALSE /\ playing = FALSE /\ requested = TRUE
  /\ pacer = [active |-> FALSE, left |-> 0]
  /\ picture = FALSE /\ since = Late /\ steady = FALSE

Reset == [pacer EXCEPT !.active = FALSE]

-----------------------------------------------------------------------------
\* SDL_GetAudioStreamAvailable.
Available == IF queued > Kept THEN queued - Kept ELSE 0

\* Submit after a stall: the device is paused until a fresh buffer is collected.
Stalled == playing /\ Available = 0

\* Mutant: the stall pauses the device and not the flag.
PlayingAfterStallKept == playing

PlayingAfterStall == playing /\ ~Stalled

\* Submit and StartIfReady.
Submit(frames) ==
  LET starts == requested /\ ~PlayingAfterStall /\ queued + frames >= Target
  IN  /\ queued' = queued + frames
      /\ playing' = (PlayingAfterStall \/ starts)
      /\ device' = ((device /\ ~Stalled) \/ starts)

\* FramePacer::Schedule.
Schedule ==
  IF ~pacer.active THEN [active |-> TRUE, left |-> 0]
  ELSE [pacer EXCEPT !.left = IF pacer.left + Period < 0 THEN 0 ELSE @ + Period]

\* A pass of the loop that runs a frame.
StepFrame(frames) ==
  /\ ~picture
  /\ ~(playing /\ queued >= High)
  /\ Submit(frames)
  /\ IF playing'
     THEN /\ pacer' = Schedule
          /\ picture' = TRUE
          /\ steady' = (pacer.active /\ steady)
     ELSE /\ pacer' = Reset
          /\ picture' = FALSE
          /\ steady' = FALSE
  /\ UNCHANGED <<requested, since>>

\* One that waits for the queue to drain.
HoldBack ==
  /\ ~picture /\ playing /\ queued >= High
  /\ pacer' = Reset
  /\ steady' = FALSE
  /\ UNCHANGED <<queued, device, playing, requested, picture, since>>

\* FramePacer::Presented.
Presented == IF -pacer.left > Quarter THEN [pacer EXCEPT !.left = 0] ELSE pacer

\* One that shows the picture when its time has come.
Present ==
  /\ picture /\ pacer.left <= 0
  /\ picture' = FALSE
  /\ pacer' = Presented
  /\ since' = 0 /\ steady' = TRUE
  /\ UNCHANGED <<queued, device, playing, requested>>

\* Time passes, in the loop's waits or when the host stalls it.
Tick ==
  /\ pacer' = [pacer EXCEPT !.left = IF @ = -Late THEN @ ELSE @ - 1]
  /\ since' = IF since = Late THEN since ELSE since + 1
  /\ UNCHANGED <<queued, device, playing, requested, picture, steady>>

\* External: the device takes samples from the queue.
Drain ==
  /\ device /\ Available > 0
  /\ queued' = queued - 1
  /\ UNCHANGED <<device, playing, requested, pacer, picture, since, steady>>

Loop == Present \/ HoldBack \/ \E frames \in Frames : StepFrame(frames)

Next == Loop \/ Tick \/ Drain

\* The host lets the loop run and time pass, and a running device plays.
Fairness == WF_vars(Present) /\ WF_vars(\E f \in Frames : StepFrame(f))
            /\ WF_vars(Tick) /\ WF_vars(Drain)

Spec == Init /\ [][Next]_vars /\ Fairness

-----------------------------------------------------------------------------
Waiting == picture
Shown == ~picture

\* The loop never waits for a queue that nobody drains: after stalls, underruns
\* and refills, pictures go on being shown.
PicturesGoOn == []<>Waiting /\ []<>Shown

Spaced == Present /\ steady => since >= Period - Quarter

\* Two pictures of one schedule are at least three quarters of a frame apart: a
\* late picture does not make the next ones follow in a burst.
PicturesSpaced == [][Spaced]_vars
=============================================================================
