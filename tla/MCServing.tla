----------------------------- MODULE MCServing ------------------------------
(***************************************************************************)
(* What serves the game from outside the console's buses: the SA-1's       *)
(* processor, the MSU-1, the pacing of pictures and the save files, which  *)
(* do not interact: a behaviour is one of them, the part, and the others'  *)
(* variables rest.                                                         *)
(*                                                                         *)
(* Processor: no interrupt enabled, NMI only, or all, and transfers of up  *)
(* to two bytes.  Pictures: a period of four ticks, sound of one or two    *)
(* samples a frame, three of them wanted in the queue, and a host that may *)
(* be late by two periods.  Save files: three of two contents.  MSU-1:     *)
(* tracks of one, two and three frames, a loop point beyond the end, and   *)
(* one track missing.                                                      *)
(***************************************************************************)
EXTENDS SaveFiles, Sa1Processor, Msu1

VARIABLES
  part,  \* the component this behaviour is of
  v1, v2, v3, v4, v5, v6, v7, v8  \* its variables

slots == <<v1, v2, v3, v4, v5, v6, v7, v8>>
servingVars == <<part, slots, vars, sa1Vars, msuVars>>

-----------------------------------------------------------------------------
\* The parameters and the instances.
SaveFileNames == <<"ram", "rtc", "pack">>

TrackFrames == [t \in 0 .. 2 |-> t + 1]
TrackLoops == [t \in 0 .. 2 |-> t]

SomeEnables == {{}, {"nmi"}, {"message", "timer", "dma", "nmi"}}

Pictures == INSTANCE Playback WITH
        Target <- 3, High <- 5, Frames <- {1, 2}, Kept <- 1, Late <- 8, queued <- v1,
        device <- v2, playing <- v3, requested <- v4, pacer <- v5, picture <- v6,
        since <- v7, steady <- v8

ASSUME Instances == Pictures!PlaybackAssumption

-----------------------------------------------------------------------------
\* What a part does not use rests.
Unused ==
  v1 = 0 /\ v2 = 0 /\ v3 = 0 /\ v4 = 0 /\ v5 = 0 /\ v6 = 0 /\ v7 = 0 /\ v8 = 0

ServingInit ==
  /\ Init /\ Sa1Init /\ MsuInit
  /\ \/ part \in {"saves", "sa1", "msu1"} /\ Unused
     \/ part = "playback" /\ Pictures!Init

ServingNext ==
  \/ part = "saves" /\ Next /\ UNCHANGED <<part, slots, sa1Vars, msuVars>>
  \/ part = "sa1" /\ Sa1Next /\ UNCHANGED <<part, slots, vars, msuVars>>
  \/ part = "msu1" /\ MsuNext /\ UNCHANGED <<part, slots, vars, sa1Vars>>
  \/ part = "playback" /\ Pictures!Next /\ UNCHANGED <<part, vars, sa1Vars, msuVars>>

\* The fairness of Sa1Processor and of Playback.
Sa1Does(A) == part = "sa1" /\ A /\ UNCHANGED <<part, slots, vars, msuVars>>
PlaybackDoes(A) == part = "playback" /\ A /\ UNCHANGED <<part, vars, sa1Vars, msuVars>>

ServingSpec ==
  /\ ServingInit /\ [][ServingNext]_servingVars
  /\ WF_servingVars(Sa1Does(Step))
  /\ WF_servingVars(Sa1Does(TransferByte))
  /\ SF_servingVars(Sa1Does(Plain("plain")))
  /\ WF_servingVars(PlaybackDoes(Pictures!Present))
  /\ WF_servingVars(PlaybackDoes(\E f \in {1, 2} : Pictures!StepFrame(f)))
  /\ WF_servingVars(PlaybackDoes(Pictures!Tick))
  /\ WF_servingVars(PlaybackDoes(Pictures!Drain))

-----------------------------------------------------------------------------
\* Pictures go on being shown through stalls and underruns, and two of one schedule
\* keep their distance (FramePacer, SdlAudioOutput).
PicturesFlow ==
  /\ [][part = "playback" => Pictures!Spaced]_servingVars
  /\ part = "playback" ~> (part = "playback" /\ Pictures!Waiting)
  /\ part = "playback" ~> (part = "playback" /\ Pictures!Shown)
=============================================================================
