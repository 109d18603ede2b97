----------------------------- MODULE MCDevices ------------------------------
(***************************************************************************)
(* Devices of the CPU's bus, of the cartridge and of the host, which do    *)
(* not interact: a behaviour is one of any of them, the part, and the      *)
(* variables of the others rest.                                           *)
(*                                                                         *)
(* SA-1: memories of two bytes, transfers of none or two; a timer of 2 x 2 *)
(* or 3 x 3 dots.  Controllers: packets of three buttons, 12 ticks of a    *)
(* frame, the clocks at the corners of the window [130, 384] in which a    *)
(* poll may start.  Multiplier: two-bit factors.  Memory pack: two blocks. *)
(* Receivers: one, two channels of two assets.                             *)
(***************************************************************************)
EXTENDS AutoJoypad, MulDiv, Sa1Dma, Sa1Timer, BsFlash, BsRadio

VARIABLE part  \* the component this behaviour is of

deviceVars == <<part, vars, aluVars, transferVars, timerVars, flashVars, radioVars>>

-----------------------------------------------------------------------------
\* The parameters and the instances.
SomePackets == {<<1, 0, 1>>, <<0, 0, 1>>}
Corners == {0, 2, 4, 126}
SomeFactors == 0 .. 3
SomeDividends == {0, 1, 6, 7, 11, 15}

Off == [on |-> FALSE, cc |-> FALSE, auto |-> FALSE, from |-> "rom", toBwram |-> FALSE]
On(from, toBwram) == [Off EXCEPT !.on = TRUE, !.from = from, !.toBwram = toBwram]

DmaSettings ==
  {Off, On("rom", FALSE), On("rom", TRUE), On("bwram", FALSE), On("iram", TRUE),
   On("none", FALSE), [On("rom", FALSE) EXCEPT !.cc = TRUE],
   [On("rom", FALSE) EXCEPT !.cc = TRUE, !.auto = TRUE]}

TransferSizes == [d \in {"rom", "bwram", "iram"} |-> 2]

TimerGeometries ==
  [video |-> [width |-> 2, height |-> 2], linear |-> [width |-> 3, height |-> 3]]

-----------------------------------------------------------------------------
\* What a part does not use rests.
DevicesInit ==
  /\ part \in {"joypad", "alu", "sa1dma", "timer", "flash", "radio"}
  /\ Init /\ (part # "joypad" => phase = 0)
  /\ AluInit /\ TransferInit /\ TimerInit /\ FlashInit /\ RadioInit

DevicesNext ==
  \/ /\ part = "joypad" /\ Next
     /\ UNCHANGED <<part, aluVars, transferVars, timerVars, flashVars, radioVars>>
  \/ /\ part = "alu" /\ AluNext
     /\ UNCHANGED <<part, vars, transferVars, timerVars, flashVars, radioVars>>
  \/ /\ part = "sa1dma" /\ TransferNext
     /\ UNCHANGED <<part, vars, aluVars, timerVars, flashVars, radioVars>>
  \/ /\ part = "timer" /\ TimerNext
     /\ UNCHANGED <<part, vars, aluVars, transferVars, flashVars, radioVars>>
  \/ /\ part = "flash" /\ FlashNext
     /\ UNCHANGED <<part, vars, aluVars, transferVars, timerVars, radioVars>>
  \/ /\ part = "radio" /\ RadioNext
     /\ UNCHANGED <<part, vars, aluVars, transferVars, timerVars, flashVars>>

DevicesSpec == DevicesInit /\ [][DevicesNext]_deviceVars
=============================================================================
