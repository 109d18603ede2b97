---------------------------- MODULE MCInterrupts ----------------------------
(***************************************************************************)
(* Frames of three lines of eight ticks, the last one VBlank.             *)
(***************************************************************************)
EXTENDS Interrupts

EvenLines == [y \in Line |-> 8]

NmiMode == [nmi |-> TRUE, hen |-> FALSE, ven |-> FALSE]
TimerMode == [nmi |-> FALSE, hen |-> FALSE, ven |-> TRUE]
BothMode == [nmi |-> TRUE, hen |-> TRUE, ven |-> TRUE]
Off == [nmi |-> FALSE, hen |-> FALSE, ven |-> FALSE]

MixedModes == {NmiMode, TimerMode, BothMode, Off}

OneTarget == {[h |-> 2, v |-> 1]}
=============================================================================
