------------------------------- MODULE MCDma -------------------------------
(***************************************************************************)
(* Dma with two channels and three-bit bytes: channel 0 has a direct table *)
(* and may be long, channel 1 has an indirect one, two bytes a line.       *)
(***************************************************************************)
EXTENDS Dma

\* Tables at 0.  The first entry of channel 0 is two lines, the repeat bit alone
\* or three lines with repeat; the next ends the table or repeats for two.
TablesBus ==
  [c \in Channels |->
    [a \in Word |->
      IF c = 0 THEN (CASE a = 0 -> {2, 4, 7} [] a % 4 = 3 -> {0, 6} [] OTHER -> {1})
               ELSE (CASE a = 0 -> {4} [] a = 3 -> {0} [] OTHER -> {3})]]

Written(i, s, n, k) ==
  [ResetChannel EXCEPT !.ind = i, !.len = n, !.step = k, !.src = 0, !.size = s]

\* A size of 0 is the longest.
SomeSetups ==
  {[c \in Channels |-> IF c = 0 THEN Written(FALSE, s, 1, "increment")
                               ELSE Written(TRUE, 1, 2, "fixed")] : s \in {0, 2}}

AllMasks == {{0}, {1}, {0, 1}}

SomePokes == {<<0, "sizeLow", 2>>, <<1, "line", 1>>, <<0, "srcHigh", 1>>}
SomeControlPokes == {<<1, [ind |-> FALSE, len |-> 1, step |-> "decrement"]>>}
=============================================================================
