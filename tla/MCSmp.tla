-------------------------------- MODULE MCSmp --------------------------------
(***************************************************************************)
(* One timer of four ticks a pulse with a divider of three values, and one *)
(* port; accesses of 1 and of 5 clocks, the latter of uneven ticks.        *)
(***************************************************************************)
EXTENDS Smp

OneTimer == [t \in Timers |-> 4]

Set(g, i, e) == [gate |-> g, internal |-> i, external |-> e]
SomeTests == {Set(TRUE, 0, 0), Set(TRUE, 2, 0), Set(FALSE, 0, 2)}
=============================================================================
