-------------------------- MODULE MCIrqController --------------------------
(***************************************************************************)
(* The controller alone, frames of four lines of which one is short and    *)
(* the last two are VBlank; targets near the ends of lines and frames.     *)
(***************************************************************************)
EXTENDS IrqController

ShortLine == [y \in Line |-> IF y = 2 THEN 10 ELSE 12]

SomeModes == {[nmi |-> FALSE, hen |-> TRUE, ven |-> b] : b \in BOOLEAN}

EdgeTargets == {[h |-> 8, v |-> 0], [h |-> 8, v |-> 3], [h |-> 10, v |-> 1]}
=============================================================================
