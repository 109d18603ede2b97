------------------------------ MODULE MCTiming ------------------------------
(***************************************************************************)
(* Fields of four lines of 44 clocks, with every event of the real line in *)
(* its order; 44 and the 40 of the short line have the remainders modulo 8 *)
(* of 1364 and 1360.                                                       *)
(***************************************************************************)
EXTENDS Timing
=============================================================================
