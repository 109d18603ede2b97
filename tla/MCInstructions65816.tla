------------------------- MODULE MCInstructions65816 -------------------------
(***************************************************************************)
(* A stack of two pages, page 1 and what lies on either side of it.  Pages *)
(* of four bytes hold the longest frame.                                   *)
(***************************************************************************)
EXTENDS Instructions65816
=============================================================================
