------------------------------ MODULE MCMulDiv ------------------------------
(***************************************************************************)
(* Two-bit operands: every factor, every divisor and every dividend.       *)
(***************************************************************************)
EXTENDS MulDiv

AllFactors == ByteValues
AllDividends == WordValues
=============================================================================
