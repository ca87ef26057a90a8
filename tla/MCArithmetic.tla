---------------------------- MODULE MCArithmetic ---------------------------
(* Words of four bits: every single operand, and doubles of eight bits     *)
(* whose halves lie at both ends and around the sign bit.                  *)
EXTENDS Arithmetic

MCSingle == Word
MCDouble == {0, 1, 2, 7, 8, 9, 15}
============================================================================
