----------------------------- MODULE MCForthVM -----------------------------
(***************************************************************************)
(* Values for the CPU's programs: dividends and divisors at the boundaries *)
(* of bytes and words.                                                     *)
(***************************************************************************)
EXTENDS KernelPrograms

MCChar == {65}
MCBytes == 0..255
MCWords == 0..65535
MCGarbage == {0, 40, 65535}

MCDividends == {0, 1, 9, 10, 99, 255, 256, 32767, 32768, 65535}
MCHighs == {0, 1, 9, 127, 32767}
MCDivisors == {1, 2, 10, 128, 255, 32768}
============================================================================
