------------------------------ MODULE MCUART -------------------------------
(* The instance of UART that TLC checks: two characters, so that a stale   *)
(* byte shows, and dividers that wrap, count one tick and count two.       *)
EXTENDS UART

MCChar == {65, 66}
MCDivValues == 0..2
============================================================================
