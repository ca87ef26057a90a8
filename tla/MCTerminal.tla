---------------------------- MODULE MCTerminal -----------------------------
(* The instance of Terminal that TLC checks: a line buffer of two          *)
(* characters, so that lines shorter than it, filling it and longer than   *)
(* it can be typed.                                                        *)
EXTENDS Terminal

MCChar == {3, 10, 65}
MCDivValues == {1}
MCHello == <<65>>
MCPrompt == <<10>>
MCReplies == {<<>>}
MCScratch == {0, 2, 4}
============================================================================
