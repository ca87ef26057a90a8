----------------------------- MODULE MCEmulator -----------------------------
(***************************************************************************)
(* Two programs for the emulator: a kernel that goes round between NEXT    *)
(* (1) and the code of a word (2), and a test case that runs to its HALT.  *)
(* Behind a HALT (3) lies data, which is not reached.                      *)
(***************************************************************************)
EXTENDS Emulator

MCAddr == 0..3
MCNoAddr == 4

Goes(pc, i) == [pc |-> pc, i |-> i, halted |-> FALSE, expand |-> FALSE]
Halts(pc, i) == [Goes(pc, i) EXCEPT !.halted = TRUE]
Expands(pc, i) == [Goes(pc, i) EXCEPT !.expand = TRUE]

Kernel == [a \in MCAddr |->
  CASE a = 0 -> {Goes(1, 0)}
    [] a = 1 -> {Goes(2, 1), Goes(2, 2)}
    [] a = 2 -> {Goes(1, 0), Expands(1, 0), Halts(3, 0)}
    [] a = 3 -> {}]

TestCase == [a \in MCAddr |->
  CASE a < 2 -> {Goes(a + 1, 0)} [] a = 2 -> {Halts(3, 0)} [] a = 3 -> {}]

MCFlow == [source \in Source |-> IF source = "core" THEN Kernel ELSE TestCase]
MCLabelAt == [source \in Source |-> IF source = "core" THEN {2} ELSE {1}]

(* A verbose debugger with a breakpoint on the way round stops a running   *)
(* kernel.                                                                 *)
BreakpointHolds ==
  \A a \in {1, 2} :
    (at = "continuing" /\ mem.source = "core" /\ dbg.verbose /\ dbg.pc = a)
      ~> (at = "debugger")
============================================================================
