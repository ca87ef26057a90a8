--------------------------- MODULE KernelPrograms --------------------------
(***************************************************************************)
(* Programs for the CPU.  Each starts at 0 with code of its own that calls *)
(* a routine of the kernel behind it.                                      *)
(***************************************************************************)
EXTENDS KernelCode

CONSTANTS
  Dividends, Highs, Divisors,  \* what is divided: the words of R0, R1 and R2
  StackTop                     \* where the return stack starts

(* UD_DIV is meant for divisors of eight bits (core.fasm:386); it looks at *)
(* the sign of a difference, so that half of what a word holds is the      *)
(* most it can divide by.  The return stack lies above the programs.       *)
ASSUME KernelProgramsAssumption ==
  /\ RamStart = 0 /\ StackTop \in 80..RamEnd
  /\ Dividends \subseteq Word /\ Highs \subseteq Nat /\ Divisors \subseteq 1..(Base \div 2)

VARIABLES program, arg   \* which program runs, and the registers it started with

programVars == <<machineVars, program, arg>>

(* A call of UD_DIV, then a jump by way of the word at 8 to HALT.          *)
DivCode == <<JPIL, 10, JPM(R(4)), HALT, 6>> \o UDDIV

(* RA is sent twice, with a transmitter that is slower than the program    *)
(* (its divider is 5) and the return stack in use, as the kernel has it.   *)
TxCode ==
  << LDI(R(3)), UartStart + 4, AluAI(MOV, 5), ST(RA, R(3)), LDI(RS), StackTop,
     AluAI(MOV, 65), JPIL, 30, AluAI(MOV, 66), JPIL, 30, EI, DI, HALT >>
  \o UartTxByte(UartStart, UartStart + 2)

(* "LDX RA,RS+3" (core.fasm:2244) and its store, as the assembler writes   *)
(* them.                                                                   *)
LdxRS3(op) == AssembleLdx([op |-> op, base |-> RS, a |-> RA, offset |-> 3])
LdxCode == <<LdxRS3(0), LdxRS3(2), HALT>>

Start(r) ==
  /\ Init
  /\ regs = r
  /\ pc = 0 /\ halted = FALSE /\ ie = FALSE
  /\ flags = [c |-> FALSE, z |-> FALSE, s |-> FALSE, p |-> FALSE]

Cleared == [r \in Reg |-> 0]

ProgramInit ==
  /\ \/ /\ program = "div" /\ ram = Image(DivCode)
        /\ \E lo \in Dividends, hi \in Highs, d \in Divisors :
             hi < d /\ Start([Cleared EXCEPT ![0] = lo, ![1] = hi, ![2] = d, ![4] = 8])
     \/ /\ program = "tx" /\ ram = Image(TxCode)
        /\ Start([Cleared EXCEPT ![0] = 6, ![1] = 7, ![2] = 8])
     \/ program = "ldx" /\ ram = Image(LdxCode) /\ Start([Cleared EXCEPT ![RS] = StackTop])
  /\ arg = regs

ProgramNext == MachineNext /\ UNCHANGED <<program, arg>>
ProgramSpec == ProgramInit /\ [][ProgramNext]_programVars
ProgramFairSpec == ProgramSpec /\ MachineFairness
----------------------------------------------------------------------------
(* core.fasm:386, UD_DIV divides a 24-bit by an 8-bit number and leaves    *)
(* quotient and remainder, and returns behind its call.  This takes the    *)
(* assembler's encoding, the decoder, carry and sign flags, conditional    *)
(* jumps and the link register together.                                   *)
DivisionCorrect ==
  program = "div" /\ halted =>
    /\ pc = 8
    /\ regs[1] < regs[2] /\ regs[2] = arg[2]
    /\ regs[0] * regs[2] + regs[1] = arg[1] * Base + arg[0]

(* Two calls of TX_BYTE (core.fasm:97) send both bytes in order, give back *)
(* R0, R1 and R2 and the return stack as they were and end behind the      *)
(* second call.                                                            *)
TxReturns ==
  program = "tx" /\ halted =>
    /\ pc = 30 /\ printed = <<65, 66>>
    /\ regs[0] = 6 /\ regs[1] = 7 /\ regs[2] = 8 /\ regs[RS] = StackTop

(* A program is done at some time: the wait for the transmitter ends.      *)
Halts == <>halted

(* LDX loads from an offset of its base register (Loader.h:25).            *)
IndexedLoadReadsBase ==
  [][program = "ldx" /\ pc = 0 /\ pc' = 2 =>
       /\ regs'[RA] \in Get(StackTop + 3)
       /\ \A r \in Reg \ {RA} : regs'[r] = regs[r]]_programVars
============================================================================
