----------------------------- MODULE KernelCode ----------------------------
(***************************************************************************)
(* Two routines of the kernel (fasm/core.fasm), instruction by             *)
(* instruction, as the words the assembler makes of them: the division     *)
(* that number output is built on and the routine that sends a byte.       *)
(***************************************************************************)
EXTENDS ForthVM, Sequences

R(n) == n

\* Source lines; the operand of a line that needs two words follows it.
Alu2(op, a, b) == Assemble([group |-> ALU, op |-> op, mode |-> RegReg, a |-> a, arg |-> b])
AluI(op, a, n) == Assemble([group |-> ALU, op |-> op, mode |-> RegU4, a |-> a, arg |-> n])
AluAI(op, n)   == Assemble([group |-> ALU, op |-> op, mode |-> U8, a |-> RA, arg |-> n])
Mem(op, mode, a, b) == Assemble([group |-> LDS, op |-> op, mode |-> mode, a |-> a, b |-> b])
LD(a, b)   == Mem(0, RegReg, a, b)
ST(a, b)   == Mem(2, RegReg, a, b)
PUSH(a, b) == Mem(2, RegDec, a, b)
POP(a, b)  == Mem(0, RegInc, a, b)
LDI(a)     == Mem(0, RegHere, a, 0)
Jump(mode, link, cond, negated, b) ==
  Assemble([group |-> JMP, mode |-> mode, link |-> link, cond |-> cond,
            negated |-> negated, b |-> b])
JPIL       == Jump(AbsHere, TRUE, -1, FALSE, 0)
JP(b)      == Jump(AbsReg, FALSE, -1, FALSE, b)
JPM(b)     == Jump(IndReg, FALSE, -1, FALSE, b)
HALT       == Assemble([group |-> GEN, op |-> 1])
EI         == Assemble([group |-> GEN, op |-> 2])
DI         == Assemble([group |-> GEN, op |-> 3])

(* A relative jump: the assembler writes the distance from the jump to its *)
(* target.                                                                 *)
JRI == Jump(RelHere, FALSE, -1, FALSE, 0)
JRIif(cond, negated) == Jump(RelHere, FALSE, cond, negated, 0)
By(distance) == distance % Base
Z == 0
C == 1
M == 2
MOV == 0
ADD == 1
SUB == 2
AND == 5
----------------------------------------------------------------------------
(* UD_DIV: divides {R1,R0} by R2, sixteen quotient bits one after another. *)
UDDIV ==
  << AluAI(MOV, 16),          \*  0: MOVAI 0x10
     Alu2(ADD, R(1), R(1)),   \*  2: the loop
     Alu2(ADD, R(0), R(0)),   \*  4
     JRIif(C, TRUE), By(6),   \*  6: to 12
     AluI(ADD, R(1), 1),      \* 10
     Alu2(SUB, R(1), R(2)),   \* 12
     JRIif(M, FALSE), By(10), \* 14: to 24
     AluI(ADD, R(0), 1),      \* 18
     JRI, By(6),              \* 20: to 26
     Alu2(ADD, R(1), R(2)),   \* 24
     AluI(SUB, RA, 1),        \* 26
     JRIif(Z, TRUE), By(-26), \* 28: to 2
     JP(RL) >>                \* 32

(* A mutant of the next definition.                                        *)
BugCharNotSaved(statusReg, dataReg) ==
  << PUSH(R(1), RS), PUSH(R(2), RS),
     Alu2(MOV, R(0), RA),
     LDI(R(1)), statusReg,
     LDI(R(2)), dataReg,
     LD(RA, R(1)),
     AluAI(AND, 4),
     JRIif(Z, FALSE), By(-4),
     ST(R(0), R(2)),
     POP(R(2), RS), POP(R(1), RS),
     JP(RL) >>

(* SYSCALL_UART_TX_BYTE: waits for TX_DONE, then sends RA.                 *)
UartTxByte(statusReg, dataReg) ==
  << PUSH(R(1), RS), PUSH(R(2), RS), PUSH(R(0), RS),
     Alu2(MOV, R(0), RA),
     LDI(R(1)), statusReg,
     LDI(R(2)), dataReg,
     LD(RA, R(1)),            \* the wait
     AluAI(AND, 4),
     JRIif(Z, FALSE), By(-4),
     ST(R(0), R(2)),
     POP(R(0), RS), POP(R(2), RS), POP(R(1), RS),
     JP(RL) >>

(* The bytes of a program whose first word is at address 0.                *)
Image(words) ==
  [b \in RamBytes |->
     LET n == b \div 2 + 1
         w == IF n <= Len(words) THEN words[n] ELSE 0
     IN  IF b % 2 = 0 THEN w % 256 ELSE w \div 256]
============================================================================
