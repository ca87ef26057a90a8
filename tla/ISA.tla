-------------------------------- MODULE ISA --------------------------------
(***************************************************************************)
(* The instruction set, seen from its two ends: how the assembler builds   *)
(* an instruction word (tools/Opcodes.h and the operand parsing of         *)
(* tools/Assembler.h) and what the CPU takes from the word's bits          *)
(* (runtime/ForthCPU/ForthVM.h).  An instruction is a record of what a     *)
(* source line says: group, op, mode, registers and operand.               *)
(***************************************************************************)
EXTENDS Integers

Reg == 0..15
RA == 8
FP == 11
SP == 13
RS == 14
RL == 15

\* Groups, and the modes of load/store, jump and ALU instructions
GEN == 0
LDS == 1
JMP == 2
ALU == 3
RegReg == 0
RegHere == 1
RegInc == 2
RegDec == 3
AbsReg == 0
IndReg == 1
AbsHere == 2
RelHere == 3
RegU4 == 1
U8 == 2
S8 == 3

Conditions == 0..3   \* Z, C, S, P

(* Field of len bits at position pos of an instruction word.               *)
Field(w, pos, len) == (w \div 2^pos) % 2^len
----------------------------------------------------------------------------
(* What source lines can say.  A jump's cond is -1 when it is              *)
(* unconditional; an LDX instruction names its base register and offset.   *)
GenLine == [group : {GEN}, op : 0..4]
LdsLine == [group : {LDS}, op : 0..3, mode : 0..3, a : Reg, b : Reg]
JmpLine == [group : {JMP}, mode : 0..3, link : BOOLEAN, cond : Conditions \cup {-1},
            negated : BOOLEAN, b : Reg]
AluRegLine == [group : {ALU}, op : 0..15, mode : {RegReg, RegU4}, a : Reg, arg : 0..15]
AluU8Line == [group : {ALU}, op : 0..15, mode : {U8}, a : {RA}, arg : 0..255]
AluS8Line == [group : {ALU}, op : 0..15, mode : {S8}, a : {RA}, arg : -128..127]
----------------------------------------------------------------------------
(* The assembler: Opcode's constructors, setArgA, setArgB, setCondition.   *)
ArgA(w, a) == w + (a % 16) * 2^4
ArgB(w, b) == w + (b % 16)

AluWord(op, mode) == ALU * 2^14 + op * 2^10 + mode * 2^8
LdsWord(op, mode) == LDS * 2^14 + op * 2^11 + mode * 2^8

(* aluCode, with the operand's halves in the two register fields when it   *)
(* has eight bits.                                                         *)
AssembleAlu(i) ==
  IF i.mode \in {RegReg, RegU4}
    THEN ArgB(ArgA(AluWord(i.op, i.mode), i.a), i.arg)
    ELSE ArgB(ArgA(AluWord(i.op, i.mode), i.arg \div 16), i.arg)

AssembleLds(i) == ArgB(ArgA(LdsWord(i.op, i.mode), i.a), i.b)

(* The condition goes where the skip field is: 8 says "apply".             *)
AssembleJmp(i) ==
  LET code == JMP * 2^14 + i.mode * 2^8 + (IF i.link THEN 2^7 ELSE 0)
      condition == IF i.cond = -1 THEN 0 ELSE 8 + (IF i.negated THEN 4 ELSE 0) + i.cond
  IN  ArgB(code + condition * 2^10, IF i.mode \in {AbsReg, IndReg} THEN i.b ELSE 0)

AssembleGen(i) == GEN * 2^14 + i.op * 2^8

(* LDX instructions are coded with op + 4, whose third bit is the U5 bit;  *)
(* the base register is put in the field of register b, and the offset is  *)
(* parsed and goes nowhere.                                                *)
AssembleLdx(i) == ArgB(ArgA(LDS * 2^14 + 2^13 + i.op * 2^11 + 2^10, i.a), i.base)

Assemble(i) ==
  CASE i.group = GEN -> AssembleGen(i)
    [] i.group = LDS -> AssembleLds(i)
    [] i.group = JMP -> AssembleJmp(i)
    [] i.group = ALU -> AssembleAlu(i)
----------------------------------------------------------------------------
(* The CPU: which fields of the word each group looks at.                  *)
Signed8(n) == IF n >= 128 THEN n - 256 ELSE n

DecodeAlu(w) ==
  LET mode == Field(w, 8, 2)
  IN  [group |-> ALU, op |-> Field(w, 10, 4), mode |-> mode,
       a |-> IF mode \in {RegReg, RegU4} THEN Field(w, 4, 4) ELSE RA,
       arg |-> CASE mode \in {RegReg, RegU4} -> Field(w, 0, 4)
                 [] mode = U8 -> Field(w, 0, 8)
                 [] mode = S8 -> Signed8(Field(w, 0, 8))]

(* The mode field is three bits wide: an LDX word's own bit is in it.      *)
DecodeLds(w) ==
  [group |-> LDS, op |-> Field(w, 11, 2), mode |-> Field(w, 8, 3),
   a |-> Field(w, 4, 4), b |-> Field(w, 0, 4)]

(* The Bug definition is a mutant of the one after it.                     *)
BugSkipInverted(w) ==
  LET applies == Field(w, 12, 2) \in {2, 3}
      mode    == Field(w, 8, 2)
  IN  [group |-> JMP, mode |-> mode, link |-> Field(w, 7, 1) = 1,
       cond |-> IF applies THEN Field(w, 10, 2) ELSE -1,
       negated |-> Field(w, 12, 2) = 2,
       b |-> IF mode \in {AbsReg, IndReg} THEN Field(w, 0, 4) ELSE 0]

(* JMP_SKIP_CC jumps on the flag, JMP_SKIP_NOT_CC on its complement.       *)
DecodeJmp(w) ==
  LET applies == Field(w, 12, 2) \in {2, 3}
      mode    == Field(w, 8, 2)
  IN  [group |-> JMP, mode |-> mode, link |-> Field(w, 7, 1) = 1,
       cond |-> IF applies THEN Field(w, 10, 2) ELSE -1,
       negated |-> Field(w, 12, 2) = 3,
       b |-> IF mode \in {AbsReg, IndReg} THEN Field(w, 0, 4) ELSE 0]

Decode(w) ==
  LET group == Field(w, 14, 2)
  IN  CASE group = GEN -> [group |-> GEN, op |-> Field(w, 8, 3)]
        [] group = LDS -> DecodeLds(w)
        [] group = JMP -> DecodeJmp(w)
        [] group = ALU -> DecodeAlu(w)

IsLdx(w) == Field(w, 14, 2) = LDS /\ Field(w, 10, 1) = 1
============================================================================
