------------------------------ MODULE ForthVM ------------------------------
(***************************************************************************)
(* The CPU (runtime/ForthCPU/ForthVM.h) on its memory map, with the UART   *)
(* in it: step() fetches, decodes and executes one instruction and then    *)
(* gives the UART its tick.                                                *)
(***************************************************************************)
EXTENDS UART, ISA, ALU, Memory

CONSTANT Garbage   \* values that may be left in an uninitialised variable

(* A word has 16 bits, any word may be written to the UART's dividers and  *)
(* any byte be sent, and the UART has at most eight registers, of which    *)
(* five do something.                                                      *)
ASSUME ForthVMAssumption ==
  /\ Width = 16
  /\ Word \subseteq DivValues /\ 0..255 \subseteq TxValues
  /\ Garbage \subseteq Word
  /\ UartEnd - UartStart \in 5..8

VARIABLES
  regs,     \* the sixteen registers
  pc,       \* program counter
  flags,    \* the four condition flags
  halted,
  ie        \* interrupts enabled; no interrupt is ever delivered

cpuVars == <<regs, pc, flags, halted, ie>>
machineVars == <<vars, ram, cpuVars>>

(* Names that begin with Bug are mutants of the definition after them.     *)
Plus(a, n) == (a + n) % Base   \* the registers are 16 bits wide
----------------------------------------------------------------------------
(* A device access is an access to the UART's registers, through a byte if *)
(* that is what the instruction moves.                                     *)
OnDevice(addr) == AddressDecode(addr) = "uart"

Moved(op, v) == IF op \in {1, 3} THEN v % 256 ELSE v

DeviceValue(offset) ==
  CASE offset = 0 -> Status
    [] offset = 2 -> rxD
    [] offset = 3 -> rxClkDiv
    [] offset = 4 -> txClkDiv
    [] OTHER      -> 0

(* _gen: everything but HALT, EI and DI does nothing, RETI included.       *)
Gen(w) ==
  LET op == Decode(w).op
  IN  /\ halted' = (op = 1)
      /\ ie' = CASE op = 2 -> TRUE [] op = 3 -> FALSE [] OTHER -> ie
      /\ pc' = Plus(pc, 2)
      /\ OtherInstruction
      /\ UNCHANGED <<regs, flags, ram>>

(* _alu.                                                                   *)
Alu(w) ==
  LET i == Decode(w)
      operand == IF i.mode = RegReg THEN regs[i.arg] ELSE i.arg % Base
      result == AluResult(i.op, regs[i.a], operand, flags)
  IN  /\ regs' = [regs EXCEPT ![i.a] = result.value]
      /\ flags' = result.flags
      /\ pc' = Plus(pc, 2)
      /\ OtherInstruction
      /\ UNCHANGED <<halted, ie, ram>>

(* _lds: the pointer register moves after an access in the INC mode, so a  *)
(* POP, and before it in the DEC mode, so a PUSH.  HERE's operand follows  *)
(* the instruction.                                                        *)
BugPushMovesAfter(i) ==
  LET delta == IF i.op \in {1, 3} THEN 1 ELSE 2
  IN  CASE i.mode = RegReg -> [addr |-> regs[i.b], regs |-> regs]
        [] i.mode = RegHere -> [addr |-> Plus(pc, 2), regs |-> regs]
        [] i.mode = RegInc ->
             [addr |-> regs[i.b], regs |-> [regs EXCEPT ![i.b] = Plus(@, delta)]]
        [] i.mode = RegDec ->
             [addr |-> regs[i.b], regs |-> [regs EXCEPT ![i.b] = Plus(@, -delta)]]

Pointer(i) ==
  LET delta == IF i.op \in {1, 3} THEN 1 ELSE 2
      moved == Plus(regs[i.b], -delta)
  IN  CASE i.mode = RegReg -> [addr |-> regs[i.b], regs |-> regs]
        [] i.mode = RegHere -> [addr |-> Plus(pc, 2), regs |-> regs]
        [] i.mode = RegInc ->
             [addr |-> regs[i.b], regs |-> [regs EXCEPT ![i.b] = Plus(@, delta)]]
        [] i.mode = RegDec -> [addr |-> moved, regs |-> [regs EXCEPT ![i.b] = moved]]

Length(i) == IF i.mode = RegHere THEN 4 ELSE 2

Load(w) ==
  LET i == Decode(w)
      p == Pointer(i)
  IN  /\ i.op \in {0, 1}
      /\ \/ OnDevice(p.addr) /\ ReadAccess(p.addr - UartStart)
            /\ regs' = [p.regs EXCEPT ![i.a] = Moved(i.op, DeviceValue(p.addr - UartStart))]
         \/ ~OnDevice(p.addr) /\ OtherInstruction
            /\ \E v \in (IF i.op = 0 THEN Get(p.addr) ELSE GetC(p.addr)) :
                 regs' = [p.regs EXCEPT ![i.a] = v]
      /\ pc' = Plus(pc, Length(i))
      /\ UNCHANGED <<flags, halted, ie, ram>>

(* The register to store is read before the pointer moves in the INC mode  *)
(* and after it in the DEC mode.                                           *)
Store(w) ==
  LET i == Decode(w)
      p == Pointer(i)
      value == IF i.mode = RegDec THEN p.regs[i.a] ELSE regs[i.a]
  IN  /\ i.op \in {2, 3}
      /\ \/ OnDevice(p.addr) /\ WriteAccess(p.addr - UartStart, Moved(i.op, value))
            /\ UNCHANGED ram
         \/ ~OnDevice(p.addr) /\ OtherInstruction
            /\ IF i.op = 2 THEN Put(p.addr, value) ELSE PutC(p.addr, value)
      /\ regs' = p.regs
      /\ pc' = Plus(pc, Length(i))
      /\ UNCHANGED <<flags, halted, ie>>

(* _ldx: no mode of its switch can match, as the word's LDX bit is part of *)
(* the field compared, so the register, the address and the value it goes  *)
(* on with are uninitialised: some register gets some value, or some value *)
(* is stored somewhere.                                                    *)
Ldx(w) ==
  /\ \/ /\ Field(w, 11, 2) \in {0, 1}
        /\ \E r \in Reg, v \in Garbage : regs' = [regs EXCEPT ![r] = v]
        /\ UNCHANGED ram
     \/ /\ Field(w, 11, 2) \in {2, 3}
        /\ \E addr \in Garbage, v \in Garbage :
             IF Field(w, 11, 2) = 2 THEN Put(addr, v) ELSE PutC(addr, v)
        /\ UNCHANGED regs
  /\ pc' = Plus(pc, 2)
  /\ OtherInstruction
  /\ UNCHANGED <<flags, halted, ie>>

(* _jmp: a jump that is not taken steps over its operand.  A taken one     *)
(* with the link bit saves the address after a two-word instruction first. *)
LinkAddress == Plus(pc, 4)

Condition(cond) ==
  CASE cond = 0 -> flags.z [] cond = 1 -> flags.c [] cond = 2 -> flags.s [] cond = 3 -> flags.p

(* A jump may fetch its target from the UART's registers as well: the      *)
(* status byte becomes the address and reading the data takes it away.     *)
TargetsAt(addr) == IF OnDevice(addr) THEN {DeviceValue(addr - UartStart)} ELSE Get(addr)

Jmp(w) ==
  LET i == Decode(w)
      taken == IF i.cond = -1 THEN TRUE ELSE Condition(i.cond) # i.negated
      operand == Plus(pc, 2)
      source == IF i.mode = IndReg THEN regs'[i.b] ELSE operand
  IN  /\ regs' = IF taken /\ i.link THEN [regs EXCEPT ![RL] = LinkAddress] ELSE regs
      /\ \/ taken /\ i.mode = AbsReg /\ pc' = regs'[i.b]
         \/ taken /\ i.mode \in {IndReg, AbsHere} /\ pc' \in TargetsAt(source)
         \/ taken /\ i.mode = RelHere /\ \E v \in TargetsAt(source) : pc' = Plus(operand, v - 2)
         \/ ~taken /\ pc' = Plus(pc, IF i.mode \in {AbsHere, RelHere} THEN 4 ELSE 2)
      /\ IF taken /\ i.mode # AbsReg /\ OnDevice(source)
           THEN ReadAccess(source - UartStart)
           ELSE OtherInstruction
      /\ UNCHANGED <<flags, halted, ie, ram>>

(* _clock: one instruction.  The model ends where code would be fetched    *)
(* from the UART's registers.                                              *)
Step ==
  /\ ~halted /\ ~OnDevice(pc)
  /\ \E w \in Get(pc) :
       \/ Field(w, 14, 2) = GEN /\ Gen(w)
       \/ Field(w, 14, 2) = LDS /\ ~IsLdx(w) /\ Load(w)
       \/ Field(w, 14, 2) = LDS /\ ~IsLdx(w) /\ Store(w)
       \/ IsLdx(w) /\ Ldx(w)
       \/ Field(w, 14, 2) = ALU /\ Alu(w)
       \/ Field(w, 14, 2) = JMP /\ Jmp(w)

(* After HALT the run loop ends; step() would only tick.                   *)
MachineTick == Tick /\ UNCHANGED <<cpuVars, ram>>

MachineTyping == (\E c \in Char : Typing(c)) /\ UNCHANGED <<cpuVars, ram>>

MachineNext == Step \/ MachineTick \/ MachineTyping

(* The run loop steps until the machine halts.                             *)
MachineFairness == WF_machineVars(Step) /\ WF_machineVars(MachineTick)
============================================================================
