---------------------------- MODULE MachineProofs ---------------------------
(* Theorems about the CPU: an instruction word decodes to what was         *)
(* assembled, every program is one of those UART allows, and the kernel's  *)
(* division and its byte output do what DivisionCorrect and TxReturns say. *)
EXTENDS KernelPrograms, UARTProofs, LeastNumber, SequenceTheorems

(* The powers of two that the fields of an instruction word begin at.      *)
LEMMA Powers ==
  /\ 2^0 = 1 /\ 2^1 = 2 /\ 2^2 = 4 /\ 2^3 = 8 /\ 2^4 = 16 /\ 2^7 = 128
  /\ 2^8 = 256 /\ 2^10 = 4 * 256 /\ 2^11 = 8 * 256 /\ 2^12 = 16 * 256
  /\ 2^13 = 32 * 256 /\ 2^14 = 64 * 256
<1>1. 2^0 = 1 /\ 2^1 = 2
  BY SmallPowers
<1>2. ASSUME NEW n \in Nat PROVE 2^(n + 1) = 2 * 2^n /\ 2^n \in Nat
  BY PowerStep
<1>3. 2^2 = 4
  <2>1. 1 + 1 = 2
    OBVIOUS
  <2>2. QED BY <1>1, <1>2, <2>1
<1>4. 2^3 = 8
  <2>1. 2 + 1 = 3
    OBVIOUS
  <2>2. QED BY <1>3, <1>2, <2>1
<1>5. 2^4 = 16
  BY <1>3, PowerSum
<1>6. 2^7 = 128
  BY <1>4, <1>5, PowerSum
<1>7. 2^8 = 256
  BY <1>5, PowerSum
<1>8. 2^10 = 4 * 256 /\ 2^11 = 8 * 256 /\ 2^12 = 16 * 256
  BY <1>3, <1>4, <1>5, <1>7, PowerSum
<1>9. 2^13 = 32 * 256
  BY <1>5, <1>1, <1>8, PowerSum
<1>10. 2^14 = 64 * 256
  BY <1>3, <1>8, PowerSum
<1>11. QED BY <1>1, <1>3, <1>4, <1>5, <1>6, <1>7, <1>8, <1>9, <1>10

(* Words are sixteen bits, and the UART's registers are at words.          *)
LEMMA WordFacts ==
  /\ Width = 16 /\ Base = 2^16 /\ Base \in Nat \ {0} /\ Base = 256 * 2^8
  /\ Word = 0..(Base - 1) /\ UartEnd \in Word /\ UartStart \in Word
<1>1. Width = 16
  BY ForthVMAssumption DEF ForthVMAssumption
<1>2. 2^(8 + 8) = 2^8 * 2^8
  BY PowerSum
<1>3. 8 + 8 = 16
  OBVIOUS
<1>4. Base = 2^16 /\ Base \in Nat \ {0}
  BY <1>1, PowerStep DEF Base
<1>5. UartEnd \in 0..(Base - 1) /\ UartStart \in 0..(Base - 1)
  BY <1>4, MemoryAssumption DEF MemoryAssumption
<1>6. QED BY <1>1, <1>2, <1>3, <1>4, <1>5, Powers DEF Word

LEMMA WordIs ==
  ASSUME NEW n \in Int
  PROVE  n \in Word <=> 0 <= n /\ n < Base
<1>1. Word = 0..(Base - 1) /\ Base \in Nat
  BY WordFacts
<1>2. QED BY <1>1

(* Two bytes make a word.                                                  *)
LEMMA BytesMakeWord ==
  ASSUME NEW low \in 0..255, NEW high \in 0..255
  PROVE  low + 256 * high \in Word /\ low \in Word
<1>1. Base = 256 * 256
  BY Powers, WordFacts
<1>2. low + 256 * high \in Nat /\ low + 256 * high < 256 * 256 /\ low < 256 * 256
  OBVIOUS
<1>3. low + 256 * high < Base /\ low < Base
  BY <1>1, <1>2
<1>4. QED BY <1>2, <1>3, WordIs

(* Above a field of len bits at pos stands high, below it low.             *)
Stands(w, field, pos, len, high, low) ==
  /\ pos \in Nat /\ len \in Nat /\ high \in Nat
  /\ field \in 0..(2^len - 1) /\ low \in 0..(2^pos - 1)
  /\ w = 2^pos * (2^len * high + field) + low

LEMMA FieldOf ==
  ASSUME NEW w, NEW field, NEW pos, NEW len, NEW high, NEW low,
         Stands(w, field, pos, len, high, low)
  PROVE  Field(w, pos, len) = field
<1>1. 2^pos \in Nat \ {0} /\ 2^len \in Nat \ {0}
  BY PowerStep DEF Stands
<1>2. /\ 2^len * high + field \in Int /\ field \in 0..(2^len - 1) /\ low \in 0..(2^pos - 1)
      /\ high \in Int
  BY <1>1 DEF Stands
<1>3. w \div 2^pos = 2^len * high + field
  BY <1>1, <1>2, DivisionUnique DEF Stands
<1>4. (2^len * high + field) % 2^len = field
  BY <1>1, <1>2, DivisionUnique
<1>5. QED BY <1>3, <1>4 DEF Field

----------------------------------------------------------------------------
(* The words that the assembler makes, group by group, and their fields.   *)
AluBits(w, op, mode, a, b) ==
  /\ op \in 0..15 /\ mode \in 0..3 /\ a \in 0..15 /\ b \in 0..15
  /\ w = ALU * 2^14 + op * 2^10 + mode * 2^8 + a * 2^4 + b

LdsBits(w, op, mode, a, b) ==
  /\ op \in 0..3 /\ mode \in 0..3 /\ a \in 0..15 /\ b \in 0..15
  /\ w = LDS * 2^14 + op * 2^11 + mode * 2^8 + a * 2^4 + b

JmpBits(w, skip, cond, mode, link, b) ==
  /\ skip \in 0..3 /\ cond \in 0..3 /\ mode \in 0..3 /\ link \in 0..1 /\ b \in 0..15
  /\ w = JMP * 2^14 + skip * 2^12 + cond * 2^10 + mode * 2^8 + link * 2^7 + b

LEMMA AluFields ==
  ASSUME NEW w, NEW op, NEW mode, NEW a, NEW b, AluBits(w, op, mode, a, b)
  PROVE  /\ Field(w, 14, 2) = ALU /\ Field(w, 10, 4) = op /\ Field(w, 8, 2) = mode
         /\ Field(w, 4, 4) = a /\ Field(w, 0, 4) = b /\ Field(w, 0, 8) = a * 16 + b
         /\ w \in Int /\ 0 <= w /\ w < 4 * (64 * 256)
<1>0. /\ w = 3 * (64 * 256) + op * (4 * 256) + mode * 256 + a * 16 + b
      /\ op \in 0..15 /\ mode \in 0..3 /\ a \in 0..15 /\ b \in 0..15
  BY Powers DEF AluBits, ALU
<1>1. Field(w, 14, 2) = 3
  <2> DEFINE low == op * (4 * 256) + mode * 256 + a * 16 + b
  <2>1. Stands(w, 3, 14, 2, 0, low)
    <3>1. low \in 0..(2^14 - 1) /\ 3 \in 0..(2^2 - 1)
      BY <1>0, Powers
    <3>2. w = 2^14 * (2^2 * 0 + 3) + low
      BY <1>0, Powers
    <3>3. QED BY <3>1, <3>2 DEF Stands
  <2> HIDE DEF low
  <2>2. QED BY <2>1, FieldOf
<1>2. Field(w, 10, 4) = op
  <2> DEFINE low == mode * 256 + a * 16 + b
  <2>1. Stands(w, op, 10, 4, 3, low)
    <3>1. low \in 0..(2^10 - 1) /\ op \in 0..(2^4 - 1)
      BY <1>0, Powers
    <3>2. w = 2^10 * (2^4 * 3 + op) + low
      BY <1>0, Powers
    <3>3. QED BY <3>1, <3>2 DEF Stands
  <2> HIDE DEF low
  <2>2. QED BY <2>1, FieldOf
<1>3. Field(w, 8, 2) = mode
  <2> DEFINE low == a * 16 + b
             high == 3 * 16 + op
  <2>1. Stands(w, mode, 8, 2, high, low)
    <3>1. low \in 0..(2^8 - 1) /\ mode \in 0..(2^2 - 1) /\ high \in Nat
      BY <1>0, Powers
    <3>2. w = 2^8 * (2^2 * high + mode) + low
      BY <1>0, Powers
    <3>3. QED BY <3>1, <3>2 DEF Stands
  <2> HIDE DEF low, high
  <2>2. QED BY <2>1, FieldOf
<1> DEFINE top == (3 * 16 + op) * 4 + mode
<1>4. Field(w, 4, 4) = a
  <2>1. Stands(w, a, 4, 4, top, b)
    <3>1. b \in 0..(2^4 - 1) /\ a \in 0..(2^4 - 1) /\ top \in Nat
      BY <1>0, Powers
    <3>2. w = 2^4 * (2^4 * top + a) + b
      BY <1>0, Powers
    <3>3. QED BY <3>1, <3>2 DEF Stands
  <2> HIDE DEF top
  <2>2. QED BY <2>1, FieldOf
<1>5. Field(w, 0, 4) = b
  <2> DEFINE high == top * 16 + a
  <2>1. Stands(w, b, 0, 4, high, 0)
    <3>1. 0 \in 0..(2^0 - 1) /\ b \in 0..(2^4 - 1) /\ high \in Nat
      BY <1>0, Powers
    <3>2. w = 2^0 * (2^4 * high + b) + 0
      BY <1>0, Powers
    <3>3. QED BY <3>1, <3>2 DEF Stands
  <2> HIDE DEF high
  <2>2. QED BY <2>1, FieldOf
<1>6. Field(w, 0, 8) = a * 16 + b
  <2> DEFINE c == a * 16 + b
  <2>1. Stands(w, c, 0, 8, top, 0)
    <3>1. 0 \in 0..(2^0 - 1) /\ c \in 0..(2^8 - 1) /\ top \in Nat
      BY <1>0, Powers
    <3>2. w = 2^0 * (2^8 * top + c) + 0
      BY <1>0, Powers
    <3>3. QED BY <3>1, <3>2 DEF Stands
  <2> HIDE DEF top, c
  <2>2. Field(w, 0, 8) = c
    BY <2>1, FieldOf
  <2>3. QED BY <2>2 DEF c
<1>7. w \in Int /\ 0 <= w /\ w < 4 * (64 * 256)
  BY <1>0
<1>8. QED BY <1>1, <1>2, <1>3, <1>4, <1>5, <1>6, <1>7 DEF ALU

LEMMA LdsFields ==
  ASSUME NEW w, NEW op, NEW mode, NEW a, NEW b, LdsBits(w, op, mode, a, b)
  PROVE  /\ Field(w, 14, 2) = LDS /\ Field(w, 11, 2) = op /\ Field(w, 8, 3) = mode
         /\ Field(w, 10, 1) = 0 /\ Field(w, 4, 4) = a /\ Field(w, 0, 4) = b
         /\ w \in Int /\ 0 <= w /\ w < 4 * (64 * 256)
<1>0. /\ w = 64 * 256 + op * (8 * 256) + mode * 256 + a * 16 + b
      /\ op \in 0..3 /\ mode \in 0..3 /\ a \in 0..15 /\ b \in 0..15
  BY Powers DEF LdsBits, LDS
<1>1. Field(w, 14, 2) = 1
  <2> DEFINE low == op * (8 * 256) + mode * 256 + a * 16 + b
  <2>1. Stands(w, 1, 14, 2, 0, low)
    <3>1. low \in 0..(2^14 - 1) /\ 1 \in 0..(2^2 - 1)
      BY <1>0, Powers
    <3>2. w = 2^14 * (2^2 * 0 + 1) + low
      BY <1>0, Powers
    <3>3. QED BY <3>1, <3>2 DEF Stands
  <2> HIDE DEF low
  <2>2. QED BY <2>1, FieldOf
<1>2. Field(w, 11, 2) = op
  <2> DEFINE low == mode * 256 + a * 16 + b
  <2>1. Stands(w, op, 11, 2, 2, low)
    <3>1. low \in 0..(2^11 - 1) /\ op \in 0..(2^2 - 1)
      BY <1>0, Powers
    <3>2. w = 2^11 * (2^2 * 2 + op) + low
      BY <1>0, Powers
    <3>3. QED BY <3>1, <3>2 DEF Stands
  <2> HIDE DEF low
  <2>2. QED BY <2>1, FieldOf
<1>3. Field(w, 8, 3) = mode
  <2> DEFINE low == a * 16 + b
             high == 8 + op
  <2>1. Stands(w, mode, 8, 3, high, low)
    <3>1. low \in 0..(2^8 - 1) /\ mode \in 0..(2^3 - 1) /\ high \in Nat
      BY <1>0, Powers
    <3>2. w = 2^8 * (2^3 * high + mode) + low
      BY <1>0, Powers
    <3>3. QED BY <3>1, <3>2 DEF Stands
  <2> HIDE DEF low, high
  <2>2. QED BY <2>1, FieldOf
<1>4. Field(w, 10, 1) = 0
  <2> DEFINE low == mode * 256 + a * 16 + b
             high == 8 + op
  <2>1. Stands(w, 0, 10, 1, high, low)
    <3>1. low \in 0..(2^10 - 1) /\ 0 \in 0..(2^1 - 1) /\ high \in Nat
      BY <1>0, Powers
    <3>2. w = 2^10 * (2^1 * high + 0) + low
      BY <1>0, Powers
    <3>3. QED BY <3>1, <3>2 DEF Stands
  <2> HIDE DEF low, high
  <2>2. QED BY <2>1, FieldOf
<1> DEFINE top == (8 + op) * 8 + mode
<1>5. Field(w, 4, 4) = a
  <2>1. Stands(w, a, 4, 4, top, b)
    <3>1. b \in 0..(2^4 - 1) /\ a \in 0..(2^4 - 1) /\ top \in Nat
      BY <1>0, Powers
    <3>2. w = 2^4 * (2^4 * top + a) + b
      BY <1>0, Powers
    <3>3. QED BY <3>1, <3>2 DEF Stands
  <2> HIDE DEF top
  <2>2. QED BY <2>1, FieldOf
<1>6. Field(w, 0, 4) = b
  <2> DEFINE high == top * 16 + a
  <2>1. Stands(w, b, 0, 4, high, 0)
    <3>1. 0 \in 0..(2^0 - 1) /\ b \in 0..(2^4 - 1) /\ high \in Nat
      BY <1>0, Powers
    <3>2. w = 2^0 * (2^4 * high + b) + 0
      BY <1>0, Powers
    <3>3. QED BY <3>1, <3>2 DEF Stands
  <2> HIDE DEF high
  <2>2. QED BY <2>1, FieldOf
<1>7. w \in Int /\ 0 <= w /\ w < 4 * (64 * 256)
  BY <1>0
<1>8. QED BY <1>1, <1>2, <1>3, <1>4, <1>5, <1>6, <1>7 DEF LDS

(* skip is 0 for "always", 2 for "on the flag", 3 for "on its complement". *)
LEMMA JmpFields ==
  ASSUME NEW w, NEW skip, NEW cond, NEW mode, NEW link, NEW b, JmpBits(w, skip, cond, mode, link, b)
  PROVE  /\ Field(w, 14, 2) = JMP /\ Field(w, 12, 2) = skip /\ Field(w, 10, 2) = cond
         /\ Field(w, 8, 2) = mode /\ Field(w, 7, 1) = link /\ Field(w, 0, 4) = b
         /\ w \in Int /\ 0 <= w /\ w < 4 * (64 * 256)
<1>0. /\ w = 2 * (64 * 256) + skip * (16 * 256) + cond * (4 * 256) + mode * 256 + link * 128 + b
      /\ skip \in 0..3 /\ cond \in 0..3 /\ mode \in 0..3 /\ link \in 0..1 /\ b \in 0..15
  BY Powers DEF JmpBits, JMP
<1>1. Field(w, 14, 2) = 2
  <2> DEFINE low == skip * (16 * 256) + cond * (4 * 256) + mode * 256 + link * 128 + b
  <2>1. Stands(w, 2, 14, 2, 0, low)
    <3>1. low \in 0..(2^14 - 1) /\ 2 \in 0..(2^2 - 1)
      BY <1>0, Powers
    <3>2. w = 2^14 * (2^2 * 0 + 2) + low
      BY <1>0, Powers
    <3>3. QED BY <3>1, <3>2 DEF Stands
  <2> HIDE DEF low
  <2>2. QED BY <2>1, FieldOf
<1>2. Field(w, 12, 2) = skip
  <2> DEFINE low == cond * (4 * 256) + mode * 256 + link * 128 + b
  <2>1. Stands(w, skip, 12, 2, 2, low)
    <3>1. low \in 0..(2^12 - 1) /\ skip \in 0..(2^2 - 1)
      BY <1>0, Powers
    <3>2. w = 2^12 * (2^2 * 2 + skip) + low
      BY <1>0, Powers
    <3>3. QED BY <3>1, <3>2 DEF Stands
  <2> HIDE DEF low
  <2>2. QED BY <2>1, FieldOf
<1>3. Field(w, 10, 2) = cond
  <2> DEFINE low == mode * 256 + link * 128 + b
             high == 8 + skip
  <2>1. Stands(w, cond, 10, 2, high, low)
    <3>1. low \in 0..(2^10 - 1) /\ cond \in 0..(2^2 - 1) /\ high \in Nat
      BY <1>0, Powers
    <3>2. w = 2^10 * (2^2 * high + cond) + low
      BY <1>0, Powers
    <3>3. QED BY <3>1, <3>2 DEF Stands
  <2> HIDE DEF low, high
  <2>2. QED BY <2>1, FieldOf
<1> DEFINE top == (8 + skip) * 4 + cond
<1>4. Field(w, 8, 2) = mode
  <2> DEFINE low == link * 128 + b
  <2>1. Stands(w, mode, 8, 2, top, low)
    <3>1. low \in 0..(2^8 - 1) /\ mode \in 0..(2^2 - 1) /\ top \in Nat
      BY <1>0, Powers
    <3>2. w = 2^8 * (2^2 * top + mode) + low
      BY <1>0, Powers
    <3>3. QED BY <3>1, <3>2 DEF Stands
  <2> HIDE DEF low, top
  <2>2. QED BY <2>1, FieldOf
<1>5. Field(w, 7, 1) = link
  <2> DEFINE high == top * 4 + mode
  <2>1. Stands(w, link, 7, 1, high, b)
    <3>1. b \in 0..(2^7 - 1) /\ link \in 0..(2^1 - 1) /\ high \in Nat
      BY <1>0, Powers
    <3>2. w = 2^7 * (2^1 * high + link) + b
      BY <1>0, Powers
    <3>3. QED BY <3>1, <3>2 DEF Stands
  <2> HIDE DEF high
  <2>2. QED BY <2>1, FieldOf
<1>6. Field(w, 0, 4) = b
  <2> DEFINE high == ((top * 4 + mode) * 2 + link) * 8
  <2>1. Stands(w, b, 0, 4, high, 0)
    <3>1. 0 \in 0..(2^0 - 1) /\ b \in 0..(2^4 - 1) /\ high \in Nat
      BY <1>0, Powers
    <3>2. w = 2^0 * (2^4 * high + b) + 0
      BY <1>0, Powers
    <3>3. QED BY <3>1, <3>2 DEF Stands
  <2> HIDE DEF high
  <2>2. QED BY <2>1, FieldOf
<1>7. w \in Int /\ 0 <= w /\ w < 4 * (64 * 256)
  BY <1>0
<1>8. QED BY <1>1, <1>2, <1>3, <1>4, <1>5, <1>6, <1>7 DEF JMP

LEMMA GenFields ==
  ASSUME NEW op \in 0..7, NEW w, w = op * 2^8
  PROVE  /\ Field(w, 14, 2) = GEN /\ Field(w, 8, 3) = op
         /\ w \in Int /\ 0 <= w /\ w < 4 * (64 * 256)
<1>1. Field(w, 14, 2) = 0
  <2>1. Stands(w, 0, 14, 2, 0, w)
    <3>1. w \in 0..(2^14 - 1) /\ 0 \in 0..(2^2 - 1)
      BY Powers
    <3>2. w = 2^14 * (2^2 * 0 + 0) + w
      BY <3>1, Powers
    <3>3. QED BY <3>1, <3>2 DEF Stands
  <2>2. QED BY <2>1, FieldOf
<1>2. Field(w, 8, 3) = op
  <2>1. Stands(w, op, 8, 3, 0, 0)
    <3>1. 0 \in 0..(2^8 - 1) /\ op \in 0..(2^3 - 1)
      BY Powers
    <3>2. w = 2^8 * (2^3 * 0 + op) + 0
      BY Powers
    <3>3. QED BY <3>1, <3>2 DEF Stands
  <2>2. QED BY <2>1, FieldOf
<1>3. w \in Int /\ 0 <= w /\ w < 4 * (64 * 256)
  BY Powers
<1>4. QED BY <1>1, <1>2, <1>3 DEF GEN
----------------------------------------------------------------------------
(* A word that stands for a source line: it is one, it is not of the LDX   *)
(* group that the decoder lacks, and the CPU makes of it what the line     *)
(* says.                                                                   *)
Codes(w, i) ==
  /\ w \in Word /\ ~IsLdx(w)
  /\ Field(w, 14, 2) = i.group /\ Decode(w) = i

(* 2^16 words, of four groups.                                             *)
LEMMA WordBound ==
  ASSUME NEW w \in Int, 0 <= w, w < 4 * (64 * 256)
  PROVE  w \in Word
<1>1. Base = 256 * 256
  BY Powers, WordFacts
<1>2. w < Base
  BY <1>1
<1>3. QED BY <1>2, WordIs

LEMMA GenCodes ==
  ASSUME NEW op \in 0..4
  PROVE  Codes(Assemble([group |-> GEN, op |-> op]), [group |-> GEN, op |-> op])
<1> DEFINE i == [group |-> GEN, op |-> op]
           w == op * 2^8
<1>1. Assemble(i) = w
  <2>1. Assemble(i) = GEN * 2^14 + op * 2^8
    BY DEF Assemble, AssembleGen, GEN, LDS, JMP, ALU
  <2>2. 0 * 2^14 + op * 2^8 = op * 2^8
    BY Powers
  <2>3. QED BY <2>1, <2>2 DEF GEN
<1>2. op \in 0..7
  OBVIOUS
<1>3. Field(w, 14, 2) = GEN /\ Field(w, 8, 3) = op /\ w \in Word
  <2>1. Field(w, 14, 2) = GEN /\ Field(w, 8, 3) = op
    BY <1>2, GenFields
  <2>2. w \in Int /\ 0 <= w /\ w < 4 * (64 * 256)
    BY <1>2, GenFields
  <2>3. w \in Word
    BY <2>2, WordBound
  <2>4. QED BY <2>1, <2>3
<1>4. Decode(w) = i
  BY <1>3 DEF Decode, GEN, LDS, JMP, ALU
<1>5. ~IsLdx(w)
  BY <1>3 DEF IsLdx, GEN, LDS
<1> HIDE DEF w
<1>6. QED BY <1>1, <1>3, <1>4, <1>5 DEF Codes

LEMMA LdsCodes ==
  ASSUME NEW op \in 0..3, NEW mode \in 0..3, NEW a \in Reg, NEW b \in Reg
  PROVE  Codes(Mem(op, mode, a, b),
               [group |-> LDS, op |-> op, mode |-> mode, a |-> a, b |-> b])
<1> DEFINE i == [group |-> LDS, op |-> op, mode |-> mode, a |-> a, b |-> b]
           w == LDS * 2^14 + op * 2^11 + mode * 2^8 + a * 2^4 + b
<1>1. Mem(op, mode, a, b) = w
  <2>1. Mem(op, mode, a, b) = LDS * 2^14 + op * 2^11 + mode * 2^8 + (a % 16) * 2^4 + (b % 16)
    BY DEF Mem, Assemble, AssembleLds, ArgA, ArgB, LdsWord, GEN, LDS, JMP, ALU
  <2>2. a % 16 = a /\ b % 16 = b
    BY DEF Reg
  <2>3. QED BY <2>1, <2>2
<1>2. LdsBits(w, op, mode, a, b)
  BY DEF Reg, LdsBits
<1> HIDE DEF w
<1>3. /\ Field(w, 14, 2) = LDS /\ Field(w, 11, 2) = op /\ Field(w, 8, 3) = mode
      /\ Field(w, 10, 1) = 0 /\ Field(w, 4, 4) = a /\ Field(w, 0, 4) = b /\ w \in Word
  <2>1. /\ Field(w, 14, 2) = LDS /\ Field(w, 11, 2) = op /\ Field(w, 8, 3) = mode
        /\ Field(w, 10, 1) = 0 /\ Field(w, 4, 4) = a /\ Field(w, 0, 4) = b
    BY <1>2, LdsFields
  <2>2. w \in Int /\ 0 <= w /\ w < 4 * (64 * 256)
    BY <1>2, LdsFields
  <2>3. w \in Word
    BY <2>2, WordBound
  <2>4. QED BY <2>1, <2>3
<1>4. Decode(w) = i
  <2>1. Decode(w) = DecodeLds(w)
    BY <1>3 DEF Decode, GEN, LDS, JMP, ALU
  <2>2. QED BY <1>3, <2>1 DEF DecodeLds
<1>5. ~IsLdx(w)
  BY <1>3 DEF IsLdx
<1>6. QED BY <1>1, <1>3, <1>4, <1>5 DEF Codes

LEMMA AluCodes ==
  ASSUME NEW op \in 0..15, NEW mode \in {RegReg, RegU4}, NEW a \in Reg, NEW b \in 0..15
  PROVE  LET i == [group |-> ALU, op |-> op, mode |-> mode, a |-> a, arg |-> b]
         IN  Codes(Assemble(i), i)
<1> DEFINE i == [group |-> ALU, op |-> op, mode |-> mode, a |-> a, arg |-> b]
           w == ALU * 2^14 + op * 2^10 + mode * 2^8 + a * 2^4 + b
<1>1. Assemble(i) = w
  <2>1. Assemble(i) = ALU * 2^14 + op * 2^10 + mode * 2^8 + (a % 16) * 2^4 + (b % 16)
    <3>1. Assemble(i) = AssembleAlu(i)
      BY DEF Assemble, GEN, LDS, JMP, ALU
    <3>2. QED BY <3>1 DEF AssembleAlu, ArgA, ArgB, AluWord
  <2>2. a % 16 = a /\ b % 16 = b
    BY DEF Reg
  <2>3. QED BY <2>1, <2>2
<1>2. AluBits(w, op, mode, a, b)
  BY DEF Reg, RegReg, RegU4, AluBits
<1> HIDE DEF w
<1>3. /\ Field(w, 14, 2) = ALU /\ Field(w, 10, 4) = op /\ Field(w, 8, 2) = mode
      /\ Field(w, 4, 4) = a /\ Field(w, 0, 4) = b /\ w \in Word
  <2>1. /\ Field(w, 14, 2) = ALU /\ Field(w, 10, 4) = op /\ Field(w, 8, 2) = mode
        /\ Field(w, 4, 4) = a /\ Field(w, 0, 4) = b
    BY <1>2, AluFields
  <2>2. w \in Int /\ 0 <= w /\ w < 4 * (64 * 256)
    BY <1>2, AluFields
  <2>3. w \in Word
    BY <2>2, WordBound
  <2>4. QED BY <2>1, <2>3
<1>4. Decode(w) = i
  <2>1. Decode(w) = DecodeAlu(w)
    BY <1>3 DEF Decode, GEN, LDS, JMP, ALU
  <2>2. mode \in {RegReg, RegU4} /\ mode # U8 /\ mode # S8
    BY DEF RegReg, RegU4, U8, S8
  <2>3. QED BY <1>3, <2>1, <2>2 DEF DecodeAlu
<1>5. ~IsLdx(w)
  BY <1>3 DEF IsLdx, ALU, LDS
<1>6. QED BY <1>1, <1>3, <1>4, <1>5 DEF Codes

(* An operand of eight bits, signed or not, is in both register fields.    *)
LEMMA ByteHalves ==
  ASSUME NEW n \in (-128)..255
  PROVE  /\ (n \div 16) % 16 \in 0..15 /\ n % 16 \in 0..15
         /\ ((n \div 16) % 16) * 16 + (n % 16) = IF n < 0 THEN n + 256 ELSE n
<1> DEFINE q == n \div 16
           r == n % 16
<1>1. n = 16 * q + r /\ q \in Int /\ r \in 0..15
  BY DivisionFacts
<1>2. q \in (-8)..15
  BY <1>1
<1>3. CASE n < 0
  <2>1. q % 16 = q + 16
    BY <1>1, <1>2, <1>3
  <2>2. QED BY <1>1, <1>2, <1>3, <2>1
<1>4. CASE n >= 0
  <2>1. q % 16 = q
    BY <1>1, <1>2, <1>4
  <2>2. QED BY <1>1, <1>2, <1>4, <2>1
<1>5. QED BY <1>3, <1>4

LEMMA AluByteCodes ==
  ASSUME NEW op \in 0..15, NEW mode \in {U8, S8},
         NEW n \in IF mode = U8 THEN 0..255 ELSE (-128)..127
  PROVE  LET i == [group |-> ALU, op |-> op, mode |-> mode, a |-> RA, arg |-> n]
         IN  Codes(Assemble(i), i)
<1> DEFINE i == [group |-> ALU, op |-> op, mode |-> mode, a |-> RA, arg |-> n]
           x == (n \div 16) % 16
           y == n % 16
           w == ALU * 2^14 + op * 2^10 + mode * 2^8 + x * 2^4 + y
<1>1. /\ x \in 0..15 /\ y \in 0..15 /\ mode \in 0..3
      /\ x * 16 + y = IF n < 0 THEN n + 256 ELSE n
  <2>1. n \in (-128)..255 /\ mode \in 0..3
    BY DEF U8, S8
  <2>2. QED BY <2>1, ByteHalves
<1>2. Assemble(i) = w
  <2>1. Assemble(i) = ALU * 2^14 + op * 2^10 + mode * 2^8 + x * 2^4 + y
    <3>1. Assemble(i) = AssembleAlu(i)
      BY DEF Assemble, GEN, LDS, JMP, ALU
    <3>2. i.mode \notin {RegReg, RegU4}
      BY DEF U8, S8, RegReg, RegU4
    <3>3. QED BY <3>1, <3>2 DEF AssembleAlu, ArgA, ArgB, AluWord
  <2>2. QED BY <2>1
<1>3. AluBits(w, op, mode, x, y)
  BY <1>1 DEF AluBits
<1> HIDE DEF w, x, y
<1>4. /\ Field(w, 14, 2) = ALU /\ Field(w, 10, 4) = op /\ Field(w, 8, 2) = mode
      /\ Field(w, 0, 8) = x * 16 + y /\ w \in Word
  <2>1. /\ Field(w, 14, 2) = ALU /\ Field(w, 10, 4) = op /\ Field(w, 8, 2) = mode
        /\ Field(w, 0, 8) = x * 16 + y
    BY <1>1, <1>3, AluFields
  <2>2. w \in Int /\ 0 <= w /\ w < 4 * (64 * 256)
    BY <1>1, <1>3, AluFields
  <2>3. w \in Word
    BY <2>2, WordBound
  <2>4. QED BY <2>1, <2>3
<1>5. mode = S8 => Signed8(x * 16 + y) = n
  BY <1>1 DEF Signed8, U8, S8
<1>6. mode = U8 => x * 16 + y = n
  BY <1>1
<1>7. Decode(w) = i
  <2>1. Decode(w) = DecodeAlu(w)
    BY <1>4 DEF Decode, GEN, LDS, JMP, ALU
  <2>2. mode \notin {RegReg, RegU4}
    BY DEF U8, S8, RegReg, RegU4
  <2>3. CASE mode = U8
    BY <1>4, <1>6, <2>1, <2>2, <2>3 DEF DecodeAlu, U8, S8
  <2>4. CASE mode = S8
    BY <1>4, <1>5, <2>1, <2>2, <2>4 DEF DecodeAlu, U8, S8
  <2>5. QED BY <2>3, <2>4
<1>8. ~IsLdx(w)
  BY <1>4 DEF IsLdx, ALU, LDS
<1>9. QED BY <1>2, <1>4, <1>7, <1>8 DEF Codes

LEMMA JmpCodes ==
  ASSUME NEW mode \in 0..3, NEW link \in BOOLEAN, NEW cond \in Conditions \cup {-1},
         NEW negated \in BOOLEAN, NEW b \in Reg,
         cond = -1 => negated = FALSE, mode \in {AbsHere, RelHere} => b = 0
  PROVE  Codes(Jump(mode, link, cond, negated, b),
               [group |-> JMP, mode |-> mode, link |-> link, cond |-> cond,
                negated |-> negated, b |-> b])
<1> DEFINE i == [group |-> JMP, mode |-> mode, link |-> link, cond |-> cond,
                 negated |-> negated, b |-> b]
           skip == IF cond = -1 THEN 0 ELSE IF negated THEN 3 ELSE 2
           c == IF cond = -1 THEN 0 ELSE cond
           l == IF link THEN 1 ELSE 0
           w == JMP * 2^14 + skip * 2^12 + c * 2^10 + mode * 2^8 + l * 2^7 + b
<1>1. skip \in 0..3 /\ c \in 0..3 /\ l \in 0..1 /\ b \in 0..15
  BY DEF Conditions, Reg
<1>2. Jump(mode, link, cond, negated, b) = w
  <2> DEFINE condition == IF cond = -1 THEN 0 ELSE 8 + (IF negated THEN 4 ELSE 0) + cond
             low == IF mode \in {AbsReg, IndReg} THEN b ELSE 0
  <2>1. Jump(mode, link, cond, negated, b)
          = JMP * 2^14 + mode * 2^8 + (IF link THEN 2^7 ELSE 0) + condition * 2^10
              + (low % 16)
    <3>1. Jump(mode, link, cond, negated, b) = AssembleJmp(i)
      BY DEF Jump, Assemble, GEN, LDS, JMP, ALU
    <3>2. QED BY <3>1 DEF AssembleJmp, ArgB
  <2>2. low = b /\ b % 16 = b
    BY <1>1 DEF AbsReg, IndReg, AbsHere, RelHere
  <2>3. condition = skip * 4 + c
    BY DEF Conditions
  <2>4. (IF link THEN 2^7 ELSE 0) = l * 2^7
    BY Powers
  <2> HIDE DEF condition, skip, c, l, low
  <2>5. condition * 2^10 = skip * 2^12 + c * 2^10
    BY <1>1, <2>3, Powers
  <2>6. JMP * 2^14 + mode * 2^8 + l * 2^7 + (skip * 2^12 + c * 2^10) + b = w
    BY <1>1, Powers DEF JMP
  <2>7. QED BY <2>1, <2>2, <2>4, <2>5, <2>6
<1>3. JmpBits(w, skip, c, mode, l, b)
  BY <1>1 DEF JmpBits
<1>4. /\ skip \in {2, 3} <=> cond # -1
      /\ cond # -1 => (c = cond /\ (skip = 3 <=> negated))
      /\ cond = -1 => skip = 0
      /\ l = 1 <=> link
  BY DEF Conditions
<1> HIDE DEF w, skip, c, l
<1>5. /\ Field(w, 14, 2) = JMP /\ Field(w, 12, 2) = skip /\ Field(w, 10, 2) = c
      /\ Field(w, 8, 2) = mode /\ Field(w, 7, 1) = l /\ Field(w, 0, 4) = b /\ w \in Word
  <2>1. /\ Field(w, 14, 2) = JMP /\ Field(w, 12, 2) = skip /\ Field(w, 10, 2) = c
        /\ Field(w, 8, 2) = mode /\ Field(w, 7, 1) = l /\ Field(w, 0, 4) = b
    BY <1>1, <1>3, JmpFields
  <2>2. w \in Int /\ 0 <= w /\ w < 4 * (64 * 256)
    BY <1>1, <1>3, JmpFields
  <2>3. w \in Word
    BY <2>2, WordBound
  <2>4. QED BY <2>1, <2>3
<1>6. Decode(w) = DecodeJmp(w)
  BY <1>5 DEF Decode, GEN, LDS, JMP, ALU
<1>7. /\ (Field(w, 7, 1) = 1) = link
      /\ (IF Field(w, 12, 2) \in {2, 3} THEN Field(w, 10, 2) ELSE -1) = cond
      /\ (Field(w, 12, 2) = 3) = negated
      /\ (IF mode \in {AbsReg, IndReg} THEN Field(w, 0, 4) ELSE 0) = b
  BY <1>4, <1>5 DEF AbsReg, IndReg, AbsHere, RelHere
<1>8. DecodeJmp(w) = i
  BY <1>5, <1>7 DEF DecodeJmp
<1>9. ~IsLdx(w)
  BY <1>5 DEF IsLdx, JMP, LDS
<1>10. QED BY <1>2, <1>5, <1>6, <1>8, <1>9 DEF Codes

(* What a source line says is what the CPU does, for every instruction but *)
(* those of the LDX group: the fields the assembler fills are those the    *)
(* decoder reads.  A jump's line names a register only if its mode takes   *)
(* one, and negates only a condition.                                      *)
THEOREM AssembledIsDecoded ==
  /\ \A i \in GenLine \cup LdsLine \cup AluRegLine \cup AluU8Line \cup AluS8Line : Codes(Assemble(i), i)
  /\ \A i \in JmpLine :
       (i.cond = -1 => i.negated = FALSE) /\ (i.mode \in {AbsHere, RelHere} => i.b = 0)
         => Codes(Assemble(i), i)
<1>1. ASSUME NEW i \in GenLine PROVE Codes(Assemble(i), i)
  <2>1. i = [group |-> GEN, op |-> i.op] /\ i.op \in 0..4
    BY DEF GenLine
  <2>2. Codes(Assemble([group |-> GEN, op |-> i.op]), [group |-> GEN, op |-> i.op])
    BY <2>1, GenCodes
  <2>3. QED BY <2>1, <2>2
<1>2. ASSUME NEW i \in LdsLine PROVE Codes(Assemble(i), i)
  <2>1. /\ i = [group |-> LDS, op |-> i.op, mode |-> i.mode, a |-> i.a, b |-> i.b]
        /\ i.op \in 0..3 /\ i.mode \in 0..3 /\ i.a \in Reg /\ i.b \in Reg
    BY DEF LdsLine
  <2>2. Codes(Mem(i.op, i.mode, i.a, i.b),
              [group |-> LDS, op |-> i.op, mode |-> i.mode, a |-> i.a, b |-> i.b])
    BY <2>1, LdsCodes
  <2>3. QED BY <2>1, <2>2 DEF Mem
<1>3. ASSUME NEW i \in AluRegLine PROVE Codes(Assemble(i), i)
  <2> DEFINE line == [group |-> ALU, op |-> i.op, mode |-> i.mode, a |-> i.a, arg |-> i.arg]
  <2>1. /\ i = line
        /\ i.op \in 0..15 /\ i.mode \in {RegReg, RegU4} /\ i.a \in Reg /\ i.arg \in 0..15
    BY DEF AluRegLine
  <2>2. Codes(Assemble(line), line)
    BY <2>1, AluCodes
  <2>3. QED BY <2>1, <2>2
<1>4. ASSUME NEW i \in AluU8Line \cup AluS8Line PROVE Codes(Assemble(i), i)
  <2> DEFINE line == [group |-> ALU, op |-> i.op, mode |-> i.mode, a |-> RA, arg |-> i.arg]
  <2>1. /\ i = line
        /\ i.op \in 0..15 /\ i.mode \in {U8, S8}
        /\ i.arg \in IF i.mode = U8 THEN 0..255 ELSE (-128)..127
    BY DEF AluU8Line, AluS8Line, U8, S8
  <2>2. Codes(Assemble(line), line)
    BY <2>1, AluByteCodes
  <2>3. QED BY <2>1, <2>2
<1>5. ASSUME NEW i \in JmpLine, i.cond = -1 => i.negated = FALSE, i.mode \in {AbsHere, RelHere} => i.b = 0
      PROVE  Codes(Assemble(i), i)
  <2> DEFINE line == [group |-> JMP, mode |-> i.mode, link |-> i.link, cond |-> i.cond,
                      negated |-> i.negated, b |-> i.b]
  <2>1. /\ i = line
        /\ i.mode \in 0..3 /\ i.link \in BOOLEAN /\ i.cond \in Conditions \cup {-1}
        /\ i.negated \in BOOLEAN /\ i.b \in Reg
    BY DEF JmpLine
  <2>2. Codes(Jump(i.mode, i.link, i.cond, i.negated, i.b), line)
    BY <1>5, <2>1, JmpCodes
  <2>3. QED BY <2>1, <2>2 DEF Jump
<1>6. QED BY <1>1, <1>2, <1>3, <1>4, <1>5
----------------------------------------------------------------------------
(* What the decoder takes from any word is in range.                       *)
LEMMA FieldBound ==
  ASSUME NEW w \in Int, NEW pos \in Nat, NEW len \in Nat
  PROVE  Field(w, pos, len) \in 0..(2^len - 1)
<1>1. 2^pos \in Nat \ {0} /\ 2^len \in Nat \ {0}
  BY PowerStep
<1>2. w \div 2^pos \in Int
  BY <1>1
<1>3. QED BY <1>1, <1>2 DEF Field

LEMMA FieldRanges ==
  ASSUME NEW w \in Int
  PROVE  /\ Field(w, 14, 2) \in 0..3 /\ Field(w, 12, 2) \in 0..3 /\ Field(w, 11, 2) \in 0..3
         /\ Field(w, 10, 2) \in 0..3 /\ Field(w, 10, 4) \in 0..15 /\ Field(w, 8, 2) \in 0..3
         /\ Field(w, 8, 3) \in 0..7 /\ Field(w, 4, 4) \in 0..15 /\ Field(w, 0, 4) \in 0..15
         /\ Field(w, 0, 8) \in Int /\ Field(w, 10, 1) \in 0..1
<1>1. \A pos, len \in Nat : Field(w, pos, len) \in 0..(2^len - 1)
  BY FieldBound
<1>2. /\ 2^1 - 1 = 1 /\ 2^2 - 1 = 3 /\ 2^3 - 1 = 7 /\ 2^4 - 1 = 15
  BY Powers
<1>3. \A pos \in Nat : /\ Field(w, pos, 1) \in 0..1 /\ Field(w, pos, 2) \in 0..3
                      /\ Field(w, pos, 3) \in 0..7 /\ Field(w, pos, 4) \in 0..15
  BY <1>1, <1>2
<1>4. \A pos, len \in Nat : Field(w, pos, len) \in Int
  <2>1. \A len \in Nat : 0..(2^len - 1) \subseteq Int
    BY PowerStep
  <2>2. QED BY <1>1, <2>1
<1>5. QED BY <1>3, <1>4

LEMMA DecodedAlu ==
  ASSUME NEW w \in Int, Field(w, 14, 2) = ALU
  PROVE  /\ Decode(w).op \in 0..15 /\ Decode(w).a \in Reg /\ Decode(w).arg \in Int
         /\ Decode(w).mode = RegReg => Decode(w).arg \in Reg
<1>1. Decode(w) = DecodeAlu(w)
  BY DEF Decode, GEN, LDS, JMP, ALU
<1>2. /\ Field(w, 10, 4) \in 0..15 /\ Field(w, 8, 2) \in 0..3 /\ Field(w, 4, 4) \in 0..15
      /\ Field(w, 0, 4) \in 0..15 /\ Field(w, 0, 8) \in Int
  BY FieldRanges
<1>3. Signed8(Field(w, 0, 8)) \in Int
  BY <1>2 DEF Signed8
<1>4. Decode(w).op \in 0..15 /\ Decode(w).a \in Reg
  BY <1>1, <1>2 DEF DecodeAlu, Reg, RA
<1>5. CASE Field(w, 8, 2) \in {RegReg, RegU4}
  <2>1. Decode(w).arg = Field(w, 0, 4)
    BY <1>1, <1>5 DEF DecodeAlu, RegReg, RegU4, U8, S8
  <2>2. QED BY <1>2, <1>4, <2>1 DEF Reg
<1>6. CASE Field(w, 8, 2) \notin {RegReg, RegU4}
  <2>1. Field(w, 8, 2) = U8 \/ Field(w, 8, 2) = S8
    BY <1>2, <1>6 DEF RegReg, RegU4, U8, S8
  <2>2. Decode(w).arg \in Int
    BY <1>1, <1>2, <1>3, <2>1 DEF DecodeAlu, RegReg, RegU4, U8, S8
  <2>3. Decode(w).mode # RegReg
    BY <1>1, <1>6 DEF DecodeAlu
  <2>4. QED BY <1>4, <2>2, <2>3
<1>7. QED BY <1>5, <1>6

(* Without the LDX bit, the three bits of the mode are a mode.             *)
LEMMA DecodedLds ==
  ASSUME NEW w \in Int, Field(w, 14, 2) = LDS, ~IsLdx(w)
  PROVE  /\ Decode(w).op \in 0..3 /\ Decode(w).mode \in 0..3
         /\ Decode(w).a \in Reg /\ Decode(w).b \in Reg
<1>1. Decode(w) = DecodeLds(w)
  BY DEF Decode, GEN, LDS, JMP, ALU
<1>2. /\ Field(w, 11, 2) \in 0..3 /\ Field(w, 8, 3) \in 0..7 /\ Field(w, 4, 4) \in 0..15
      /\ Field(w, 0, 4) \in 0..15
  BY FieldRanges
<1>3. Field(w, 8, 3) \in 0..3
  <2> DEFINE x == w \div 256
             h == x \div 8
             m == x % 8
             r == w % 256
  <2>1. Field(w, 8, 3) = m /\ m \in 0..7
    BY <1>2, Powers DEF Field
  <2>2. ASSUME m \in 4..7 PROVE FALSE
    <3>1. w = 256 * x + r /\ r \in 0..255 /\ x = 8 * h + m /\ h \in Int /\ r \in Int
      <4>1. x \in Int /\ r \in 0..255 /\ w = 256 * x + r
        OBVIOUS
      <4> HIDE DEF x, r
      <4>2. h \in Int /\ x = 8 * h + m
        BY <4>1
      <4>3. QED BY <4>1, <4>2
    <3>2. /\ 1024 \in Nat \ {0} /\ 2 \in Nat \ {0} /\ 256 * (m - 4) + r \in 0..1023
          /\ 2 * h + 1 \in Int /\ w = 1024 * (2 * h + 1) + (256 * (m - 4) + r)
      <4> HIDE DEF x, h, m, r
      <4>1. m = 4 \/ m = 5 \/ m = 6 \/ m = 7
        BY <2>2
      <4>2. QED BY <3>1, <4>1
    <3>3. w \div 1024 = 2 * h + 1
      <4> HIDE DEF x, h, m, r
      <4> DEFINE q == 2 * h + 1
                 low == 256 * (m - 4) + r
      <4>1. q \in Int /\ low \in 0..1023 /\ w = 1024 * q + low
        BY <3>2
      <4> HIDE DEF q, low
      <4>2. w \div 1024 = q
        BY <4>1
      <4>3. QED BY <4>2 DEF q
    <3>4. (2 * h + 1) % 2 = 1
      <4> HIDE DEF x, h, m, r
      <4>1. QED BY <3>1
    <3>5. Field(w, 10, 1) = 1
      <4>1. 2^10 = 1024 /\ 2^1 = 2
        BY Powers
      <4> HIDE DEF x, h, m, r
      <4>2. QED BY <3>3, <3>4, <4>1 DEF Field
    <3>6. QED BY <3>5 DEF IsLdx
  <2> HIDE DEF m
  <2>3. m \notin 4..7
    BY <2>2
  <2>4. QED BY <2>1, <2>3
<1>4. QED BY <1>1, <1>2, <1>3 DEF DecodeLds, Reg

LEMMA DecodedJmp ==
  ASSUME NEW w \in Int, Field(w, 14, 2) = JMP
  PROVE  Decode(w).mode \in 0..3 /\ Decode(w).b \in Reg
<1>1. Decode(w) = DecodeJmp(w)
  BY DEF Decode, GEN, LDS, JMP, ALU
<1>2. Field(w, 8, 2) \in 0..3 /\ Field(w, 0, 4) \in 0..15
  BY FieldRanges
<1>3. QED BY <1>1, <1>2 DEF DecodeJmp, Reg
----------------------------------------------------------------------------
(* One step of the CPU, instruction by instruction.                        *)

(* The instruction at pc is the one the source line says.                  *)
Fetches(i) == Get(pc) = {Assemble(i)} /\ Codes(Assemble(i), i)

LEMMA Executed ==
  ASSUME NEW i, Fetches(i), Step
  PROVE  /\ ~halted
         /\ i.group = GEN => Gen(Assemble(i))
         /\ i.group = LDS => Load(Assemble(i)) \/ Store(Assemble(i))
         /\ i.group = ALU => Alu(Assemble(i))
         /\ i.group = JMP => Jmp(Assemble(i))
<1> DEFINE w == Assemble(i)
<1>1. /\ ~halted
      /\ \/ Field(w, 14, 2) = GEN /\ Gen(w)
         \/ Field(w, 14, 2) = LDS /\ ~IsLdx(w) /\ Load(w)
         \/ Field(w, 14, 2) = LDS /\ ~IsLdx(w) /\ Store(w)
         \/ IsLdx(w) /\ Ldx(w)
         \/ Field(w, 14, 2) = ALU /\ Alu(w)
         \/ Field(w, 14, 2) = JMP /\ Jmp(w)
  <2> HIDE DEF w
  <2>1. Get(pc) = {w}
    BY DEF Fetches, w
  <2>2. QED BY <2>1 DEF Step
<1>2. ~IsLdx(w) /\ Field(w, 14, 2) = i.group
  BY DEF Fetches, Codes
<1> HIDE DEF w
<1>3. \/ i.group = GEN /\ Gen(w)
      \/ i.group = LDS /\ (Load(w) \/ Store(w))
      \/ i.group = ALU /\ Alu(w)
      \/ i.group = JMP /\ Jmp(w)
  BY <1>1, <1>2
<1>4. QED BY <1>1, <1>3 DEF w, GEN, LDS, ALU, JMP

LEMMA BaseIsNat == Base \in Nat \ {0}
BY WordFacts

(* Registers are words.                                                    *)
LEMMA PlusIs ==
  ASSUME NEW a \in Int, NEW n \in Int, 0 <= a + n, a + n < 256 * 256
  PROVE  Plus(a, n) = a + n
<1>1. Base = 256 * 256
  BY Powers, WordFacts
<1> DEFINE s == a + n
<1>2. s \in Nat /\ s < Base
  BY <1>1
<1>3. s % Base = s
  <2>1. Base \in Nat
    BY WordFacts
  <2> HIDE DEF s
  <2>2. QED BY <1>2, <2>1
<1>4. QED BY <1>3 DEF Plus

LEMMA PlusSmall == \A a, n \in 0..100 : Plus(a, n) = a + n
<1>1. ASSUME NEW a \in 0..100, NEW n \in 0..100 PROVE Plus(a, n) = a + n
  <2>1. a \in Int /\ n \in Int /\ 0 <= a + n /\ a + n < 256 * 256
    OBVIOUS
  <2>2. QED BY <2>1, PlusIs
<1>2. QED BY <1>1

LEMMA SmallIsWord ==
  ASSUME NEW n \in 0..255
  PROVE  n % Base = n /\ n \in Word
<1>1. Base = 256 * 256
  BY Powers, WordFacts
<1>2. n < Base /\ n \in Nat
  BY <1>1
<1>3. n % Base = n
  <2>1. Base \in Nat
    BY WordFacts
  <2>2. QED BY <1>2, <2>1
<1>4. QED BY <1>2, <1>3, WordIs

(* An ALU instruction with register operands, with a number from 0 to 15,  *)
(* and with a number for RA.                                               *)
Computes(op, a, operand) ==
  LET result == AluResult(op, regs[a], operand, flags)
  IN  /\ regs' = [regs EXCEPT ![a] = result.value]
      /\ flags' = result.flags
      /\ pc' = Plus(pc, 2)
      /\ UNCHANGED <<halted, ram>> /\ OtherInstruction

LEMMA StepAlu ==
  ASSUME NEW i, Fetches(i), Step, i.group = ALU
  PROVE  Computes(i.op, i.a, IF i.mode = RegReg THEN regs[i.arg] ELSE i.arg % Base)
<1>1. Alu(Assemble(i)) /\ Decode(Assemble(i)) = i
  BY Executed DEF Fetches, Codes
<1>2. QED BY <1>1 DEF Alu, Computes

LEMMA StepAlu2 ==
  ASSUME NEW op \in 0..15, NEW a \in Reg, NEW b \in Reg, Step, Get(pc) = {Alu2(op, a, b)}
  PROVE  Computes(op, a, regs[b])
<1> DEFINE i == [group |-> ALU, op |-> op, mode |-> RegReg, a |-> a, arg |-> b]
<1>1. i \in AluRegLine
  BY DEF AluRegLine, Reg
<1>2. Codes(Assemble(i), i)
  BY <1>1, AssembledIsDecoded
<1>3. Fetches(i)
  BY <1>2 DEF Fetches, Alu2
<1>4. /\ i.group = ALU /\ i.op = op /\ i.a = a
      /\ (IF i.mode = RegReg THEN regs[i.arg] ELSE i.arg % Base) = regs[b]
  OBVIOUS
<1> HIDE DEF i
<1>5. QED BY <1>3, <1>4, StepAlu

LEMMA StepAluI ==
  ASSUME NEW op \in 0..15, NEW a \in Reg, NEW n \in 0..15, Step, Get(pc) = {AluI(op, a, n)}
  PROVE  Computes(op, a, n)
<1> DEFINE i == [group |-> ALU, op |-> op, mode |-> RegU4, a |-> a, arg |-> n]
<1>1. i \in AluRegLine
  BY DEF AluRegLine
<1>2. Codes(Assemble(i), i)
  BY <1>1, AssembledIsDecoded
<1>3. Fetches(i)
  BY <1>2 DEF Fetches, AluI
<1>4. n % Base = n
  BY SmallIsWord
<1>5. /\ i.group = ALU /\ i.op = op /\ i.a = a
      /\ (IF i.mode = RegReg THEN regs[i.arg] ELSE i.arg % Base) = n
  BY <1>4 DEF RegU4, RegReg
<1> HIDE DEF i
<1>6. QED BY <1>3, <1>5, StepAlu

LEMMA StepAluAI ==
  ASSUME NEW op \in 0..15, NEW n \in 0..255, Step, Get(pc) = {AluAI(op, n)}
  PROVE  Computes(op, RA, n)
<1> DEFINE i == [group |-> ALU, op |-> op, mode |-> U8, a |-> RA, arg |-> n]
<1>1. i \in AluU8Line
  BY DEF AluU8Line
<1>2. Codes(Assemble(i), i)
  BY <1>1, AssembledIsDecoded
<1>3. Fetches(i)
  BY <1>2 DEF Fetches, AluAI
<1>4. n % Base = n
  BY SmallIsWord
<1>5. /\ i.group = ALU /\ i.op = op /\ i.a = RA
      /\ (IF i.mode = RegReg THEN regs[i.arg] ELSE i.arg % Base) = n
  BY <1>4 DEF U8, RegReg
<1> HIDE DEF i
<1>6. QED BY <1>3, <1>5, StepAlu

(* The operands of a program at the start of RAM are no device.            *)
LEMMA CodeNear == \A n \in 0..62 : ~OnDevice(n)
<1>1. RamStart = 0 /\ StackTop \in 80..RamEnd /\ RamEnd \in Nat
  BY KernelProgramsAssumption, MemoryAssumption DEF KernelProgramsAssumption, MemoryAssumption
<1>2. \A n \in 0..62 : n \in RamStart..(RamEnd - 1)
  BY <1>1
<1>3. QED BY <1>2 DEF OnDevice, AddressDecode

LEMMA OperandNear == \A p \in 0..60 : ~OnDevice(Plus(p, 2))
<1>1. \A p \in 0..60 : Plus(p, 2) = p + 2
  BY PlusSmall
<1>2. \A p \in 0..60 : p + 2 \in 0..62
  OBVIOUS
<1>3. QED BY <1>1, <1>2, CodeNear

(* The jumps that the two routines are made of.  The distance of a         *)
(* relative one counts from the jump itself.                               *)
Jumps == UNCHANGED <<flags, halted, ram>> /\ OtherInstruction

Jumped(mode, link, cond, negated, b) ==
  LET taken == IF cond = -1 THEN TRUE ELSE Condition(cond) # negated
      operand == Plus(pc, 2)
      source == IF mode = IndReg THEN regs'[b] ELSE operand
  IN  /\ mode = AbsReg \/ ~OnDevice(source) => Jumps
      /\ regs' = IF taken /\ link THEN [regs EXCEPT ![RL] = LinkAddress] ELSE regs
      /\ \/ taken /\ mode = AbsReg /\ pc' = regs'[b]
         \/ taken /\ mode \in {IndReg, AbsHere} /\ pc' \in TargetsAt(source)
         \/ taken /\ mode = RelHere /\ \E v \in TargetsAt(source) : pc' = Plus(operand, v - 2)
         \/ ~taken /\ pc' = Plus(pc, IF mode \in {AbsHere, RelHere} THEN 4 ELSE 2)

LEMMA StepJmp ==
  ASSUME NEW mode \in 0..3, NEW link \in BOOLEAN, NEW cond \in Conditions \cup {-1},
         NEW negated \in BOOLEAN, NEW b \in Reg,
         cond = -1 => negated = FALSE, mode \in {AbsHere, RelHere} => b = 0,
         Step, Get(pc) = {Jump(mode, link, cond, negated, b)}
  PROVE  Jumped(mode, link, cond, negated, b)
<1> DEFINE i == [group |-> JMP, mode |-> mode, link |-> link, cond |-> cond,
                 negated |-> negated, b |-> b]
<1>1. i \in JmpLine /\ (i.cond = -1 => i.negated = FALSE) /\ (i.mode \in {AbsHere, RelHere} => i.b = 0)
  BY DEF JmpLine
<1>2. Codes(Assemble(i), i)
  BY <1>1, AssembledIsDecoded
<1>3. Fetches(i)
  BY <1>2 DEF Fetches, Jump
<1>4. /\ i.group = JMP /\ i.mode = mode /\ i.link = link /\ i.cond = cond
      /\ i.negated = negated /\ i.b = b
  OBVIOUS
<1> HIDE DEF i
<1>5. Jmp(Assemble(i)) /\ Decode(Assemble(i)) = i
  BY <1>3, <1>4, Executed DEF Fetches, Codes
<1>6. QED BY <1>4, <1>5 DEF Jmp, Jumps, Jumped

LEMMA StepCall ==
  ASSUME Step, Get(pc) = {JPIL}, ~OnDevice(Plus(pc, 2))
  PROVE  /\ Jumps
         /\ regs' = [regs EXCEPT ![RL] = LinkAddress] /\ pc' \in Get(Plus(pc, 2))
<1>1. /\ AbsHere \in 0..3 /\ TRUE \in BOOLEAN /\ -1 \in Conditions \cup {-1} /\ FALSE \in BOOLEAN
      /\ 0 \in Reg /\ Get(pc) = {Jump(AbsHere, TRUE, -1, FALSE, 0)}
  BY DEF AbsHere, Reg, JPIL
<1>2. Jumped(AbsHere, TRUE, -1, FALSE, 0)
  BY <1>1, StepJmp
<1>3. QED BY <1>1, <1>2 DEF Jumped, TargetsAt, AbsHere, AbsReg, IndReg, RelHere

LEMMA StepReturn ==
  ASSUME NEW b \in Reg, Step, Get(pc) = {JP(b)}
  PROVE  Jumps /\ regs' = regs /\ pc' = regs[b]
<1>1. /\ AbsReg \in 0..3 /\ -1 \in Conditions \cup {-1} /\ FALSE \in BOOLEAN
      /\ AbsReg \notin {AbsHere, RelHere}
      /\ Get(pc) = {Jump(AbsReg, FALSE, -1, FALSE, b)}
  BY DEF AbsReg, AbsHere, RelHere, JP
<1>2. Jumped(AbsReg, FALSE, -1, FALSE, b)
  BY <1>1, StepJmp
<1>3. QED BY <1>1, <1>2 DEF Jumped, TargetsAt, AbsHere, AbsReg, IndReg, RelHere

LEMMA StepIndirect ==
  ASSUME NEW b \in Reg, Step, Get(pc) = {JPM(b)}, ~OnDevice(regs[b])
  PROVE  Jumps /\ regs' = regs /\ pc' \in Get(regs[b])
<1>1. /\ IndReg \in 0..3 /\ -1 \in Conditions \cup {-1} /\ FALSE \in BOOLEAN
      /\ IndReg \notin {AbsHere, RelHere}
      /\ Get(pc) = {Jump(IndReg, FALSE, -1, FALSE, b)}
  BY DEF IndReg, AbsHere, RelHere, JPM
<1>2. Jumped(IndReg, FALSE, -1, FALSE, b)
  BY <1>1, StepJmp
<1>3. QED BY <1>1, <1>2 DEF Jumped, TargetsAt, AbsHere, AbsReg, IndReg, RelHere

LEMMA StepRelative ==
  ASSUME Step, Get(pc) = {JRI}, ~OnDevice(Plus(pc, 2))
  PROVE  Jumps /\ regs' = regs /\ \E v \in Get(Plus(pc, 2)) : pc' = Plus(Plus(pc, 2), v - 2)
<1>1. /\ RelHere \in 0..3 /\ -1 \in Conditions \cup {-1} /\ FALSE \in BOOLEAN /\ 0 \in Reg
      /\ Get(pc) = {Jump(RelHere, FALSE, -1, FALSE, 0)}
  BY DEF RelHere, Reg, JRI
<1>2. Jumped(RelHere, FALSE, -1, FALSE, 0)
  BY <1>1, StepJmp
<1>3. QED BY <1>1, <1>2 DEF Jumped, TargetsAt, AbsHere, AbsReg, IndReg, RelHere

LEMMA StepBranch ==
  ASSUME NEW cond \in Conditions, NEW negated \in BOOLEAN, Step, Get(pc) = {JRIif(cond, negated)},
         ~OnDevice(Plus(pc, 2))
  PROVE  /\ Jumps /\ regs' = regs
         /\ IF Condition(cond) # negated
              THEN \E v \in Get(Plus(pc, 2)) : pc' = Plus(Plus(pc, 2), v - 2)
              ELSE pc' = Plus(pc, 4)
<1>1. /\ RelHere \in 0..3 /\ cond \in Conditions \cup {-1} /\ FALSE \in BOOLEAN /\ 0 \in Reg
      /\ cond # -1 /\ Get(pc) = {Jump(RelHere, FALSE, cond, negated, 0)}
  BY DEF RelHere, Reg, JRIif, Conditions
<1>2. Jumped(RelHere, FALSE, cond, negated, 0)
  BY <1>1, StepJmp
<1>3. QED BY <1>1, <1>2 DEF Jumped, TargetsAt, AbsHere, AbsReg, IndReg, RelHere

(* HALT, EI and DI.                                                        *)
LEMMA StepGen ==
  ASSUME NEW op \in 0..4, Step, Get(pc) = {Assemble([group |-> GEN, op |-> op])}
  PROVE  /\ halted' = (op = 1) /\ pc' = Plus(pc, 2)
         /\ UNCHANGED <<regs, flags, ram>> /\ OtherInstruction
<1> DEFINE i == [group |-> GEN, op |-> op]
<1>1. i \in GenLine
  BY DEF GenLine
<1>2. Fetches(i)
  BY <1>1, AssembledIsDecoded DEF Fetches
<1>3. i.group = GEN /\ i.op = op
  OBVIOUS
<1> HIDE DEF i
<1>4. Gen(Assemble(i)) /\ Decode(Assemble(i)) = i
  BY <1>2, <1>3, Executed DEF Fetches, Codes
<1>5. QED BY <1>3, <1>4 DEF Gen

LEMMA StepHalt ==
  ASSUME Step, Get(pc) = {HALT}
  PROVE  /\ halted' = TRUE /\ pc' = Plus(pc, 2)
         /\ UNCHANGED <<regs, flags, ram>> /\ OtherInstruction
<1>1. 1 \in 0..4 /\ Get(pc) = {Assemble([group |-> GEN, op |-> 1])}
  BY DEF HALT
<1>2. QED BY <1>1, StepGen
----------------------------------------------------------------------------
(* A program's words in memory, from address 0 on.                         *)
Holds(words) ==
  \A n \in 1..Len(words) :
    /\ 2 * n <= RamEnd
    /\ ram[2 * n - 2] = words[n] % 256 /\ ram[2 * n - 1] = words[n] \div 256

LEMMA WordIsNat == \A w \in Word : w \in Nat
<1>1. Word = 0..(Base - 1) /\ Base \in Nat
  BY WordFacts
<1>2. QED BY <1>1

LEMMA FetchWord ==
  ASSUME NEW words \in Seq(Word), Holds(words), NEW n \in 1..Len(words)
  PROVE  Get(2 * n - 2) = {words[n]}
<1>1. RamStart = 0 /\ RamEnd \in Nat
  BY KernelProgramsAssumption, MemoryAssumption DEF KernelProgramsAssumption, MemoryAssumption
<1> DEFINE w == words[n]
           at == 2 * n - 2
<1>2. n \in Nat /\ 2 * n <= RamEnd /\ n >= 1
  BY DEF Holds
<1>3. at \in RamBytes /\ at + 1 \in RamBytes /\ at \in RamStart..(RamEnd - 1)
  BY <1>1, <1>2 DEF RamBytes
<1>4. at + 1 = 2 * n - 1
  BY <1>2
<1>5. ram[at] = w % 256 /\ ram[at + 1] = w \div 256
  BY <1>4 DEF Holds
<1>6. w \in Int
  BY WordIsNat
<1> HIDE DEF at, w
<1>7. Get(at) = WordsOf(ArrayByte(at), ArrayByte(at + 1))
  BY <1>3 DEF Get, AddressDecode
<1>8. WordsOf(ArrayByte(at), ArrayByte(at + 1)) = {(w % 256) + 256 * (w \div 256)}
  BY <1>3, <1>5 DEF WordsOf, ArrayByte
<1>9. (w % 256) + 256 * (w \div 256) = w
  BY <1>6
<1>10. QED BY <1>7, <1>8, <1>9 DEF at, w

(* The image of a program holds it.                                        *)
LEMMA ImageHolds ==
  ASSUME NEW words, words \in Seq(Word), ram = Image(words), 2 * Len(words) <= RamEnd
  PROVE  Holds(words)
<1>1. RamStart = 0 /\ RamEnd \in Nat /\ Len(words) \in Nat
  BY KernelProgramsAssumption, MemoryAssumption DEF KernelProgramsAssumption, MemoryAssumption
<1>2. ASSUME NEW n \in 1..Len(words)
      PROVE  /\ 2 * n <= RamEnd
             /\ ram[2 * n - 2] = words[n] % 256 /\ ram[2 * n - 1] = words[n] \div 256
  <2>1. n \in Nat /\ n >= 1 /\ n <= Len(words) /\ 2 * n <= RamEnd
    BY <1>1
  <2>2. 2 * n - 2 \in RamBytes /\ 2 * n - 1 \in RamBytes
    BY <1>1, <2>1 DEF RamBytes
  <2>3. /\ (2 * n - 2) \div 2 + 1 = n /\ (2 * n - 2) % 2 = 0
        /\ (2 * n - 1) \div 2 + 1 = n /\ (2 * n - 1) % 2 # 0
    BY <2>1
  <2>4. QED BY <2>1, <2>2, <2>3 DEF Image
<1>3. QED BY <1>2 DEF Holds

(* Every instruction and every operand is a word.                          *)
LEMMA InstructionWords ==
  /\ \A op \in 0..15, a \in Reg, b \in 0..15 : Alu2(op, a, b) \in Word /\ AluI(op, a, b) \in Word
  /\ \A op \in 0..15, n \in 0..255 : AluAI(op, n) \in Word
  /\ \A op \in 0..3, mode \in 0..3, a \in Reg, b \in Reg : Mem(op, mode, a, b) \in Word
  /\ JPIL \in Word /\ JRI \in Word /\ \A b \in Reg : JP(b) \in Word /\ JPM(b) \in Word
  /\ \A cond \in Conditions, negated \in BOOLEAN : JRIif(cond, negated) \in Word
  /\ HALT \in Word /\ EI \in Word /\ DI \in Word
  /\ \A distance \in Int : By(distance) \in Word
<1>1. \A i \in GenLine \cup LdsLine \cup AluRegLine \cup AluU8Line : Assemble(i) \in Word
  BY AssembledIsDecoded DEF Codes
<1>2. ASSUME NEW op \in 0..15, NEW a \in Reg, NEW b \in 0..15
      PROVE  Alu2(op, a, b) \in Word /\ AluI(op, a, b) \in Word
  <2>1. /\ [group |-> ALU, op |-> op, mode |-> RegReg, a |-> a, arg |-> b] \in AluRegLine
        /\ [group |-> ALU, op |-> op, mode |-> RegU4, a |-> a, arg |-> b] \in AluRegLine
    BY DEF AluRegLine
  <2>2. QED BY <1>1, <2>1 DEF Alu2, AluI
<1>3. ASSUME NEW op \in 0..15, NEW n \in 0..255 PROVE AluAI(op, n) \in Word
  <2>1. [group |-> ALU, op |-> op, mode |-> U8, a |-> RA, arg |-> n] \in AluU8Line
    BY DEF AluU8Line
  <2>2. QED BY <1>1, <2>1 DEF AluAI
<1>4. ASSUME NEW op \in 0..3, NEW mode \in 0..3, NEW a \in Reg, NEW b \in Reg
      PROVE  Mem(op, mode, a, b) \in Word
  <2>1. [group |-> LDS, op |-> op, mode |-> mode, a |-> a, b |-> b] \in LdsLine
    BY DEF LdsLine
  <2>2. QED BY <1>1, <2>1 DEF Mem
<1>5. ASSUME NEW mode \in 0..3, NEW link \in BOOLEAN, NEW cond \in Conditions \cup {-1},
             NEW negated \in BOOLEAN, NEW b \in Reg,
             cond = -1 => negated = FALSE, mode \in {AbsHere, RelHere} => b = 0
      PROVE  Jump(mode, link, cond, negated, b) \in Word
  <2> DEFINE i == [group |-> JMP, mode |-> mode, link |-> link, cond |-> cond,
                   negated |-> negated, b |-> b]
  <2>1. i \in JmpLine /\ (i.cond = -1 => i.negated = FALSE) /\ (i.mode \in {AbsHere, RelHere} => i.b = 0)
    BY <1>5 DEF JmpLine
  <2>2. Codes(Assemble(i), i)
    BY <2>1, AssembledIsDecoded
  <2>3. QED BY <2>2 DEF Codes, Jump
<1>6. JPIL \in Word /\ JRI \in Word
  <2>1. 0 \in Reg /\ -1 \in Conditions \cup {-1} /\ AbsHere \in 0..3 /\ RelHere \in 0..3
    BY DEF Reg, AbsHere, RelHere
  <2>2. QED BY <1>5, <2>1 DEF JPIL, JRI
<1>7. ASSUME NEW b \in Reg PROVE JP(b) \in Word /\ JPM(b) \in Word
  <2>1. /\ -1 \in Conditions \cup {-1} /\ AbsReg \in 0..3 /\ IndReg \in 0..3
        /\ AbsReg \notin {AbsHere, RelHere} /\ IndReg \notin {AbsHere, RelHere}
    BY DEF AbsReg, IndReg, AbsHere, RelHere
  <2>2. QED BY <1>5, <2>1 DEF JP, JPM
<1>8. ASSUME NEW cond \in Conditions, NEW negated \in BOOLEAN PROVE JRIif(cond, negated) \in Word
  <2>1. 0 \in Reg /\ RelHere \in 0..3 /\ cond # -1
    BY DEF Reg, RelHere, Conditions
  <2>2. QED BY <1>5, <2>1 DEF JRIif
<1>9. HALT \in Word /\ EI \in Word /\ DI \in Word
  <2>1. \A op \in 0..4 : [group |-> GEN, op |-> op] \in GenLine
    BY DEF GenLine
  <2>2. QED BY <1>1, <2>1 DEF HALT, EI, DI
<1>10. ASSUME NEW distance \in Int PROVE By(distance) \in Word
  BY WordFacts DEF By
<1>11. QED BY <1>2, <1>3, <1>4, <1>6, <1>7, <1>8, <1>9, <1>10

(* One routine's words after another's.                                    *)
LEMMA Joined ==
  ASSUME NEW s \in Seq(Word), NEW t \in Seq(Word)
  PROVE  /\ s \o t \in Seq(Word) /\ Len(s \o t) = Len(s) + Len(t)
         /\ \A n \in 1..Len(s) : (s \o t)[n] = s[n]
         /\ \A n \in 1..Len(t) : (s \o t)[Len(s) + n] = t[n]
OBVIOUS

(* The words of the division.                                              *)
LEMMA DivWords ==
  /\ Len(DivCode) = 22 /\ DivCode \in Seq(Word)
  /\ DivCode[1] = JPIL /\ DivCode[2] = 10 /\ DivCode[3] = JPM(R(4)) /\ DivCode[4] = HALT
  /\ DivCode[5] = 6 /\ DivCode[6] = AluAI(MOV, 16)
  /\ DivCode[7] = Alu2(ADD, R(1), R(1)) /\ DivCode[8] = Alu2(ADD, R(0), R(0))
  /\ DivCode[9] = JRIif(C, TRUE) /\ DivCode[10] = By(6) /\ DivCode[11] = AluI(ADD, R(1), 1)
  /\ DivCode[12] = Alu2(SUB, R(1), R(2)) /\ DivCode[13] = JRIif(M, FALSE)
  /\ DivCode[14] = By(10) /\ DivCode[15] = AluI(ADD, R(0), 1) /\ DivCode[16] = JRI
  /\ DivCode[17] = By(6) /\ DivCode[18] = Alu2(ADD, R(1), R(2))
  /\ DivCode[19] = AluI(SUB, RA, 1) /\ DivCode[20] = JRIif(Z, TRUE) /\ DivCode[21] = By(-26)
  /\ DivCode[22] = JP(RL)
<1> DEFINE caller == <<JPIL, 10, JPM(R(4)), HALT, 6>>
<1>1. /\ Len(caller) = 5
      /\ caller[1] = JPIL /\ caller[2] = 10 /\ caller[3] = JPM(R(4)) /\ caller[4] = HALT
      /\ caller[5] = 6
  OBVIOUS
<1>2. /\ Len(UDDIV) = 17
      /\ UDDIV[1] = AluAI(MOV, 16)
      /\ UDDIV[2] = Alu2(ADD, R(1), R(1)) /\ UDDIV[3] = Alu2(ADD, R(0), R(0))
      /\ UDDIV[4] = JRIif(C, TRUE) /\ UDDIV[5] = By(6) /\ UDDIV[6] = AluI(ADD, R(1), 1)
      /\ UDDIV[7] = Alu2(SUB, R(1), R(2)) /\ UDDIV[8] = JRIif(M, FALSE)
      /\ UDDIV[9] = By(10) /\ UDDIV[10] = AluI(ADD, R(0), 1) /\ UDDIV[11] = JRI
      /\ UDDIV[12] = By(6) /\ UDDIV[13] = Alu2(ADD, R(1), R(2))
      /\ UDDIV[14] = AluI(SUB, RA, 1) /\ UDDIV[15] = JRIif(Z, TRUE) /\ UDDIV[16] = By(-26)
      /\ UDDIV[17] = JP(RL)
  BY DEF UDDIV
<1>3. caller \in Seq(Word) /\ UDDIV \in Seq(Word)
  <2>1. /\ JPIL \in Word /\ JPM(R(4)) \in Word /\ HALT \in Word /\ JRI \in Word
        /\ JP(RL) \in Word /\ JRIif(C, TRUE) \in Word /\ JRIif(M, FALSE) \in Word
        /\ JRIif(Z, TRUE) \in Word
    <3>1. R(4) \in Reg /\ RL \in Reg /\ C \in Conditions /\ M \in Conditions /\ Z \in Conditions
      BY DEF R, RL, Reg, C, M, Z, Conditions
    <3>2. QED BY <3>1, InstructionWords
  <2>2. /\ Alu2(ADD, R(1), R(1)) \in Word /\ Alu2(ADD, R(0), R(0)) \in Word
        /\ Alu2(SUB, R(1), R(2)) \in Word /\ Alu2(ADD, R(1), R(2)) \in Word
        /\ AluI(ADD, R(1), 1) \in Word /\ AluI(ADD, R(0), 1) \in Word
        /\ AluI(SUB, RA, 1) \in Word /\ AluAI(MOV, 16) \in Word
    BY InstructionWords DEF R, RA, Reg, ADD, SUB, MOV
  <2>3. By(6) \in Word /\ By(10) \in Word /\ By(-26) \in Word
    BY InstructionWords
  <2>4. 10 \in Word /\ 6 \in Word
    BY SmallIsWord
  <2>5. caller \in Seq(Word)
    BY <2>1, <2>4
  <2>6. UDDIV \in Seq(Word)
    <3>1. UDDIV = [n \in 1..17 |-> UDDIV[n]]
      BY DEF UDDIV
    <3>2. \A n \in 1..17 : UDDIV[n] \in Word
      <4>1. /\ UDDIV[1] \in Word /\ UDDIV[2] \in Word /\ UDDIV[3] \in Word /\ UDDIV[4] \in Word
          /\ UDDIV[5] \in Word /\ UDDIV[6] \in Word /\ UDDIV[7] \in Word /\ UDDIV[8] \in Word
          /\ UDDIV[9] \in Word /\ UDDIV[10] \in Word /\ UDDIV[11] \in Word /\ UDDIV[12] \in Word
          /\ UDDIV[13] \in Word /\ UDDIV[14] \in Word /\ UDDIV[15] \in Word /\ UDDIV[16] \in Word
          /\ UDDIV[17] \in Word
        BY <1>2, <2>1, <2>2, <2>3
      <4>2. \A n \in 1..17 : n \in {1, 2, 3, 4, 5, 6, 7, 8, 9, 10, 11, 12, 13, 14, 15, 16, 17}
        OBVIOUS
      <4>3. QED BY <4>1, <4>2
    <3>3. QED BY <3>1, <3>2
  <2>7. QED BY <2>5, <2>6
<1> HIDE DEF caller
<1>4. /\ Len(DivCode) = 22 /\ DivCode \in Seq(Word)
      /\ \A n \in 1..5 : DivCode[n] = caller[n]
      /\ \A n \in 1..17 : DivCode[5 + n] = UDDIV[n]
  <2> DEFINE joined == caller \o UDDIV
  <2>1. DivCode = joined
    BY DEF DivCode, caller
  <2>2. /\ joined \in Seq(Word) /\ Len(joined) = Len(caller) + Len(UDDIV)
        /\ \A n \in 1..Len(caller) : joined[n] = caller[n]
        /\ \A n \in 1..Len(UDDIV) : joined[Len(caller) + n] = UDDIV[n]
    BY <1>3, Joined
  <2> HIDE DEF joined
  <2>3. QED BY <1>1, <1>2, <2>1, <2>2
<1>5. /\ DivCode[1] = caller[1] /\ DivCode[2] = caller[2] /\ DivCode[3] = caller[3]
      /\ DivCode[4] = caller[4] /\ DivCode[5] = caller[5]
      /\ DivCode[6] = UDDIV[1] /\ DivCode[7] = UDDIV[2] /\ DivCode[8] = UDDIV[3]
      /\ DivCode[9] = UDDIV[4] /\ DivCode[10] = UDDIV[5] /\ DivCode[11] = UDDIV[6]
      /\ DivCode[12] = UDDIV[7] /\ DivCode[13] = UDDIV[8] /\ DivCode[14] = UDDIV[9]
      /\ DivCode[15] = UDDIV[10] /\ DivCode[16] = UDDIV[11] /\ DivCode[17] = UDDIV[12]
      /\ DivCode[18] = UDDIV[13] /\ DivCode[19] = UDDIV[14] /\ DivCode[20] = UDDIV[15]
      /\ DivCode[21] = UDDIV[16] /\ DivCode[22] = UDDIV[17]
  BY <1>4
<1>6. QED BY <1>1, <1>2, <1>4, <1>5

LEMMA DivFetched ==
  ASSUME ram = Image(DivCode)
  PROVE  /\ Get(0) = {JPIL} /\ Get(2) = {10} /\ Get(4) = {JPM(R(4))} /\ Get(6) = {HALT}
         /\ Get(8) = {6} /\ Get(10) = {AluAI(MOV, 16)}
         /\ Get(12) = {Alu2(ADD, R(1), R(1))} /\ Get(14) = {Alu2(ADD, R(0), R(0))}
         /\ Get(16) = {JRIif(C, TRUE)} /\ Get(18) = {By(6)} /\ Get(20) = {AluI(ADD, R(1), 1)}
         /\ Get(22) = {Alu2(SUB, R(1), R(2))} /\ Get(24) = {JRIif(M, FALSE)}
         /\ Get(26) = {By(10)} /\ Get(28) = {AluI(ADD, R(0), 1)} /\ Get(30) = {JRI}
         /\ Get(32) = {By(6)} /\ Get(34) = {Alu2(ADD, R(1), R(2))}
         /\ Get(36) = {AluI(SUB, RA, 1)} /\ Get(38) = {JRIif(Z, TRUE)} /\ Get(40) = {By(-26)}
         /\ Get(42) = {JP(RL)}
<1>1. 2 * Len(DivCode) <= RamEnd
  BY DivWords, KernelProgramsAssumption, MemoryAssumption DEF KernelProgramsAssumption, MemoryAssumption
<1>2. \A n \in 1..Len(DivCode) : Get(2 * n - 2) = {DivCode[n]}
  <2>1. DivCode \in Seq(Word)
    BY DivWords
  <2>2. Holds(DivCode)
    BY <1>1, <2>1, ImageHolds
  <2>3. QED BY <2>1, <2>2, FetchWord
<1>3. \A n \in 1..22 : Get(2 * n - 2) = {DivCode[n]}
  BY <1>2, DivWords
<1>4. /\ Get(0) = {DivCode[1]} /\ Get(2) = {DivCode[2]} /\ Get(4) = {DivCode[3]}
      /\ Get(6) = {DivCode[4]} /\ Get(8) = {DivCode[5]} /\ Get(10) = {DivCode[6]}
      /\ Get(12) = {DivCode[7]} /\ Get(14) = {DivCode[8]} /\ Get(16) = {DivCode[9]}
      /\ Get(18) = {DivCode[10]} /\ Get(20) = {DivCode[11]} /\ Get(22) = {DivCode[12]}
      /\ Get(24) = {DivCode[13]} /\ Get(26) = {DivCode[14]} /\ Get(28) = {DivCode[15]}
      /\ Get(30) = {DivCode[16]} /\ Get(32) = {DivCode[17]} /\ Get(34) = {DivCode[18]}
      /\ Get(36) = {DivCode[19]} /\ Get(38) = {DivCode[20]} /\ Get(40) = {DivCode[21]}
      /\ Get(42) = {DivCode[22]}
  <2>1. /\ 2 * 1 - 2 = 0 /\ 2 * 2 - 2 = 2 /\ 2 * 3 - 2 = 4 /\ 2 * 4 - 2 = 6 /\ 2 * 5 - 2 = 8
        /\ 2 * 6 - 2 = 10 /\ 2 * 7 - 2 = 12 /\ 2 * 8 - 2 = 14 /\ 2 * 9 - 2 = 16
        /\ 2 * 10 - 2 = 18 /\ 2 * 11 - 2 = 20 /\ 2 * 12 - 2 = 22 /\ 2 * 13 - 2 = 24
        /\ 2 * 14 - 2 = 26 /\ 2 * 15 - 2 = 28 /\ 2 * 16 - 2 = 30 /\ 2 * 17 - 2 = 32
        /\ 2 * 18 - 2 = 34 /\ 2 * 19 - 2 = 36 /\ 2 * 20 - 2 = 38 /\ 2 * 21 - 2 = 40
        /\ 2 * 22 - 2 = 42
    OBVIOUS
  <2>2. QED BY <1>3, <2>1
<1>5. QED BY <1>4, DivWords
----------------------------------------------------------------------------
(* The division, as UD_DIV does it.                                        *)

(* With k turns to go, the quotient's bits so far stand at the low end of  *)
(* R0 and the dividend's bits not yet seen at its high end: what has been  *)
(* seen of the dividend is the quotient so far times the divisor, plus the *)
(* remainder r.                                                            *)
Partial(n, d, k, r, word) ==
  \E P, Q, q, low \in Nat :
    /\ P * Q = Base /\ Q = 2^k /\ word = low * P + q /\ q < P /\ low < Q
    /\ n = (q * d + r) * Q + low

(* In the middle of a turn: the quotient has a new lowest bit, still 0,    *)
(* and r may be as large as the divisor or larger.                         *)
Shifted(n, d, k, r, word) ==
  \E P, Q, q, low \in Nat :
    /\ P * Q = Base /\ Q = 2^k /\ word = low * P + 2 * q /\ 2 * q + 1 < P /\ low < Q
    /\ n = ((2 * q) * d + r) * Q + low

LEMMA PartialStart ==
  ASSUME NEW lo \in Word, NEW hi \in Nat, NEW d \in Nat
  PROVE  Partial(hi * Base + lo, d, 16, hi, lo)
<1>1. Base \in Nat /\ Base = 2^16 /\ lo \in Nat /\ lo < Base
  <2>1. Base \in Nat /\ Base = 2^16
    BY WordFacts
  <2>2. lo \in Nat
    BY WordIsNat
  <2>3. lo < Base
    BY <2>2, WordIs
  <2>4. QED BY <2>1, <2>2, <2>3
<1>2. /\ 1 * Base = Base /\ lo = lo * 1 + 0 /\ 0 < 1
      /\ hi * Base + lo = (0 * d + hi) * Base + lo
  BY <1>1
<1>3. SUFFICES \E P, Q, q, low \in Nat :
        /\ P * Q = Base /\ Q = 2^16 /\ lo = low * P + q /\ q < P /\ low < Q
        /\ hi * Base + lo = (q * d + hi) * Q + low
  BY DEF Partial
<1> USE <1>1
<1> WITNESS 1 \in Nat, Base \in Nat, 0 \in Nat, lo \in Nat
<1>4. QED BY <1>2

LEMMA PartialEnd ==
  ASSUME NEW n, NEW d \in Nat, NEW r \in Nat, NEW word, Partial(n, d, 0, r, word)
  PROVE  word * d + r = n
<1>1. PICK P, Q, q, low \in Nat :
        /\ P * Q = Base /\ Q = 2^0 /\ word = low * P + q /\ q < P /\ low < Q
        /\ n = (q * d + r) * Q + low
  BY DEF Partial
<1>2. Q = 1 /\ low = 0
  BY <1>1, SmallPowers
<1>3. word = q /\ q * d \in Nat
  BY <1>1, <1>2
<1>4. QED BY <1>1, <1>2, <1>3

LEMMA ShiftedKeeps ==
  ASSUME NEW n, NEW d, NEW k, NEW r, NEW word, Shifted(n, d, k, r, word)
  PROVE  Partial(n, d, k, r, word)
<1>1. PICK P, Q, q, low \in Nat :
        /\ P * Q = Base /\ Q = 2^k /\ word = low * P + 2 * q /\ 2 * q + 1 < P /\ low < Q
        /\ n = ((2 * q) * d + r) * Q + low
  BY DEF Shifted
<1>2. 2 * q \in Nat /\ 2 * q < P
  BY <1>1
<1>3. QED BY <1>1, <1>2 DEF Partial

LEMMA ShiftedTakes ==
  ASSUME NEW n, NEW d \in Nat, NEW k \in Nat, NEW r \in Nat, NEW word \in Word,
         Shifted(n, d, k, r + d, word)
  PROVE  Partial(n, d, k, r, word + 1) /\ word + 1 \in Word
<1>1. PICK P, Q, q, low \in Nat :
        /\ P * Q = Base /\ Q = 2^k /\ word = low * P + 2 * q /\ 2 * q + 1 < P /\ low < Q
        /\ n = ((2 * q) * d + (r + d)) * Q + low
  BY DEF Shifted
<1>2. 2 * q + 1 \in Nat /\ 2 * q + 1 < P /\ word + 1 = low * P + (2 * q + 1)
  BY <1>1
<1>3. (2 * q) * d + (r + d) = (2 * q + 1) * d + r
  OBVIOUS
<1>4. Partial(n, d, k, r, word + 1)
  BY <1>1, <1>2, <1>3 DEF Partial
<1>5. word + 1 < Base
  <2>1. low * P + P <= Q * P
    <3>1. (low + 1) * P <= Q * P
      <4>1. low + 1 <= Q
        BY <1>1
      <4>2. QED BY <4>1
    <3>2. (low + 1) * P = low * P + P
      OBVIOUS
    <3>3. QED BY <3>1, <3>2
  <2>2. Q * P = P * Q
    OBVIOUS
  <2>3. low * P \in Nat
    OBVIOUS
  <2>4. QED BY <1>1, <1>2, <2>1, <2>2, <2>3
<1>6. QED BY <1>4, <1>5, WordIs, WordIsNat

(* Doubling R0 moves the next bit of the dividend into the carry.          *)
LEMMA PartialDoubled ==
  ASSUME NEW n, NEW d \in Nat, NEW k \in Nat \ {0}, NEW r \in Nat, NEW word \in Word,
         Partial(n, d, k, r, word)
  PROVE  IF 2 * word < Base
           THEN Shifted(n, d, k - 1, 2 * r, 2 * word)
           ELSE Shifted(n, d, k - 1, 2 * r + 1, 2 * word - Base)
<1>1. PICK P, Q, q, low \in Nat :
        /\ P * Q = Base /\ Q = 2^k /\ word = low * P + q /\ q < P /\ low < Q
        /\ n = (q * d + r) * Q + low
  BY DEF Partial
<1> DEFINE h == 2^(k - 1)
<1>2. h \in Nat \ {0} /\ Q = 2 * h
  <2>1. k - 1 \in Nat /\ (k - 1) + 1 = k
    OBVIOUS
  <2>2. QED BY <1>1, <2>1, PowerStep
<1>3. h = 2^(k - 1)
  OBVIOUS
<1> HIDE DEF h
<1>4. (2 * P) * h = Base /\ 2 * P \in Nat /\ 2 * q + 1 < 2 * P
  <2>1. (2 * P) * h = P * (2 * h)
    BY <1>2
  <2>2. QED BY <1>1, <1>2, <2>1
<1>5. 2 * word = low * (2 * P) + 2 * q
  BY <1>1
<1>6. CASE low < h
  <2>1. low * (2 * P) + 2 * P <= h * (2 * P)
    <3>1. (low + 1) * (2 * P) <= h * (2 * P)
      <4>1. low + 1 <= h
        BY <1>2, <1>6
      <4> DEFINE w == 2 * P
      <4>2. w \in Nat
        BY <1>4
      <4> HIDE DEF w
      <4>3. (low + 1) * w <= h * w
        BY <1>2, <4>1, <4>2
      <4>4. QED BY <4>3 DEF w
    <3>2. (low + 1) * (2 * P) = low * (2 * P) + 2 * P
      OBVIOUS
    <3>3. QED BY <3>1, <3>2
  <2>2. h * (2 * P) = Base
    BY <1>2, <1>4
  <2>3. low * (2 * P) \in Nat
    BY <1>4
  <2>4. 2 * word < Base
    <3> DEFINE x == low * (2 * P)
    <3>1. x \in Nat /\ x + 2 * P <= Base /\ 2 * word = x + 2 * q
      BY <1>5, <2>1, <2>2, <2>3
    <3>2. Base \in Nat
      BY WordFacts
    <3> HIDE DEF x
    <3>3. QED BY <1>4, <3>1, <3>2
  <2>5. n = ((2 * q) * d + 2 * r) * h + low
    <3>1. ((2 * q) * d + 2 * r) * h = (q * d + r) * (2 * h)
      BY <1>2
    <3>2. QED BY <1>1, <1>2, <3>1
  <2>6. Shifted(n, d, k - 1, 2 * r, 2 * word)
    BY <1>2, <1>3, <1>4, <1>5, <1>6, <2>5 DEF Shifted
  <2>7. QED BY <2>4, <2>6
<1>7. CASE ~(low < h)
  <2> DEFINE rest == low - h
  <2>1. rest \in Nat /\ rest < h /\ low = h + rest
    BY <1>1, <1>2, <1>7
  <2> HIDE DEF rest
  <2>2. low * (2 * P) = Base + rest * (2 * P) /\ rest * (2 * P) \in Nat
    <3>1. (h + rest) * (2 * P) = (2 * P) * h + rest * (2 * P)
      BY <1>2, <2>1
    <3>2. rest * (2 * P) \in Nat
      BY <1>4, <2>1
    <3>3. QED BY <1>4, <2>1, <3>1, <3>2
  <2>3. Base \in Nat
    BY WordFacts
  <2>4. ~(2 * word < Base) /\ 2 * word - Base = rest * (2 * P) + 2 * q
    BY <1>5, <2>2, <2>3
  <2>5. n = ((2 * q) * d + (2 * r + 1)) * h + rest
    <3>1. ((2 * q) * d + (2 * r + 1)) * h = (q * d + r) * (2 * h) + h
      BY <1>2
    <3>2. (q * d + r) * (2 * h) \in Nat
      BY <1>2
    <3>3. QED BY <1>1, <1>2, <2>1, <3>1, <3>2
  <2>6. Shifted(n, d, k - 1, 2 * r + 1, 2 * word - Base)
    BY <1>2, <1>3, <1>4, <2>1, <2>4, <2>5 DEF Shifted
  <2>7. QED BY <2>4, <2>6
<1>8. QED BY <1>6, <1>7
----------------------------------------------------------------------------
(* The ALU instructions of the division.                                   *)
LEMMA MovResult ==
  ASSUME NEW a, NEW b \in Word, NEW f
  PROVE  AluResult(MOV, a, b, f).value = b
<1>1. b % Base = b
  <2>1. b \in Nat /\ Base \in Nat
    BY WordIsNat, BaseIsNat
  <2>2. b < Base
    BY <2>1, WordIs
  <2>3. QED BY <2>1, <2>2
<1>2. QED BY <1>1 DEF AluResult, MOV, Mov, Result

(* ADD carries if the sum is too large for a word.                         *)
LEMMA AddResult ==
  ASSUME NEW a \in Word, NEW b \in Word, NEW f
  PROVE  /\ AluResult(ADD, a, b, f).value = IF a + b < Base THEN a + b ELSE (a + b) - Base
         /\ AluResult(ADD, a, b, f).flags.c <=> ~(a + b < Base)
<1> DEFINE v == a + b
<1>1. Base \in Nat \ {0} /\ v \in Nat /\ v < 2 * Base
  <2>1. a \in Nat /\ b \in Nat
    BY WordIsNat
  <2>2. a < Base /\ b < Base
    BY <2>1, WordIs
  <2>3. Base \in Nat \ {0}
    BY WordFacts
  <2>4. QED BY <2>1, <2>2, <2>3
<1>2. AluResult(ADD, a, b, f) = Result(v, ArithmeticFlags(v))
  BY DEF AluResult, ADD, Add
<1> HIDE DEF v
<1>3. /\ v % Base = IF v < Base THEN v ELSE v - Base
      /\ v \div Base = IF v < Base THEN 0 ELSE 1
  <2>1. CASE v < Base
    BY <1>1, <2>1
  <2>2. CASE ~(v < Base)
    <3>1. v - Base \in 0..(Base - 1) /\ v = Base * 1 + (v - Base)
      BY <1>1, <2>2
    <3>2. QED BY <1>1, <2>2, <3>1, DivisionUnique
  <2>3. QED BY <2>1, <2>2
<1>4. HasBit(v, Width) <=> ~(v < Base)
  <2>1. HasBit(v, Width) <=> (v \div Base) % 2 = 1
    BY DEF HasBit, Base
  <2>2. QED BY <1>1, <1>3, <2>1
<1>5. AluResult(ADD, a, b, f).value = v % Base
  BY <1>2 DEF Result
<1>6. AluResult(ADD, a, b, f).flags.c <=> HasBit(v, Width)
  BY <1>2 DEF Result, ArithmeticFlags
<1>7. AluResult(ADD, a, b, f).value = IF a + b < Base THEN a + b ELSE (a + b) - Base
  <2>1. AluResult(ADD, a, b, f).value = IF v < Base THEN v ELSE v - Base
    BY <1>3, <1>5
  <2>2. QED BY <2>1 DEF v
<1>8. AluResult(ADD, a, b, f).flags.c <=> ~(a + b < Base)
  BY <1>4, <1>6 DEF v
<1>9. QED BY <1>7, <1>8

(* SUB's sign flag tells which is smaller if the two are less than half a  *)
(* word apart.                                                             *)
LEMMA SubResult ==
  ASSUME NEW a \in Word, NEW b \in Word, NEW f
  PROVE  /\ AluResult(SUB, a, b, f).value = IF a < b THEN (a - b) + Base ELSE a - b
         /\ AluResult(SUB, a, b, f).flags.z <=> a = b
         /\ a - b \in (-(Base \div 2))..(Base \div 2 - 1)
              => (AluResult(SUB, a, b, f).flags.s <=> a < b)
<1> DEFINE v == a - b
           half == Base \div 2
<1>0. a \in Nat /\ b \in Nat
  BY WordIsNat
<1>1. Base \in Nat \ {0} /\ v \in Int /\ v < Base /\ -Base < v /\ (v < 0 <=> a < b) /\ (v = 0 <=> a = b)
  <2>1. a < Base /\ b < Base
    BY <1>0, WordIs
  <2>2. Base \in Nat \ {0}
    BY WordFacts
  <2>3. QED BY <1>0, <2>1, <2>2
<1>2. AluResult(SUB, a, b, f) = Result(v, ArithmeticFlags(v))
  BY DEF AluResult, SUB, Sub
<1>3. half = 2^15 /\ half \in Nat \ {0} /\ Width - 1 = 15
  <2>1. 15 + 1 = 16 /\ 16 - 1 = 15
    OBVIOUS
  <2>2. Base = 2 * 2^15 /\ 2^15 \in Nat \ {0} /\ Width = 16
    BY <2>1, PowerStep, WordFacts
  <2>3. QED BY <2>1, <2>2
<1> HIDE DEF v, half
<1>4. v % Base = IF v < 0 THEN v + Base ELSE v
  <2>1. CASE v < 0
    <3>1. v + Base \in 0..(Base - 1) /\ v = Base * (-1) + (v + Base)
      BY <1>1, <2>1
    <3>2. QED BY <1>1, <2>1, <3>1, DivisionUnique
  <2>2. CASE ~(v < 0)
    BY <1>1, <2>2
  <2>3. QED BY <2>1, <2>2
<1>5. v \in (-half)..(half - 1) => (HasBit(v, Width - 1) <=> v < 0)
  <2>1. HasBit(v, Width - 1) <=> (v \div half) % 2 = 1
    BY <1>3 DEF HasBit
  <2>2. CASE -half <= v /\ v < 0
    <3>1. v + half \in 0..(half - 1) /\ v = half * (-1) + (v + half)
      BY <1>1, <1>3, <2>2
    <3>2. v \div half = -1
      BY <1>3, <3>1, DivisionUnique
    <3>3. QED BY <2>1, <2>2, <3>2
  <2>3. CASE 0 <= v /\ v < half
    BY <1>1, <1>3, <2>1, <2>3
  <2>4. QED BY <1>1, <1>3, <2>2, <2>3
<1>6. AluResult(SUB, a, b, f).value = IF a < b THEN (a - b) + Base ELSE a - b
  <2>1. AluResult(SUB, a, b, f).value = v % Base
    BY <1>2 DEF Result
  <2>2. QED BY <1>1, <1>4, <2>1 DEF v
<1>7. AluResult(SUB, a, b, f).flags.z <=> a = b
  <2>1. AluResult(SUB, a, b, f).flags = ArithmeticFlags(v)
    BY <1>2 DEF Result
  <2>2. ArithmeticFlags(v).z = (v = 0)
    BY DEF ArithmeticFlags
  <2>3. QED BY <1>1, <2>1, <2>2
<1>8. AluResult(SUB, a, b, f).flags.s <=> HasBit(v, Width - 1)
  BY <1>2 DEF Result, ArithmeticFlags
<1>9. QED BY <1>1, <1>5, <1>6, <1>7, <1>8 DEF v, half
----------------------------------------------------------------------------
(* What holds before each instruction of the division.  n is the dividend, *)
(* d the divisor; word, r and k are R0, R1 and RA.                         *)
Turn(n, d, at, word, r, k, f) ==
  \/ at = 12 /\ k \in 1..16 /\ r < d /\ Partial(n, d, k, r, word)
  \/ at = 14 /\ k \in 1..16 /\ \E s \in Nat : s < d /\ r = 2 * s /\ Partial(n, d, k, s, word)
  \/ /\ at = 16 /\ k \in 1..16
     /\ f.c \in BOOLEAN
     /\ f.c => r + 1 < 2 * d /\ Shifted(n, d, k - 1, r + 1, word)
     /\ ~f.c => r < 2 * d /\ Shifted(n, d, k - 1, r, word)
  \/ at = 20 /\ k \in 1..16 /\ r + 1 < 2 * d /\ Shifted(n, d, k - 1, r + 1, word)
  \/ at = 22 /\ k \in 1..16 /\ r < 2 * d /\ Shifted(n, d, k - 1, r, word)
  \/ /\ at = 24 /\ k \in 1..16 /\ f.s \in BOOLEAN
     /\ \E t \in Nat : /\ t < 2 * d /\ Shifted(n, d, k - 1, t, word)
                       /\ f.s <=> t < d
                       /\ r = IF t < d THEN (t - d) + Base ELSE t - d
  \/ at = 28 /\ k \in 1..16 /\ r < d /\ Shifted(n, d, k - 1, r + d, word)
  \/ at = 34 /\ k \in 1..16 /\ \E t \in Nat : t < d /\ r = (t - d) + Base /\ Shifted(n, d, k - 1, t, word)
  \/ at \in {30, 36} /\ k \in 1..16 /\ r < d /\ Partial(n, d, k - 1, r, word)
  \/ at = 38 /\ k \in 0..15 /\ r < d /\ Partial(n, d, k, r, word) /\ (f.z <=> k = 0)
  \/ at \in {42, 4, 6, 8} /\ r < d /\ word * d + r = n

Dividend == arg[1] * Base + arg[0]

(* The code and the operands stay as they are, and the division returns    *)
(* behind its call.                                                        *)
DivFixed ==
  /\ ram = Image(DivCode)
  /\ arg[0] \in Word /\ arg[1] \in Nat /\ arg[1] < arg[2]
  /\ arg[2] \in Word /\ arg[2] \in 1..(Base \div 2)
  /\ regs \in [Reg -> Word] /\ regs[2] = arg[2] /\ regs[4] = 8
  /\ pc # 0 => regs[RL] = 4
  /\ halted \in BOOLEAN /\ (halted <=> pc = 8)

DivInv ==
  /\ DivFixed
  /\ \/ pc \in {0, 10} /\ regs[0] = arg[0] /\ regs[1] = arg[1]
     \/ Turn(Dividend, arg[2], pc, regs[0], regs[1], regs[RA], flags)

LEMMA Assigned ==
  ASSUME regs \in [Reg -> Word], NEW a \in Reg, NEW v \in Word, regs' = [regs EXCEPT ![a] = v]
  PROVE  /\ regs' \in [Reg -> Word] /\ regs'[a] = v
         /\ \A b \in Reg \ {a} : regs'[b] = regs[b]
OBVIOUS

LEMMA DivRegs == /\ 0 \in Reg /\ 1 \in Reg /\ 2 \in Reg /\ 4 \in Reg /\ RA \in Reg /\ RL \in Reg
                 /\ RA \notin {0, 1, 2, 4, RL} /\ RL \notin {0, 1, 2, 4}
BY DEF Reg, RA, RL

(* An ALU instruction of the division leaves code and operands alone.      *)
LEMMA DivComputes ==
  ASSUME DivFixed, UNCHANGED arg, NEW op, NEW a \in {0, 1, RA}, NEW operand,
         Computes(op, a, operand), AluResult(op, regs[a], operand, flags).value \in Word,
         pc \in {10, 12, 14, 20, 22, 28, 34, 36}
  PROVE  /\ DivFixed' /\ pc' = pc + 2 /\ Dividend' = Dividend
         /\ flags' = AluResult(op, regs[a], operand, flags).flags
         /\ regs'[a] = AluResult(op, regs[a], operand, flags).value
         /\ \A b \in {0, 1, RA} \ {a} : regs'[b] = regs[b]
<1> DEFINE v == AluResult(op, regs[a], operand, flags).value
<1>1. /\ regs' = [regs EXCEPT ![a] = v] /\ pc' = Plus(pc, 2)
      /\ flags' = AluResult(op, regs[a], operand, flags).flags
      /\ halted' = halted /\ ram' = ram
  BY DEF Computes
<1>2. v \in Word /\ a \in Reg
  BY DivRegs
<1> HIDE DEF v
<1>3. /\ regs' \in [Reg -> Word] /\ regs'[a] = v
      /\ \A b \in Reg \ {a} : regs'[b] = regs[b]
  BY <1>1, <1>2, Assigned DEF DivFixed
<1>4. pc' = pc + 2 /\ pc' # 0 /\ pc' # 8 /\ pc # 0 /\ pc # 8
  <2>1. pc \in Int /\ 0 <= pc + 2 /\ pc + 2 < 256 * 256 /\ pc # 6
    OBVIOUS
  <2>2. pc' = pc + 2
    BY <1>1, <2>1, PlusIs
  <2>3. QED BY <2>1, <2>2
<1>5. regs'[2] = regs[2] /\ regs'[4] = regs[4] /\ regs'[RL] = regs[RL]
  BY <1>3, DivRegs
<1>6. DivFixed'
  BY <1>1, <1>3, <1>4, <1>5 DEF DivFixed
<1>7. Dividend' = Dividend
  BY DEF Dividend
<1>8. \A b \in {0, 1, RA} \ {a} : regs'[b] = regs[b]
  BY <1>3, DivRegs
<1>9. QED BY <1>1, <1>3, <1>4, <1>6, <1>7, <1>8 DEF v

(* So does a jump.                                                         *)
LEMMA DivJumps ==
  ASSUME DivFixed, UNCHANGED arg, Jumps, regs' = regs, pc # 0, pc # 8, pc' # 8
  PROVE  DivFixed' /\ Dividend' = Dividend /\ flags' = flags
BY DEF DivFixed, Dividend, Jumps

(* The operands of the division fit where it computes with them.           *)
LEMMA DivRanges ==
  ASSUME DivFixed
  PROVE  /\ arg[2] \in Nat /\ 2 * arg[2] <= Base /\ arg[2] <= Base \div 2 /\ arg[2] > 0
         /\ regs[0] \in Word /\ regs[1] \in Word /\ regs[2] \in Word /\ regs[RA] \in Word
         /\ regs[0] \in Nat /\ regs[1] \in Nat /\ regs[RA] \in Nat
         /\ Base \in Nat /\ regs[2] = arg[2] /\ Base \div 2 \in Nat /\ Base = 2 * (Base \div 2)
<1>1. regs[0] \in Word /\ regs[1] \in Word /\ regs[2] \in Word /\ regs[RA] \in Word
  BY DivRegs DEF DivFixed
<1>2. regs[0] \in Nat /\ regs[1] \in Nat /\ regs[RA] \in Nat
  BY <1>1, WordIsNat
<1>3. Base = 2 * (Base \div 2) /\ Base \in Nat /\ Base \div 2 \in Nat
  <2>1. Base = 256 * 256
    BY Powers, WordFacts
  <2>2. QED BY <2>1
<1>4. arg[2] \in 1..(Base \div 2) /\ regs[2] = arg[2]
  BY DEF DivFixed
<1> DEFINE half == Base \div 2
           d == arg[2]
<1>5. d \in 1..half /\ half \in Nat /\ Base = 2 * half
  BY <1>3, <1>4
<1> HIDE DEF half, d
<1>6. d \in Nat /\ 2 * d <= Base /\ d <= half /\ d > 0
  BY <1>5
<1>7. QED BY <1>1, <1>2, <1>3, <1>4, <1>6 DEF half, d

(* 10: sixteen turns.                                                      *)
LEMMA DivCount ==
  ASSUME DivInv, UNCHANGED arg, Step, pc = 10
  PROVE  DivInv'
<1>1. DivFixed /\ regs[0] = arg[0] /\ regs[1] = arg[1]
  BY DEF DivInv, Turn
<1>2. Computes(MOV, RA, 16)
  <2>1. Get(pc) = {AluAI(MOV, 16)} /\ MOV \in 0..15 /\ 16 \in 0..255
    BY <1>1, DivFetched DEF DivFixed, MOV
  <2>2. QED BY <2>1, StepAluAI
<1>3. AluResult(MOV, regs[RA], 16, flags).value = 16 /\ 16 \in Word
  BY MovResult, SmallIsWord
<1>4. /\ DivFixed' /\ pc' = 12 /\ Dividend' = Dividend /\ regs'[RA] = 16
      /\ regs'[0] = regs[0] /\ regs'[1] = regs[1]
  BY <1>1, <1>2, <1>3, DivComputes, DivRegs
<1>5. Partial(Dividend, arg[2], 16, regs[1], regs[0]) /\ regs[1] < arg[2]
  <2>1. arg[0] \in Word /\ arg[1] \in Nat /\ arg[2] \in Nat /\ arg[1] < arg[2]
    BY <1>1, DivRanges DEF DivFixed
  <2>2. Partial(arg[1] * Base + arg[0], arg[2], 16, arg[1], arg[0])
    BY <2>1, PartialStart
  <2>3. QED BY <1>1, <2>1, <2>2 DEF Dividend
<1>6. Turn(Dividend', arg'[2], pc', regs'[0], regs'[1], regs'[RA], flags')
  BY <1>4, <1>5 DEF Turn
<1>7. QED BY <1>4, <1>6 DEF DivInv

(* 12: R1 doubled.                                                         *)
LEMMA DivDoubleHigh ==
  ASSUME DivInv, UNCHANGED arg, Step, pc = 12
  PROVE  DivInv'
<1>1. /\ DivFixed /\ regs[RA] \in 1..16 /\ regs[1] < arg[2]
      /\ Partial(Dividend, arg[2], regs[RA], regs[1], regs[0])
  BY DEF DivInv, Turn
<1>2. Computes(ADD, 1, regs[1])
  <2>1. Get(pc) = {Alu2(ADD, 1, 1)} /\ ADD \in 0..15 /\ 1 \in Reg
    BY <1>1, DivFetched, DivRegs DEF DivFixed, ADD, R
  <2>2. QED BY <2>1, StepAlu2
<1> DEFINE r == regs[1]
           d == arg[2]
<1>3. r \in Nat /\ r \in Word /\ r < d /\ d \in Nat /\ 2 * d <= Base /\ Base \in Nat
  BY <1>1, DivRanges
<1>4. r + r < Base /\ r + r = 2 * r /\ 2 * r \in Nat
  <2> HIDE DEF r, d
  <2>1. QED BY <1>3
<1>5. AluResult(ADD, regs[1], regs[1], flags).value = 2 * r /\ 2 * r \in Word
  <2>1. 2 * r \in Word
    BY <1>4, WordIs
  <2>2. AluResult(ADD, r, r, flags).value = r + r
    BY <1>3, <1>4, AddResult
  <2>3. QED BY <1>4, <2>1, <2>2
<1>6. /\ DivFixed' /\ pc' = 14 /\ Dividend' = Dividend /\ regs'[1] = 2 * r
      /\ regs'[0] = regs[0] /\ regs'[RA] = regs[RA]
  <2>1. /\ DivFixed' /\ pc' = pc + 2 /\ Dividend' = Dividend
        /\ regs'[1] = AluResult(ADD, regs[1], regs[1], flags).value
        /\ \A b \in {0, 1, RA} \ {1} : regs'[b] = regs[b]
    BY <1>1, <1>2, <1>5, DivComputes
  <2>2. pc' = 14
    BY <2>1
  <2>3. regs'[0] = regs[0] /\ regs'[RA] = regs[RA]
    BY <2>1 DEF RA
  <2>4. QED BY <1>5, <2>1, <2>2, <2>3
<1>7. \E s \in Nat : s < d /\ regs'[1] = 2 * s /\ Partial(Dividend, d, regs[RA], s, regs[0])
  BY <1>1, <1>3, <1>6
<1>8. Turn(Dividend', arg'[2], pc', regs'[0], regs'[1], regs'[RA], flags')
  BY <1>1, <1>6, <1>7 DEF Turn
<1>9. QED BY <1>6, <1>8 DEF DivInv

(* 14: R0 doubled; the dividend's next bit is the carry.                   *)
LEMMA DivDoubleLow ==
  ASSUME DivInv, UNCHANGED arg, Step, pc = 14
  PROVE  DivInv'
<1>1. DivFixed /\ regs[RA] \in 1..16
  BY DEF DivInv, Turn
<1>2. PICK s \in Nat : s < arg[2] /\ regs[1] = 2 * s /\ Partial(Dividend, arg[2], regs[RA], s, regs[0])
  BY DEF DivInv, Turn
<1>3. Computes(ADD, 0, regs[0])
  <2>1. Get(pc) = {Alu2(ADD, 0, 0)} /\ ADD \in 0..15 /\ 0 \in Reg
    BY <1>1, DivFetched, DivRegs DEF DivFixed, ADD, R
  <2>2. QED BY <2>1, StepAlu2
<1> DEFINE w == regs[0]
           d == arg[2]
           v == AluResult(ADD, w, w, flags).value
           carry == AluResult(ADD, w, w, flags).flags.c
<1>4. w \in Nat /\ w \in Word /\ d \in Nat /\ Base \in Nat /\ w < Base
  <2>1. w \in Nat /\ w \in Word /\ d \in Nat /\ Base \in Nat
    BY <1>1, DivRanges
  <2>2. QED BY <2>1, WordIs
<1>5. /\ v = IF w + w < Base THEN w + w ELSE (w + w) - Base
      /\ carry <=> ~(w + w < Base)
  BY <1>4, AddResult
<1>6. carry \in BOOLEAN
  <2>1. AluResult(ADD, w, w, flags).flags = ArithmeticFlags(w + w)
    BY DEF AluResult, ADD, Add, Result
  <2>2. ArithmeticFlags(w + w).c \in BOOLEAN
    BY DEF ArithmeticFlags, HasBit
  <2>3. QED BY <2>1, <2>2
<1>7. w + w = 2 * w
  BY <1>4
<1>8. /\ carry => s + s + 1 < 2 * d
                  /\ Shifted(Dividend, d, regs[RA] - 1, 2 * s + 1, v)
      /\ ~carry => Shifted(Dividend, d, regs[RA] - 1, 2 * s, v)
  <2>1. regs[RA] \in Nat \ {0}
    BY <1>1
  <2>2. IF 2 * w < Base
          THEN Shifted(Dividend, d, regs[RA] - 1, 2 * s, 2 * w)
          ELSE Shifted(Dividend, d, regs[RA] - 1, 2 * s + 1, 2 * w - Base)
    BY <1>2, <1>4, <2>1, PartialDoubled
  <2>3. s + s + 1 < 2 * d
    <3> HIDE DEF d
    <3>1. s < d
      BY <1>2 DEF d
    <3>2. QED BY <1>4, <3>1
  <2> HIDE DEF w, v, carry, d
  <2>4. QED BY <1>5, <1>7, <2>2, <2>3
<1>9. v \in Word
  <2> HIDE DEF w, v, carry, d
  <2>1. v \in Nat /\ v < Base
    BY <1>4, <1>5
  <2>2. QED BY <2>1, WordIs
<1>10. /\ DivFixed' /\ pc' = 16 /\ Dividend' = Dividend /\ regs'[0] = v
       /\ regs'[1] = 2 * s /\ regs'[RA] = regs[RA] /\ flags'.c = carry
  <2>1. /\ DivFixed' /\ pc' = pc + 2 /\ Dividend' = Dividend
        /\ flags' = AluResult(ADD, regs[0], regs[0], flags).flags
        /\ regs'[0] = AluResult(ADD, regs[0], regs[0], flags).value
        /\ \A b \in {0, 1, RA} \ {0} : regs'[b] = regs[b]
    BY <1>1, <1>3, <1>9, DivComputes
  <2>2. pc' = 16
    BY <2>1
  <2>3. regs'[1] = regs[1] /\ regs'[RA] = regs[RA]
    BY <2>1 DEF RA
  <2>4. QED BY <1>2, <2>1, <2>2, <2>3
<1>11. 2 * s + 1 < 2 * d /\ 2 * s < 2 * d
  <2> HIDE DEF d
  <2>1. s < d
    BY <1>2 DEF d
  <2>2. QED BY <1>4, <2>1
<1> HIDE DEF w, v, carry
<1>12. Turn(Dividend', arg'[2], pc', regs'[0], regs'[1], regs'[RA], flags')
  BY <1>1, <1>6, <1>8, <1>10, <1>11 DEF Turn
<1>13. QED BY <1>10, <1>12 DEF DivInv

(* 16: without a carry the next instruction is skipped.                    *)
LEMMA DivBranchOnCarry ==
  ASSUME DivInv, UNCHANGED arg, Step, pc = 16
  PROVE  DivInv'
<1>1. /\ DivFixed /\ regs[RA] \in 1..16 /\ flags.c \in BOOLEAN
      /\ flags.c => /\ regs[1] + 1 < 2 * arg[2]
                    /\ Shifted(Dividend, arg[2], regs[RA] - 1, regs[1] + 1, regs[0])
      /\ ~flags.c => /\ regs[1] < 2 * arg[2]
                     /\ Shifted(Dividend, arg[2], regs[RA] - 1, regs[1], regs[0])
  BY DEF DivInv, Turn
<1>2. /\ Jumps /\ regs' = regs
      /\ IF flags.c # TRUE
           THEN \E v \in Get(Plus(pc, 2)) : pc' = Plus(Plus(pc, 2), v - 2)
           ELSE pc' = Plus(pc, 4)
  <2>1. Get(pc) = {JRIif(C, TRUE)} /\ C \in Conditions /\ TRUE \in BOOLEAN /\ Condition(C) = flags.c
    <3>1. Get(pc) = {JRIif(C, TRUE)}
      BY <1>1, DivFetched DEF DivFixed
    <3>2. C \in Conditions /\ Condition(C) = flags.c
      BY DEF C, Conditions, Condition
    <3>3. QED BY <3>1, <3>2
  <2>2. ~OnDevice(Plus(pc, 2))
    BY OperandNear
  <2>3. QED BY <2>1, <2>2, StepBranch
<1>3. Plus(16, 2) = 18 /\ Plus(16, 4) = 20 /\ Plus(18, 6 - 2) = 22 /\ By(6) = 6
  <2>1. By(6) = 6
    BY SmallIsWord DEF By
  <2>2. QED BY <2>1, PlusSmall
<1>4. pc' = IF flags.c THEN 20 ELSE 22
  <2>1. Get(18) = {By(6)}
    BY <1>1, DivFetched DEF DivFixed
  <2>2. QED BY <1>1, <1>2, <1>3, <2>1
<1>5. DivFixed' /\ Dividend' = Dividend
  BY <1>1, <1>2, <1>4, DivJumps
<1>6. Turn(Dividend', arg'[2], pc', regs'[0], regs'[1], regs'[RA], flags')
  BY <1>1, <1>2, <1>4, <1>5 DEF Turn
<1>7. QED BY <1>5, <1>6 DEF DivInv

(* 20: the dividend's bit goes into R1.                                    *)
LEMMA DivTakeBit ==
  ASSUME DivInv, UNCHANGED arg, Step, pc = 20
  PROVE  DivInv'
<1>1. /\ DivFixed /\ regs[RA] \in 1..16 /\ regs[1] + 1 < 2 * arg[2]
      /\ Shifted(Dividend, arg[2], regs[RA] - 1, regs[1] + 1, regs[0])
  BY DEF DivInv, Turn
<1>2. Computes(ADD, 1, 1)
  <2>1. Get(pc) = {AluI(ADD, 1, 1)} /\ ADD \in 0..15 /\ 1 \in Reg /\ 1 \in 0..15
    BY <1>1, DivFetched, DivRegs DEF DivFixed, ADD, R
  <2>2. QED BY <2>1, StepAluI
<1> DEFINE r == regs[1]
           d == arg[2]
<1>3. r \in Nat /\ r \in Word /\ r + 1 < 2 * d /\ d \in Nat /\ 2 * d <= Base /\ Base \in Nat
  BY <1>1, DivRanges
<1>4. r + 1 < Base /\ r + 1 \in Nat
  <2> HIDE DEF r, d
  <2>1. QED BY <1>3
<1>5. AluResult(ADD, regs[1], 1, flags).value = r + 1 /\ r + 1 \in Word
  <2>1. r + 1 \in Word /\ 1 \in Word
    BY <1>4, WordIs, SmallIsWord
  <2>2. AluResult(ADD, r, 1, flags).value = r + 1
    BY <1>3, <1>4, <2>1, AddResult
  <2>3. QED BY <2>1, <2>2
<1>6. /\ DivFixed' /\ pc' = 22 /\ Dividend' = Dividend /\ regs'[1] = r + 1
      /\ regs'[0] = regs[0] /\ regs'[RA] = regs[RA]
  <2>1. /\ DivFixed' /\ pc' = pc + 2 /\ Dividend' = Dividend
        /\ regs'[1] = AluResult(ADD, regs[1], 1, flags).value
        /\ \A b \in {0, 1, RA} \ {1} : regs'[b] = regs[b]
    BY <1>1, <1>2, <1>5, DivComputes
  <2>2. pc' = 22
    BY <2>1
  <2>3. regs'[0] = regs[0] /\ regs'[RA] = regs[RA]
    BY <2>1 DEF RA
  <2>4. QED BY <1>5, <2>1, <2>2, <2>3
<1>7. Turn(Dividend', arg'[2], pc', regs'[0], regs'[1], regs'[RA], flags')
  BY <1>1, <1>6 DEF Turn
<1>8. QED BY <1>6, <1>7 DEF DivInv

(* 22: the divisor is taken off; the sign tells whether it fitted.         *)
LEMMA DivSubtract ==
  ASSUME DivInv, UNCHANGED arg, Step, pc = 22
  PROVE  DivInv'
<1>1. /\ DivFixed /\ regs[RA] \in 1..16 /\ regs[1] < 2 * arg[2]
      /\ Shifted(Dividend, arg[2], regs[RA] - 1, regs[1], regs[0])
  BY DEF DivInv, Turn
<1>2. Computes(SUB, 1, regs[2])
  <2>1. Get(pc) = {Alu2(SUB, 1, 2)} /\ SUB \in 0..15 /\ 1 \in Reg /\ 2 \in Reg
    BY <1>1, DivFetched, DivRegs DEF DivFixed, SUB, R
  <2>2. QED BY <2>1, StepAlu2
<1> DEFINE t == regs[1]
           d == arg[2]
           half == Base \div 2
           v == AluResult(SUB, t, d, flags).value
           sign == AluResult(SUB, t, d, flags).flags.s
<1>3. /\ t \in Nat /\ t \in Word /\ t < 2 * d /\ d \in Nat /\ d <= half /\ Base \in Nat
      /\ regs[2] = d /\ d \in Word /\ half \in Nat /\ Base = 2 * half
  BY <1>1, DivRanges
<1>4. /\ v = IF t < d THEN (t - d) + Base ELSE t - d
      /\ t - d \in (-half)..(half - 1) => (sign <=> t < d)
  BY <1>3, SubResult
<1>5. t - d \in (-half)..(half - 1)
  <2> HIDE DEF t, d, half
  <2>1. QED BY <1>3
<1>6. sign \in BOOLEAN
  <2>1. AluResult(SUB, t, d, flags).flags = ArithmeticFlags(t - d)
    BY DEF AluResult, SUB, Sub, Result
  <2>2. ArithmeticFlags(t - d).s \in BOOLEAN
    BY DEF ArithmeticFlags, HasBit
  <2>3. QED BY <2>1, <2>2
<1>7. v \in Word
  <2> HIDE DEF v, t, d, half
  <2>1. v \in Nat /\ v < Base
    BY <1>3, <1>4
  <2>2. QED BY <2>1, WordIs
<1>8. /\ DivFixed' /\ pc' = 24 /\ Dividend' = Dividend /\ regs'[1] = v
      /\ regs'[0] = regs[0] /\ regs'[RA] = regs[RA] /\ flags'.s = sign
  <2>1. /\ DivFixed' /\ pc' = pc + 2 /\ Dividend' = Dividend
        /\ flags' = AluResult(SUB, regs[1], regs[2], flags).flags
        /\ regs'[1] = AluResult(SUB, regs[1], regs[2], flags).value
        /\ \A b \in {0, 1, RA} \ {1} : regs'[b] = regs[b]
    BY <1>1, <1>2, <1>3, <1>7, DivComputes
  <2>2. pc' = 24
    BY <2>1
  <2>3. regs'[0] = regs[0] /\ regs'[RA] = regs[RA]
    BY <2>1 DEF RA
  <2>4. QED BY <1>3, <2>1, <2>2, <2>3
<1>9. \E u \in Nat : /\ u < 2 * d /\ Shifted(Dividend, d, regs[RA] - 1, u, regs[0])
                     /\ sign <=> u < d
                     /\ v = IF u < d THEN (u - d) + Base ELSE u - d
  <2> HIDE DEF v, sign
  <2>1. QED BY <1>1, <1>3, <1>4, <1>5
<1> HIDE DEF v, sign, t
<1>10. Turn(Dividend', arg'[2], pc', regs'[0], regs'[1], regs'[RA], flags')
  BY <1>1, <1>6, <1>8, <1>9 DEF Turn
<1>11. QED BY <1>8, <1>10 DEF DivInv

(* 24: with a negative difference the quotient's bit stays 0.              *)
LEMMA DivBranchOnSign ==
  ASSUME DivInv, UNCHANGED arg, Step, pc = 24
  PROVE  DivInv'
<1>1. DivFixed /\ regs[RA] \in 1..16 /\ flags.s \in BOOLEAN
  BY DEF DivInv, Turn
<1>2. PICK t \in Nat :
        /\ t < 2 * arg[2] /\ Shifted(Dividend, arg[2], regs[RA] - 1, t, regs[0])
        /\ flags.s <=> t < arg[2]
        /\ regs[1] = IF t < arg[2] THEN (t - arg[2]) + Base ELSE t - arg[2]
  BY DEF DivInv, Turn
<1>3. /\ Jumps /\ regs' = regs
      /\ IF flags.s # FALSE
           THEN \E v \in Get(Plus(pc, 2)) : pc' = Plus(Plus(pc, 2), v - 2)
           ELSE pc' = Plus(pc, 4)
  <2>1. Get(pc) = {JRIif(M, FALSE)}
    BY <1>1, DivFetched DEF DivFixed
  <2>2. M \in Conditions /\ Condition(M) = flags.s
    BY DEF M, Conditions, Condition
  <2>3. ~OnDevice(Plus(pc, 2))
    BY OperandNear
  <2>4. QED BY <2>1, <2>2, <2>3, StepBranch
<1>4. Plus(24, 2) = 26 /\ Plus(24, 4) = 28 /\ Plus(26, 10 - 2) = 34 /\ By(10) = 10
  <2>1. By(10) = 10
    BY SmallIsWord DEF By
  <2>2. QED BY <2>1, PlusSmall
<1>5. pc' = IF flags.s THEN 34 ELSE 28
  <2>1. Get(26) = {By(10)}
    BY <1>1, DivFetched DEF DivFixed
  <2>2. QED BY <1>1, <1>3, <1>4, <2>1
<1>6. DivFixed' /\ Dividend' = Dividend
  BY <1>1, <1>3, <1>5, DivJumps
<1>7. CASE flags.s
  BY <1>1, <1>2, <1>3, <1>5, <1>6, <1>7 DEF Turn, DivInv
<1>8. CASE ~flags.s
  <2> DEFINE d == arg[2]
             r == regs[1]
  <2>1. d \in Nat
    BY <1>1, DivRanges
  <2>2. r = t - d /\ ~(t < d) /\ t < 2 * d
    BY <1>2, <1>8
  <2>3. r + d = t /\ r < d
    <3> HIDE DEF d, r
    <3>1. QED BY <2>1, <2>2
  <2>4. Shifted(Dividend, d, regs[RA] - 1, r + d, regs[0])
    BY <1>2, <2>3
  <2> HIDE DEF d, r
  <2>5. regs[1] < arg[2] /\ Shifted(Dividend, arg[2], regs[RA] - 1, regs[1] + arg[2], regs[0])
    BY <2>3, <2>4 DEF d, r
  <2>6. pc' = 28
    BY <1>5, <1>8
  <2>7. Turn(Dividend', arg'[2], pc', regs'[0], regs'[1], regs'[RA], flags')
    BY <1>1, <1>3, <1>6, <2>5, <2>6 DEF Turn
  <2>8. QED BY <1>6, <2>7 DEF DivInv
<1>9. QED BY <1>1, <1>7, <1>8

(* 28: it becomes 1.                                                       *)
LEMMA DivSetBit ==
  ASSUME DivInv, UNCHANGED arg, Step, pc = 28
  PROVE  DivInv'
<1>1. /\ DivFixed /\ regs[RA] \in 1..16 /\ regs[1] < arg[2]
      /\ Shifted(Dividend, arg[2], regs[RA] - 1, regs[1] + arg[2], regs[0])
  BY DEF DivInv, Turn
<1>2. Computes(ADD, 0, 1)
  <2>1. Get(pc) = {AluI(ADD, 0, 1)} /\ ADD \in 0..15 /\ 0 \in Reg /\ 1 \in 0..15
    BY <1>1, DivFetched, DivRegs DEF DivFixed, ADD, R
  <2>2. QED BY <2>1, StepAluI
<1> DEFINE w == regs[0]
<1>3. w \in Nat /\ w \in Word /\ arg[2] \in Nat /\ regs[1] \in Nat
  BY <1>1, DivRanges
<1>4. Partial(Dividend, arg[2], regs[RA] - 1, regs[1], w + 1) /\ w + 1 \in Word
  <2>1. regs[RA] - 1 \in Nat
    BY <1>1
  <2>2. QED BY <1>1, <1>3, <2>1, ShiftedTakes
<1>5. AluResult(ADD, regs[0], 1, flags).value = w + 1
  <2>1. 1 \in Word /\ w + 1 < Base
    BY <1>3, <1>4, SmallIsWord, WordIs
  <2>2. QED BY <1>3, <2>1, AddResult
<1>6. /\ DivFixed' /\ pc' = 30 /\ Dividend' = Dividend /\ regs'[0] = w + 1
      /\ regs'[1] = regs[1] /\ regs'[RA] = regs[RA]
  <2>1. /\ DivFixed' /\ pc' = pc + 2 /\ Dividend' = Dividend
        /\ regs'[0] = AluResult(ADD, regs[0], 1, flags).value
        /\ \A b \in {0, 1, RA} \ {0} : regs'[b] = regs[b]
    BY <1>1, <1>2, <1>4, <1>5, DivComputes
  <2>2. pc' = 30
    BY <2>1
  <2>3. regs'[1] = regs[1] /\ regs'[RA] = regs[RA]
    BY <2>1 DEF RA
  <2>4. QED BY <1>5, <2>1, <2>2, <2>3
<1>7. Turn(Dividend', arg'[2], pc', regs'[0], regs'[1], regs'[RA], flags')
  BY <1>1, <1>4, <1>6 DEF Turn
<1>8. QED BY <1>6, <1>7 DEF DivInv

(* 30: on to the end of the turn.                                          *)
LEMMA DivSkip ==
  ASSUME DivInv, UNCHANGED arg, Step, pc = 30
  PROVE  DivInv'
<1>1. /\ DivFixed /\ regs[RA] \in 1..16 /\ regs[1] < arg[2]
      /\ Partial(Dividend, arg[2], regs[RA] - 1, regs[1], regs[0])
  BY DEF DivInv, Turn
<1>2. Jumps /\ regs' = regs /\ \E v \in Get(Plus(pc, 2)) : pc' = Plus(Plus(pc, 2), v - 2)
  <2>1. Get(pc) = {JRI}
    BY <1>1, DivFetched DEF DivFixed
  <2>2. ~OnDevice(Plus(pc, 2))
    BY OperandNear
  <2>3. QED BY <2>1, <2>2, StepRelative
<1>3. Plus(30, 2) = 32 /\ Plus(32, 6 - 2) = 36 /\ By(6) = 6
  <2>1. By(6) = 6
    BY SmallIsWord DEF By
  <2>2. QED BY <2>1, PlusSmall
<1>4. pc' = 36
  <2>1. Get(32) = {By(6)}
    BY <1>1, DivFetched DEF DivFixed
  <2>2. QED BY <1>2, <1>3, <2>1
<1>5. DivFixed' /\ Dividend' = Dividend
  BY <1>1, <1>2, <1>4, DivJumps
<1>6. Turn(Dividend', arg'[2], pc', regs'[0], regs'[1], regs'[RA], flags')
  BY <1>1, <1>2, <1>4, <1>5 DEF Turn
<1>7. QED BY <1>5, <1>6 DEF DivInv

(* 34: the divisor is put back.                                            *)
LEMMA DivRestore ==
  ASSUME DivInv, UNCHANGED arg, Step, pc = 34
  PROVE  DivInv'
<1>1. DivFixed /\ regs[RA] \in 1..16
  BY DEF DivInv, Turn
<1>2. PICK t \in Nat : /\ t < arg[2] /\ regs[1] = (t - arg[2]) + Base
                       /\ Shifted(Dividend, arg[2], regs[RA] - 1, t, regs[0])
  BY DEF DivInv, Turn
<1>3. Computes(ADD, 1, regs[2])
  <2>1. Get(pc) = {Alu2(ADD, 1, 2)} /\ ADD \in 0..15 /\ 1 \in Reg /\ 2 \in Reg
    BY <1>1, DivFetched, DivRegs DEF DivFixed, ADD, R
  <2>2. QED BY <2>1, StepAlu2
<1> DEFINE r == regs[1]
           d == arg[2]
<1>4. r \in Nat /\ r \in Word /\ d \in Nat /\ d \in Word /\ regs[2] = d /\ Base \in Nat /\ d <= Base
  <2>1. r \in Nat /\ r \in Word /\ d \in Nat /\ d \in Word /\ regs[2] = d /\ Base \in Nat
    BY <1>1, DivRanges
  <2>2. d < Base
    BY <2>1, WordIs
  <2>3. QED BY <2>1, <2>2
<1>5. AluResult(ADD, regs[1], regs[2], flags).value = t /\ t \in Word
  <2>1. r = (t - d) + Base /\ t < d
    BY <1>2
  <2>2. ~(r + d < Base) /\ (r + d) - Base = t /\ t < Base
    <3> HIDE DEF r, d
    <3>1. QED BY <1>4, <2>1
  <2>3. t \in Word
    BY <2>2, WordIs
  <2>4. AluResult(ADD, r, d, flags).value = IF r + d < Base THEN r + d ELSE (r + d) - Base
    BY <1>4, AddResult
  <2>5. QED BY <1>4, <2>2, <2>3, <2>4
<1>6. /\ DivFixed' /\ pc' = 36 /\ Dividend' = Dividend /\ regs'[1] = t
      /\ regs'[0] = regs[0] /\ regs'[RA] = regs[RA]
  <2>1. /\ DivFixed' /\ pc' = pc + 2 /\ Dividend' = Dividend
        /\ regs'[1] = AluResult(ADD, regs[1], regs[2], flags).value
        /\ \A b \in {0, 1, RA} \ {1} : regs'[b] = regs[b]
    BY <1>1, <1>3, <1>5, DivComputes
  <2>2. pc' = 36
    BY <2>1
  <2>3. regs'[0] = regs[0] /\ regs'[RA] = regs[RA]
    BY <2>1 DEF RA
  <2>4. QED BY <1>5, <2>1, <2>2, <2>3
<1>7. Partial(Dividend, arg[2], regs[RA] - 1, t, regs[0])
  BY <1>2, ShiftedKeeps
<1>8. Turn(Dividend', arg'[2], pc', regs'[0], regs'[1], regs'[RA], flags')
  BY <1>1, <1>2, <1>6, <1>7 DEF Turn
<1>9. QED BY <1>6, <1>8 DEF DivInv

(* 36: one turn less to go.                                                *)
LEMMA DivCountDown ==
  ASSUME DivInv, UNCHANGED arg, Step, pc = 36
  PROVE  DivInv'
<1>1. /\ DivFixed /\ regs[RA] \in 1..16 /\ regs[1] < arg[2]
      /\ Partial(Dividend, arg[2], regs[RA] - 1, regs[1], regs[0])
  BY DEF DivInv, Turn
<1>2. Computes(SUB, RA, 1)
  <2>1. Get(pc) = {AluI(SUB, RA, 1)} /\ SUB \in 0..15 /\ 1 \in 0..15
    BY <1>1, DivFetched DEF DivFixed, SUB
  <2>2. QED BY <2>1, StepAluI, DivRegs
<1> DEFINE k == regs[RA]
           z == AluResult(SUB, k, 1, flags).flags.z
<1>3. k \in 1..16 /\ k \in Word /\ 1 \in Word
  BY <1>1, DivRanges, SmallIsWord
<1>4. AluResult(SUB, k, 1, flags).value = k - 1 /\ (z <=> k = 1)
  <2>1. /\ AluResult(SUB, k, 1, flags).value = IF k < 1 THEN (k - 1) + Base ELSE k - 1
        /\ z <=> k = 1
    BY <1>3, SubResult
  <2> HIDE DEF k, z
  <2>2. ~(k < 1)
    BY <1>3
  <2>3. QED BY <2>1, <2>2
<1>5. k - 1 \in 0..15 /\ k - 1 \in Word /\ (k - 1 = 0 <=> k = 1)
  <2> HIDE DEF k
  <2>1. k - 1 \in 0..15 /\ k - 1 \in 0..255 /\ (k - 1 = 0 <=> k = 1)
    BY <1>3
  <2>2. QED BY <2>1, SmallIsWord
<1>6. /\ DivFixed' /\ pc' = 38 /\ Dividend' = Dividend /\ regs'[RA] = k - 1
      /\ regs'[0] = regs[0] /\ regs'[1] = regs[1] /\ flags'.z = z
  <2>1. /\ DivFixed' /\ pc' = pc + 2 /\ Dividend' = Dividend
        /\ flags' = AluResult(SUB, regs[RA], 1, flags).flags
        /\ regs'[RA] = AluResult(SUB, regs[RA], 1, flags).value
        /\ \A b \in {0, 1, RA} \ {RA} : regs'[b] = regs[b]
    BY <1>1, <1>2, <1>4, <1>5, DivComputes
  <2>2. pc' = 38
    BY <2>1
  <2>3. regs'[0] = regs[0] /\ regs'[1] = regs[1]
    BY <2>1 DEF RA
  <2>4. QED BY <1>4, <2>1, <2>2, <2>3
<1> HIDE DEF z
<1>7. Turn(Dividend', arg'[2], pc', regs'[0], regs'[1], regs'[RA], flags')
  <2>1. flags'.z <=> regs'[RA] = 0
    BY <1>4, <1>5, <1>6
  <2>2. QED BY <1>1, <1>5, <1>6, <2>1 DEF Turn
<1>8. QED BY <1>6, <1>7 DEF DivInv

(* 38: another turn, or the end.                                           *)
LEMMA DivTurn ==
  ASSUME DivInv, UNCHANGED arg, Step, pc = 38
  PROVE  DivInv'
<1>1. /\ DivFixed /\ regs[RA] \in 0..15 /\ regs[1] < arg[2] /\ (flags.z <=> regs[RA] = 0)
      /\ Partial(Dividend, arg[2], regs[RA], regs[1], regs[0])
  BY DEF DivInv, Turn
<1>2. /\ Jumps /\ regs' = regs
      /\ IF flags.z # TRUE
           THEN \E v \in Get(Plus(pc, 2)) : pc' = Plus(Plus(pc, 2), v - 2)
           ELSE pc' = Plus(pc, 4)
  <2>1. Get(pc) = {JRIif(Z, TRUE)}
    BY <1>1, DivFetched DEF DivFixed
  <2>2. Z \in Conditions /\ Condition(Z) = flags.z
    BY DEF Z, Conditions, Condition
  <2>3. ~OnDevice(Plus(pc, 2))
    BY OperandNear
  <2>4. QED BY <2>1, <2>2, <2>3, StepBranch
<1>3. Plus(38, 2) = 40 /\ Plus(38, 4) = 42 /\ Plus(40, By(-26) - 2) = 12
  <2>1. (-26) % Base = Base - 26 /\ (40 + ((Base - 26) - 2)) % Base = 12
    <3>1. Base \in Nat \ {0} /\ 26 < Base
      <4>1. Base = 256 * 256
        BY Powers, WordFacts
      <4>2. QED BY <4>1
    <3>2. /\ -26 = Base * (-1) + (Base - 26) /\ Base - 26 \in 0..(Base - 1)
          /\ 40 + ((Base - 26) - 2) = Base * 1 + 12 /\ 12 \in 0..(Base - 1)
      BY <3>1
    <3>3. /\ (Base * (-1) + (Base - 26)) % Base = Base - 26
          /\ (Base * 1 + 12) % Base = 12
      BY <3>1, <3>2, DivisionUnique
    <3>4. QED BY <3>2, <3>3
  <2>2. QED BY <2>1, PlusSmall DEF By, Plus
<1>4. \/ regs[RA] # 0 /\ pc' = 12
      \/ regs[RA] = 0 /\ pc' = 42
  <2>1. Get(40) = {By(-26)}
    BY <1>1, DivFetched DEF DivFixed
  <2>2. CASE regs[RA] = 0
    <3>1. flags.z
      BY <1>1, <2>2
    <3>2. QED BY <1>2, <1>3, <2>2, <3>1
  <2>3. CASE regs[RA] # 0
    <3>1. flags.z # TRUE
      BY <1>1, <2>3
    <3>2. QED BY <1>2, <1>3, <2>1, <2>3, <3>1
  <2>4. QED BY <2>2, <2>3
<1>5. DivFixed' /\ Dividend' = Dividend
  <2>1. pc' # 8 /\ pc # 0 /\ pc # 8
    BY <1>4
  <2>2. QED BY <1>1, <1>2, <2>1, DivJumps
<1>6. CASE regs[RA] # 0
  <2>1. regs[RA] \in 1..16 /\ pc' = 12
    BY <1>1, <1>4, <1>6
  <2>2. Turn(Dividend', arg'[2], pc', regs'[0], regs'[1], regs'[RA], flags')
    BY <1>1, <1>2, <1>5, <2>1 DEF Turn
  <2>3. QED BY <1>5, <2>2 DEF DivInv
<1>7. CASE regs[RA] = 0
  <2>1. regs[0] * arg[2] + regs[1] = Dividend
    <3>1. regs[1] \in Nat /\ arg[2] \in Nat
      BY <1>1, DivRanges
    <3>2. Partial(Dividend, arg[2], 0, regs[1], regs[0])
      BY <1>1, <1>7
    <3>3. QED BY <3>1, <3>2, PartialEnd
  <2>2. pc' = 42
    BY <1>4, <1>7
  <2>3. Turn(Dividend', arg'[2], pc', regs'[0], regs'[1], regs'[RA], flags')
    BY <1>1, <1>2, <1>5, <2>1, <2>2 DEF Turn
  <2>4. QED BY <1>5, <2>3 DEF DivInv
<1>8. QED BY <1>6, <1>7

(* 42, 4, 6: back behind the call, and on to HALT.                         *)
LEMMA DivReturn ==
  ASSUME DivInv, UNCHANGED arg, Step, pc \in {42, 4, 6}
  PROVE  DivInv'
<1>1. DivFixed /\ regs[1] < arg[2] /\ regs[0] * arg[2] + regs[1] = Dividend
  BY DEF DivInv, Turn
<1>2. ASSUME DivFixed', regs' = regs, pc' \in {4, 6, 8}
      PROVE  DivInv'
  <2>1. Turn(Dividend', arg'[2], pc', regs'[0], regs'[1], regs'[RA], flags')
    BY <1>1, <1>2 DEF Turn, Dividend
  <2>2. QED BY <1>2, <2>1 DEF DivInv
<1>3. CASE pc = 42
  <2>1. Get(pc) = {JP(RL)}
    BY <1>1, <1>3, DivFetched DEF DivFixed
  <2>2. Jumps /\ regs' = regs /\ pc' = regs[RL]
    BY <2>1, StepReturn, DivRegs
  <2>3. pc' = 4
    BY <1>1, <1>3, <2>2 DEF DivFixed
  <2>4. DivFixed'
    BY <1>1, <1>3, <2>2, <2>3, DivJumps
  <2>5. QED BY <1>2, <2>2, <2>3, <2>4
<1>4. CASE pc = 4
  <2>1. Get(pc) = {JPM(4)}
    BY <1>1, <1>4, DivFetched DEF DivFixed, R
  <2>2. Jumps /\ regs' = regs /\ pc' \in Get(regs[4])
    <3>1. regs[4] = 8 /\ 4 \in Reg
      BY <1>1, DivRegs DEF DivFixed
    <3>2. ~OnDevice(regs[4])
      BY <3>1, CodeNear
    <3>3. QED BY <2>1, <3>1, <3>2, StepIndirect
  <2>3. pc' = 6
    <3>1. regs[4] = 8 /\ Get(8) = {6}
      BY <1>1, DivFetched DEF DivFixed
    <3>2. QED BY <2>2, <3>1
  <2>4. DivFixed'
    BY <1>1, <1>4, <2>2, <2>3, DivJumps
  <2>5. QED BY <1>2, <2>2, <2>3, <2>4
<1>5. CASE pc = 6
  <2>1. Get(pc) = {HALT}
    BY <1>1, <1>5, DivFetched DEF DivFixed
  <2>2. halted' = TRUE /\ pc' = Plus(pc, 2) /\ UNCHANGED <<regs, ram>>
    BY <2>1, StepHalt
  <2>3. pc' = 8
    BY <1>5, <2>2, PlusSmall
  <2>4. DivFixed'
    BY <1>1, <1>5, <2>2, <2>3 DEF DivFixed
  <2>5. QED BY <1>2, <2>2, <2>3, <2>4
<1>6. QED BY <1>3, <1>4, <1>5

(* 0: the call.                                                            *)
LEMMA DivCall ==
  ASSUME DivInv, UNCHANGED arg, Step, pc = 0
  PROVE  DivInv'
<1>1. DivFixed /\ regs[0] = arg[0] /\ regs[1] = arg[1]
  BY DEF DivInv, Turn
<1>2. Jumps /\ regs' = [regs EXCEPT ![RL] = LinkAddress] /\ pc' \in Get(Plus(pc, 2))
  <2>1. Get(pc) = {JPIL}
    BY <1>1, DivFetched DEF DivFixed
  <2>2. ~OnDevice(Plus(pc, 2))
    BY OperandNear
  <2>3. QED BY <2>1, <2>2, StepCall
<1>3. LinkAddress = 4 /\ Plus(pc, 2) = 2 /\ 4 \in Word
  <2>1. LinkAddress = 4 /\ Plus(pc, 2) = 2
    BY PlusSmall DEF LinkAddress
  <2>2. QED BY <2>1, SmallIsWord
<1>4. pc' = 10
  <2>1. Get(2) = {10}
    BY <1>1, DivFetched DEF DivFixed
  <2>2. QED BY <1>2, <1>3, <2>1
<1>5. /\ regs' \in [Reg -> Word] /\ regs'[RL] = 4
      /\ \A b \in Reg \ {RL} : regs'[b] = regs[b]
  BY <1>1, <1>2, <1>3, DivRegs, Assigned DEF DivFixed
<1>6. regs'[0] = regs[0] /\ regs'[1] = regs[1] /\ regs'[2] = regs[2] /\ regs'[4] = regs[4]
  BY <1>5, DivRegs
<1>7. DivFixed'
  BY <1>1, <1>2, <1>4, <1>5, <1>6 DEF DivFixed, Jumps
<1>8. QED BY <1>1, <1>4, <1>6, <1>7 DEF DivInv

LEMMA DivStep ==
  ASSUME DivInv, UNCHANGED arg, Step
  PROVE  DivInv'
<1>1. ~halted
  BY DEF Step
<1>2. pc # 8
  BY <1>1 DEF DivInv, DivFixed
<1>3. pc \in {0, 10, 12, 14, 16, 20, 22, 24, 28, 30, 34, 36, 38, 42, 4, 6}
  BY <1>2 DEF DivInv, Turn
<1>4. QED
  BY <1>3, DivCall, DivCount, DivDoubleHigh, DivDoubleLow, DivBranchOnCarry, DivTakeBit,
     DivSubtract, DivBranchOnSign, DivSetBit, DivSkip, DivRestore, DivCountDown, DivTurn, DivReturn

(* The call is set up with a dividend and a divisor that fit.              *)
LEMMA DivInit ==
  ASSUME ProgramInit, program = "div"
  PROVE  DivInv
<1>1. ram = Image(DivCode) /\ arg = regs
  BY DEF ProgramInit
<1>2. PICK lo \in Dividends, hi \in Highs, d \in Divisors :
        hi < d /\ Start([Cleared EXCEPT ![0] = lo, ![1] = hi, ![2] = d, ![4] = 8])
  BY DEF ProgramInit
<1>3. /\ regs = [Cleared EXCEPT ![0] = lo, ![1] = hi, ![2] = d, ![4] = 8]
      /\ pc = 0 /\ halted = FALSE
  BY <1>2 DEF Start
<1>4. lo \in Word /\ hi \in Nat /\ d \in 1..(Base \div 2) /\ hi < d
  BY <1>2, KernelProgramsAssumption DEF KernelProgramsAssumption
<1>5. d \in Word /\ hi \in Word /\ 0 \in Word /\ 8 \in Word
  <2>1. Base \div 2 < Base /\ Base \div 2 \in Nat /\ Base \in Nat
    BY BaseIsNat
  <2>2. d \in Nat /\ d < Base /\ hi < Base
    BY <1>4, <2>1
  <2>3. d \in Word /\ hi \in Word
    BY <1>4, <2>2, WordIs
  <2>4. QED BY <2>3, SmallIsWord
<1>6. Cleared \in [Reg -> Word]
  BY <1>5 DEF Cleared
<1>7. /\ regs \in [Reg -> Word] /\ regs[0] = lo /\ regs[1] = hi /\ regs[2] = d /\ regs[4] = 8
  BY <1>3, <1>4, <1>5, <1>6 DEF Reg
<1>8. DivFixed
  <2>1. halted \in BOOLEAN /\ (halted <=> pc = 8)
    <3>1. pc # 8
      BY <1>3
    <3>2. halted = FALSE
      BY <1>3
    <3>3. QED BY <3>1, <3>2
  <2>2. pc # 0 => regs[RL] = 4
    BY <1>3
  <2>3. QED BY <1>1, <1>4, <1>5, <1>7, <2>1, <2>2 DEF DivFixed
<1>9. QED BY <1>1, <1>3, <1>8 DEF DivInv

(* UD_DIV leaves the quotient and the remainder, for every dividend and    *)
(* divisor, and comes back behind its call, whatever the UART and the host *)
(* do meanwhile.                                                           *)
THEOREM DivisionDivides16 == ProgramSpec => []DivisionCorrect
<1> DEFINE Inv == program = "div" => DivInv
<1>1. ProgramInit => Inv
  BY DivInit
<1>2. Inv /\ [ProgramNext]_programVars => Inv'
  <2> SUFFICES ASSUME program = "div" => DivInv, [ProgramNext]_programVars, program' = "div"
               PROVE  DivInv'
    OBVIOUS
  <2>1. program' = program /\ arg' = arg
    BY DEF ProgramNext, programVars
  <2>2. DivInv
    BY <2>1
  <2>3. CASE UNCHANGED <<cpuVars, ram>>
    BY <2>1, <2>2, <2>3 DEF cpuVars, DivInv, DivFixed, Dividend
  <2>4. CASE Step
    BY <2>1, <2>2, <2>4, DivStep
  <2>5. QED
    BY <2>3, <2>4
    DEF ProgramNext, programVars, machineVars, MachineNext, MachineTick, MachineTyping
<1>3. Inv => DivisionCorrect
  <2> SUFFICES ASSUME DivInv, halted
               PROVE  /\ pc = 8
                      /\ regs[1] < regs[2] /\ regs[2] = arg[2]
                      /\ regs[0] * regs[2] + regs[1] = arg[1] * Base + arg[0]
    BY DEF DivisionCorrect
  <2>1. DivFixed /\ pc = 8
    BY DEF DivInv, DivFixed
  <2>2. regs[1] < arg[2] /\ regs[0] * arg[2] + regs[1] = Dividend
    BY <2>1 DEF DivInv, Turn
  <2>3. QED BY <2>1, <2>2 DEF DivFixed, Dividend
<1>4. QED BY <1>1, <1>2, <1>3, PTL DEF ProgramSpec
----------------------------------------------------------------------------
(* Loads and stores, one step of them.                                     *)
Loads(i) ==
  LET p == Pointer(i)
  IN  /\ \/ OnDevice(p.addr) /\ ReadAccess(p.addr - UartStart)
            /\ regs' = [p.regs EXCEPT ![i.a] = Moved(i.op, DeviceValue(p.addr - UartStart))]
         \/ ~OnDevice(p.addr) /\ OtherInstruction
            /\ \E v \in (IF i.op = 0 THEN Get(p.addr) ELSE GetC(p.addr)) :
                 regs' = [p.regs EXCEPT ![i.a] = v]
      /\ pc' = Plus(pc, Length(i))
      /\ UNCHANGED <<flags, halted, ie, ram>>

Stores(i) ==
  LET p == Pointer(i)
      value == IF i.mode = RegDec THEN p.regs[i.a] ELSE regs[i.a]
  IN  /\ \/ OnDevice(p.addr) /\ WriteAccess(p.addr - UartStart, Moved(i.op, value))
            /\ UNCHANGED ram
         \/ ~OnDevice(p.addr) /\ OtherInstruction
            /\ IF i.op = 2 THEN Put(p.addr, value) ELSE PutC(p.addr, value)
      /\ regs' = p.regs
      /\ pc' = Plus(pc, Length(i))
      /\ UNCHANGED <<flags, halted, ie>>

LEMMA StepMem ==
  ASSUME NEW op \in 0..3, NEW mode \in 0..3, NEW a \in Reg, NEW b \in Reg,
         Step, Get(pc) = {Mem(op, mode, a, b)}
  PROVE  LET i == [group |-> LDS, op |-> op, mode |-> mode, a |-> a, b |-> b]
         IN  (op \in {0, 1} /\ Loads(i)) \/ (op \in {2, 3} /\ Stores(i))
<1> DEFINE i == [group |-> LDS, op |-> op, mode |-> mode, a |-> a, b |-> b]
           w == Assemble(i)
<1> SUFFICES (op \in {0, 1} /\ Loads(i)) \/ (op \in {2, 3} /\ Stores(i))
  OBVIOUS
<1>1. i \in LdsLine
  BY DEF LdsLine
<1>2. Fetches(i)
  BY <1>1, AssembledIsDecoded DEF Fetches, Mem
<1>3. i.group = LDS /\ i.op = op
  OBVIOUS
<1>4. Decode(w) = i
  BY <1>2 DEF Fetches, Codes
<1> HIDE DEF i
<1>5. Load(w) \/ Store(w)
  BY <1>2, <1>3, Executed
<1> HIDE DEF w
<1>6. CASE Load(w)
  <2>1. i.op \in {0, 1} /\ Loads(i)
    BY <1>4, <1>6 DEF Load, Loads
  <2>2. op \in {0, 1} /\ Loads(i)
    BY <1>3, <2>1
  <2>3. QED BY <2>2
<1>7. CASE Store(w)
  <2>1. i.op \in {2, 3} /\ Stores(i)
    BY <1>4, <1>7 DEF Store, Stores
  <2>2. op \in {2, 3} /\ Stores(i)
    BY <1>3, <2>1
  <2>3. QED BY <2>2
<1>8. QED BY <1>5, <1>6, <1>7

(* The four ways to find the address of a word.                            *)
PointsTo(i, addr, registers) == Pointer(i).addr = addr /\ Pointer(i).regs = registers

LEMMA PointerReg ==
  ASSUME NEW i, i.op \notin {1, 3}, i.mode = RegReg
  PROVE  PointsTo(i, regs[i.b], regs) /\ Length(i) = 2
<1>1. Pointer(i) = [addr |-> regs[i.b], regs |-> regs]
  BY DEF Pointer, RegReg, RegHere, RegInc, RegDec
<1>2. Length(i) = 2
  BY DEF Length, RegReg, RegHere, RegInc, RegDec
<1>3. PointsTo(i, regs[i.b], regs)
  <2> DEFINE registers == regs
  <2> HIDE DEF registers
  <2>1. Pointer(i) = [addr |-> regs[i.b], regs |-> registers]
    BY <1>1 DEF registers
  <2>2. PointsTo(i, regs[i.b], registers)
    BY <2>1 DEF PointsTo
  <2>3. QED BY <2>2 DEF registers
<1>4. QED BY <1>2, <1>3

LEMMA PointerHere ==
  ASSUME NEW i, i.op \notin {1, 3}, i.mode = RegHere
  PROVE  PointsTo(i, Plus(pc, 2), regs) /\ Length(i) = 4
<1>1. Pointer(i) = [addr |-> Plus(pc, 2), regs |-> regs]
  BY DEF Pointer, RegReg, RegHere, RegInc, RegDec
<1>2. Length(i) = 4
  BY DEF Length, RegReg, RegHere, RegInc, RegDec
<1>3. PointsTo(i, Plus(pc, 2), regs)
  <2> DEFINE registers == regs
  <2> HIDE DEF registers
  <2>1. Pointer(i) = [addr |-> Plus(pc, 2), regs |-> registers]
    BY <1>1 DEF registers
  <2>2. PointsTo(i, Plus(pc, 2), registers)
    BY <2>1 DEF PointsTo
  <2>3. QED BY <2>2 DEF registers
<1>4. QED BY <1>2, <1>3

LEMMA PointerInc ==
  ASSUME NEW i, i.op \notin {1, 3}, i.mode = RegInc
  PROVE  PointsTo(i, regs[i.b], [regs EXCEPT ![i.b] = Plus(regs[i.b], 2)]) /\ Length(i) = 2
<1>1. Pointer(i) = [addr |-> regs[i.b], regs |-> [regs EXCEPT ![i.b] = Plus(regs[i.b], 2)]]
  BY DEF Pointer, RegReg, RegHere, RegInc, RegDec
<1>2. Length(i) = 2
  BY DEF Length, RegReg, RegHere, RegInc, RegDec
<1>3. PointsTo(i, regs[i.b], [regs EXCEPT ![i.b] = Plus(regs[i.b], 2)])
  <2> DEFINE registers == [regs EXCEPT ![i.b] = Plus(regs[i.b], 2)]
  <2> HIDE DEF registers
  <2>1. Pointer(i) = [addr |-> regs[i.b], regs |-> registers]
    BY <1>1 DEF registers
  <2>2. PointsTo(i, regs[i.b], registers)
    BY <2>1 DEF PointsTo
  <2>3. QED BY <2>2 DEF registers
<1>4. QED BY <1>2, <1>3

LEMMA PointerDec ==
  ASSUME NEW i, i.op \notin {1, 3}, i.mode = RegDec
  PROVE  PointsTo(i, Plus(regs[i.b], -2), [regs EXCEPT ![i.b] = Plus(regs[i.b], -2)]) /\ Length(i) = 2
<1>1. Pointer(i) = [addr |-> Plus(regs[i.b], -2), regs |-> [regs EXCEPT ![i.b] = Plus(regs[i.b], -2)]]
  BY DEF Pointer, RegReg, RegHere, RegInc, RegDec
<1>2. Length(i) = 2
  BY DEF Length, RegReg, RegHere, RegInc, RegDec
<1>3. PointsTo(i, Plus(regs[i.b], -2), [regs EXCEPT ![i.b] = Plus(regs[i.b], -2)])
  <2> DEFINE registers == [regs EXCEPT ![i.b] = Plus(regs[i.b], -2)]
  <2> HIDE DEF registers
  <2>1. Pointer(i) = [addr |-> Plus(regs[i.b], -2), regs |-> registers]
    BY <1>1 DEF registers
  <2>2. PointsTo(i, Plus(regs[i.b], -2), registers)
    BY <2>1 DEF PointsTo
  <2>3. QED BY <2>2 DEF registers
<1>4. QED BY <1>2, <1>3

(* What a step that sends nothing leaves alone.                            *)
Silent == UNCHANGED <<halted, printed>>

LEMMA OtherIsSilent == OtherInstruction => printed' = printed
BY DEF OtherInstruction, TickEffect

(* LDI takes the word that follows it.                                     *)
LEMMA StepLoadNext ==
  ASSUME NEW a \in Reg, NEW v, Step, Get(pc) = {LDI(a)}, Get(Plus(pc, 2)) = {v},
         ~OnDevice(Plus(pc, 2))
  PROVE  /\ regs' = [regs EXCEPT ![a] = v] /\ pc' = Plus(pc, 4)
         /\ ram' = ram /\ Silent
<1> DEFINE i == [group |-> LDS, op |-> 0, mode |-> RegHere, a |-> a, b |-> 0]
<1>1. Loads(i)
  <2>1. 0 \in 0..3 /\ RegHere \in 0..3 /\ 0 \in Reg /\ 0 \notin {2, 3}
    BY DEF RegHere, Reg
  <2>2. QED BY <2>1, StepMem DEF LDI
<1>2. Pointer(i).addr = Plus(pc, 2) /\ Pointer(i).regs = regs /\ Length(i) = 4
  <2>1. i.op \notin {1, 3} /\ i.mode = RegHere /\ i.b = 0
    BY DEF RegReg, RegHere, RegInc, RegDec
  <2> HIDE DEF i
  <2>2. QED BY <2>1, PointerHere DEF PointsTo
<1>3. i.op = 0 /\ i.a = a
  OBVIOUS
<1> HIDE DEF i
<1>4. /\ regs' = [regs EXCEPT ![a] = v] /\ pc' = Plus(pc, 4)
      /\ ram' = ram /\ halted' = halted /\ OtherInstruction
  BY <1>1, <1>2, <1>3 DEF Loads
<1>5. QED BY <1>4, OtherIsSilent DEF Silent

(* LD from the status register.                                            *)
LEMMA StepLoadStatus ==
  ASSUME NEW a \in Reg, NEW b \in Reg, Step, Get(pc) = {LD(a, b)},
         regs[b] = UartStart, OnDevice(UartStart)
  PROVE  /\ regs' = [regs EXCEPT ![a] = Status] /\ pc' = Plus(pc, 2)
         /\ ram' = ram /\ Silent
<1> DEFINE i == [group |-> LDS, op |-> 0, mode |-> RegReg, a |-> a, b |-> b]
<1>1. Loads(i)
  <2>1. 0 \in 0..3 /\ RegReg \in 0..3 /\ 0 \notin {2, 3}
    BY DEF RegReg
  <2>2. QED BY <2>1, StepMem DEF LD
<1>2. Pointer(i).addr = UartStart /\ Pointer(i).regs = regs /\ Length(i) = 2
  <2>1. i.op \notin {1, 3} /\ i.mode = RegReg /\ i.b = b
    BY DEF RegReg, RegHere, RegInc, RegDec
  <2> HIDE DEF i
  <2>2. QED BY <2>1, PointerReg DEF PointsTo
<1>3. i.op = 0 /\ i.a = a
  OBVIOUS
<1> HIDE DEF i
<1>4. Moved(i.op, DeviceValue(UartStart - UartStart)) = Status
  <2>1. UartStart - UartStart = 0
    BY MemoryAssumption DEF MemoryAssumption
  <2>2. QED BY <1>3, <2>1 DEF Moved, DeviceValue
<1>5. /\ regs' = [regs EXCEPT ![a] = Status] /\ pc' = Plus(pc, 2)
      /\ ram' = ram /\ halted' = halted /\ ReadAccess(UartStart - UartStart)
  BY <1>1, <1>2, <1>3, <1>4 DEF Loads
<1>6. printed' = printed
  BY <1>5 DEF ReadAccess, Read, serialVars
<1>7. QED BY <1>5, <1>6 DEF Silent

(* ST to a register of the UART.                                           *)
LEMMA StepStoreDevice ==
  ASSUME NEW a \in Reg, NEW b \in Reg, Step, Get(pc) = {ST(a, b)}, OnDevice(regs[b])
  PROVE  /\ WriteAccess(regs[b] - UartStart, regs[a])
         /\ pc' = Plus(pc, 2) /\ UNCHANGED <<regs, ram, halted>>
<1> DEFINE i == [group |-> LDS, op |-> 2, mode |-> RegReg, a |-> a, b |-> b]
<1>1. Stores(i)
  <2>1. 2 \in 0..3 /\ RegReg \in 0..3 /\ 2 \notin {0, 1}
    BY DEF RegReg
  <2>2. QED BY <2>1, StepMem DEF ST
<1>2. Pointer(i).addr = regs[b] /\ Pointer(i).regs = regs /\ Length(i) = 2
  <2>1. i.op \notin {1, 3} /\ i.mode = RegReg /\ i.b = b
    BY DEF RegReg, RegHere, RegInc, RegDec
  <2> HIDE DEF i
  <2>2. QED BY <2>1, PointerReg DEF PointsTo
<1>3. i.op = 2 /\ i.a = a /\ i.mode # RegDec
  BY DEF RegReg, RegDec
<1> HIDE DEF i
<1>4. Moved(i.op, regs[a]) = regs[a]
  BY <1>3 DEF Moved
<1>5. QED BY <1>1, <1>2, <1>3, <1>4 DEF Stores

(* PUSH moves the stack pointer and stores under it.                       *)
LEMMA StepPush ==
  ASSUME DOMAIN regs = Reg, NEW a \in Reg \ {RS}, Step, Get(pc) = {PUSH(a, RS)},
         ~OnDevice(Plus(regs[RS], -2))
  PROVE  /\ Put(Plus(regs[RS], -2), regs[a]) /\ regs' = [regs EXCEPT ![RS] = Plus(regs[RS], -2)]
         /\ pc' = Plus(pc, 2) /\ Silent
<1> DEFINE i == [group |-> LDS, op |-> 2, mode |-> RegDec, a |-> a, b |-> RS]
           s == Plus(regs[RS], -2)
<1>0. RS \in Reg
  BY DEF RS, Reg
<1>1. Stores(i)
  <2>1. 2 \in 0..3 /\ RegDec \in 0..3 /\ 2 \notin {0, 1}
    BY DEF RegDec
  <2>2. QED BY <1>0, <2>1, StepMem DEF PUSH
<1>2. Pointer(i).addr = s /\ Pointer(i).regs = [regs EXCEPT ![RS] = s] /\ Length(i) = 2
  <2>1. i.op \notin {1, 3} /\ i.mode = RegDec /\ i.b = RS
    BY DEF RegReg, RegHere, RegInc, RegDec
  <2> HIDE DEF i
  <2>2. QED BY <2>1, PointerDec DEF PointsTo
<1>3. i.op = 2 /\ i.a = a /\ i.mode = RegDec
  OBVIOUS
<1>4. [regs EXCEPT ![RS] = s][a] = regs[a]
  BY <1>0
<1> HIDE DEF i, s
<1>5. /\ Put(s, regs[a]) /\ regs' = [regs EXCEPT ![RS] = s] /\ pc' = Plus(pc, 2)
      /\ halted' = halted /\ OtherInstruction
  <2>1. ~OnDevice(Pointer(i).addr)
    BY <1>2 DEF s
  <2>2. QED BY <1>1, <1>2, <1>3, <1>4, <2>1 DEF Stores
<1>6. QED BY <1>5, OtherIsSilent DEF Silent, s

(* POP loads what the stack pointer points at and moves it.                *)
LEMMA StepPop ==
  ASSUME NEW a \in Reg \ {RS}, NEW v, Step, Get(pc) = {POP(a, RS)},
         ~OnDevice(regs[RS]), Get(regs[RS]) = {v}
  PROVE  /\ regs' = [[regs EXCEPT ![RS] = Plus(regs[RS], 2)] EXCEPT ![a] = v]
         /\ pc' = Plus(pc, 2) /\ ram' = ram /\ Silent
<1> DEFINE i == [group |-> LDS, op |-> 0, mode |-> RegInc, a |-> a, b |-> RS]
           s == Plus(regs[RS], 2)
<1>0. RS \in Reg
  BY DEF RS, Reg
<1>1. Loads(i)
  <2>1. 0 \in 0..3 /\ RegInc \in 0..3 /\ 0 \notin {2, 3}
    BY DEF RegInc
  <2>2. QED BY <1>0, <2>1, StepMem DEF POP
<1>2. Pointer(i).addr = regs[RS] /\ Pointer(i).regs = [regs EXCEPT ![RS] = s] /\ Length(i) = 2
  <2>1. i.op \notin {1, 3} /\ i.mode = RegInc /\ i.b = RS
    BY DEF RegReg, RegHere, RegInc, RegDec
  <2> HIDE DEF i
  <2>2. QED BY <2>1, PointerInc DEF PointsTo
<1>3. i.op = 0 /\ i.a = a
  OBVIOUS
<1> HIDE DEF i, s
<1>4. /\ regs' = [[regs EXCEPT ![RS] = s] EXCEPT ![a] = v] /\ pc' = Plus(pc, 2)
      /\ ram' = ram /\ halted' = halted /\ OtherInstruction
  <2>1. ~OnDevice(Pointer(i).addr) /\ Get(Pointer(i).addr) = {v}
    BY <1>2
  <2>2. \E x \in {v} : regs' = [Pointer(i).regs EXCEPT ![i.a] = x]
    BY <1>1, <1>3, <2>1 DEF Loads
  <2>3. regs' = [Pointer(i).regs EXCEPT ![i.a] = v]
    BY <2>2
  <2>4. QED BY <1>1, <1>2, <1>3, <2>1, <2>3 DEF Loads
<1>5. QED BY <1>4, OtherIsSilent DEF Silent, s
----------------------------------------------------------------------------
(* Where the program's memory and the UART's registers lie.                *)
LEMMA TxPlaces ==
  /\ StackTop \in Nat /\ StackTop >= 80 /\ StackTop <= RamEnd /\ RamEnd \in Nat /\ RamStart = 0
  /\ RamEnd < UartStart /\ UartStart \in Nat /\ UartStart + 5 < 256 * 256
  /\ UartStart \in Word /\ UartStart + 2 \in Word /\ UartStart + 4 \in Word /\ StackTop \in Word
  /\ OnDevice(UartStart) /\ OnDevice(UartStart + 2) /\ OnDevice(UartStart + 4)
  /\ \A addr \in 0..(RamEnd - 1) : AddressDecode(addr) = "ram" /\ ~OnDevice(addr)
<1>1. /\ RamStart = 0 /\ StackTop \in 80..RamEnd /\ RamEnd \in Nat
      /\ RomStart \in Nat /\ RomEnd \in Nat /\ RamEnd <= RomStart /\ RomStart < RomEnd
      /\ UartStart \in Nat /\ UartEnd \in Nat /\ RomEnd <= UartStart
      /\ UartEnd - UartStart \in 5..8
  BY KernelProgramsAssumption, MemoryAssumption, ForthVMAssumption
  DEF KernelProgramsAssumption, MemoryAssumption, ForthVMAssumption
<1>2. UartEnd < 256 * 256
  <2>1. UartEnd < Base
    <3>1. UartEnd \in Int /\ UartEnd \in Word
      BY <1>1, WordFacts
    <3>2. QED BY <3>1, WordIs
  <2>2. Base = 256 * 256
    BY Powers, WordFacts
  <2>3. QED BY <2>1, <2>2
<1>3. /\ StackTop \in Nat /\ StackTop >= 80 /\ StackTop <= RamEnd
      /\ RamEnd < UartStart /\ UartStart + 5 < 256 * 256 + 1 /\ UartStart + 5 <= UartEnd
  BY <1>1, <1>2
<1>4. UartStart + 5 < 256 * 256
  BY <1>1, <1>2
<1>5. UartStart \in Word /\ UartStart + 2 \in Word /\ UartStart + 4 \in Word /\ StackTop \in Word
  <2>1. Base = 256 * 256
    BY Powers, WordFacts
  <2>2. /\ UartStart < Base /\ UartStart + 2 < Base /\ UartStart + 4 < Base /\ StackTop < Base
    BY <1>1, <1>3, <1>4, <2>1
  <2>3. QED BY <1>1, <1>3, <2>2, WordIs
<1>6. OnDevice(UartStart) /\ OnDevice(UartStart + 2) /\ OnDevice(UartStart + 4)
  BY <1>1, <1>3 DEF OnDevice, AddressDecode
<1>7. \A addr \in 0..(RamEnd - 1) : AddressDecode(addr) = "ram" /\ ~OnDevice(addr)
  BY <1>1 DEF OnDevice, AddressDecode
<1>8. QED BY <1>1, <1>3, <1>4, <1>5, <1>6, <1>7

(* The program that sends two bytes: its words.                            *)
LEMMA TxWords ==
  /\ Len(TxCode) = 32 /\ TxCode \in Seq(Word)
  /\ TxCode[1] = LDI(R(3)) /\ TxCode[2] = UartStart + 4 /\ TxCode[3] = AluAI(MOV, 5)
  /\ TxCode[4] = ST(RA, R(3)) /\ TxCode[5] = LDI(RS) /\ TxCode[6] = StackTop
  /\ TxCode[7] = AluAI(MOV, 65) /\ TxCode[8] = JPIL /\ TxCode[9] = 30
  /\ TxCode[10] = AluAI(MOV, 66) /\ TxCode[11] = JPIL /\ TxCode[12] = 30 /\ TxCode[13] = EI
  /\ TxCode[14] = DI /\ TxCode[15] = HALT /\ TxCode[16] = PUSH(R(1), RS)
  /\ TxCode[17] = PUSH(R(2), RS) /\ TxCode[18] = PUSH(R(0), RS)
  /\ TxCode[19] = Alu2(MOV, R(0), RA) /\ TxCode[20] = LDI(R(1)) /\ TxCode[21] = UartStart
  /\ TxCode[22] = LDI(R(2)) /\ TxCode[23] = UartStart + 2 /\ TxCode[24] = LD(RA, R(1))
  /\ TxCode[25] = AluAI(AND, 4) /\ TxCode[26] = JRIif(Z, FALSE) /\ TxCode[27] = By(-4)
  /\ TxCode[28] = ST(R(0), R(2)) /\ TxCode[29] = POP(R(0), RS) /\ TxCode[30] = POP(R(2), RS)
  /\ TxCode[31] = POP(R(1), RS) /\ TxCode[32] = JP(RL)
<1> DEFINE caller ==
      << LDI(R(3)), UartStart + 4, AluAI(MOV, 5), ST(RA, R(3)), LDI(RS), StackTop,
         AluAI(MOV, 65), JPIL, 30, AluAI(MOV, 66), JPIL, 30, EI, DI, HALT >>
           routine == UartTxByte(UartStart, UartStart + 2)
<1>1. /\ Len(caller) = 15
      /\ caller[1] = LDI(R(3)) /\ caller[2] = UartStart + 4 /\ caller[3] = AluAI(MOV, 5)
      /\ caller[4] = ST(RA, R(3)) /\ caller[5] = LDI(RS) /\ caller[6] = StackTop
      /\ caller[7] = AluAI(MOV, 65) /\ caller[8] = JPIL /\ caller[9] = 30
      /\ caller[10] = AluAI(MOV, 66) /\ caller[11] = JPIL /\ caller[12] = 30
      /\ caller[13] = EI /\ caller[14] = DI /\ caller[15] = HALT
  OBVIOUS
<1>2. /\ Len(routine) = 17
      /\ routine[1] = PUSH(R(1), RS) /\ routine[2] = PUSH(R(2), RS)
      /\ routine[3] = PUSH(R(0), RS) /\ routine[4] = Alu2(MOV, R(0), RA)
      /\ routine[5] = LDI(R(1)) /\ routine[6] = UartStart /\ routine[7] = LDI(R(2))
      /\ routine[8] = UartStart + 2 /\ routine[9] = LD(RA, R(1))
      /\ routine[10] = AluAI(AND, 4) /\ routine[11] = JRIif(Z, FALSE)
      /\ routine[12] = By(-4) /\ routine[13] = ST(R(0), R(2)) /\ routine[14] = POP(R(0), RS)
      /\ routine[15] = POP(R(2), RS) /\ routine[16] = POP(R(1), RS) /\ routine[17] = JP(RL)
  BY DEF UartTxByte
<1>3. caller = [n \in 1..15 |-> caller[n]] /\ routine = [n \in 1..17 |-> routine[n]]
  BY DEF UartTxByte
<1>4. TxCode = caller \o routine
  BY DEF TxCode
<1> HIDE DEF caller, routine
<1>5. /\ LDI(R(3)) \in Word /\ LDI(RS) \in Word /\ LDI(R(1)) \in Word /\ LDI(R(2)) \in Word
      /\ ST(RA, R(3)) \in Word /\ ST(R(0), R(2)) \in Word /\ LD(RA, R(1)) \in Word
      /\ PUSH(R(1), RS) \in Word /\ PUSH(R(2), RS) \in Word /\ PUSH(R(0), RS) \in Word
      /\ POP(R(1), RS) \in Word /\ POP(R(2), RS) \in Word /\ POP(R(0), RS) \in Word
  <2>1. /\ RA \in Reg /\ RS \in Reg /\ R(0) \in Reg /\ R(1) \in Reg /\ R(2) \in Reg /\ R(3) \in Reg
        /\ 0 \in Reg /\ RegReg \in 0..3 /\ RegHere \in 0..3 /\ RegInc \in 0..3 /\ RegDec \in 0..3
    BY DEF R, RA, RS, Reg, RegReg, RegHere, RegInc, RegDec
  <2>2. QED BY <2>1, InstructionWords DEF LDI, ST, LD, PUSH, POP
<1>6. /\ AluAI(MOV, 5) \in Word /\ AluAI(MOV, 65) \in Word /\ AluAI(MOV, 66) \in Word
      /\ AluAI(AND, 4) \in Word /\ Alu2(MOV, R(0), RA) \in Word
  BY InstructionWords DEF R, RA, Reg, MOV, AND
<1>7. /\ JPIL \in Word /\ JP(RL) \in Word /\ EI \in Word /\ DI \in Word /\ HALT \in Word
      /\ JRIif(Z, FALSE) \in Word /\ By(-4) \in Word
  <2>1. RL \in Reg /\ Z \in Conditions
    BY DEF RL, Reg, Z, Conditions
  <2>2. JPIL \in Word /\ JP(RL) \in Word /\ JRIif(Z, FALSE) \in Word
    BY <2>1, InstructionWords
  <2>3. EI \in Word /\ DI \in Word /\ HALT \in Word
    BY InstructionWords
  <2>4. By(-4) \in Word
    BY InstructionWords
  <2>5. QED BY <2>2, <2>3, <2>4
<1>8. /\ UartStart \in Word /\ UartStart + 2 \in Word /\ UartStart + 4 \in Word
      /\ StackTop \in Word /\ 30 \in Word
  BY TxPlaces, SmallIsWord
<1>9. caller \in Seq(Word)
  <2>1. /\ caller[1] \in Word /\ caller[2] \in Word /\ caller[3] \in Word
        /\ caller[4] \in Word /\ caller[5] \in Word /\ caller[6] \in Word
        /\ caller[7] \in Word /\ caller[8] \in Word /\ caller[9] \in Word
        /\ caller[10] \in Word /\ caller[11] \in Word /\ caller[12] \in Word
        /\ caller[13] \in Word /\ caller[14] \in Word /\ caller[15] \in Word
    BY <1>1, <1>5, <1>6, <1>7, <1>8
  <2>2. \A n \in 1..15 : n \in {1, 2, 3, 4, 5, 6, 7, 8, 9, 10, 11, 12, 13, 14, 15}
    OBVIOUS
  <2>3. \A n \in 1..15 : caller[n] \in Word
    BY <2>1, <2>2
  <2>4. QED BY <1>3, <2>3
<1>10. routine \in Seq(Word)
  <2>1. /\ routine[1] \in Word /\ routine[2] \in Word /\ routine[3] \in Word
        /\ routine[4] \in Word /\ routine[5] \in Word /\ routine[6] \in Word
        /\ routine[7] \in Word /\ routine[8] \in Word /\ routine[9] \in Word
        /\ routine[10] \in Word /\ routine[11] \in Word /\ routine[12] \in Word
        /\ routine[13] \in Word /\ routine[14] \in Word /\ routine[15] \in Word
        /\ routine[16] \in Word /\ routine[17] \in Word
    BY <1>2, <1>5, <1>6, <1>7, <1>8
  <2>2. \A n \in 1..17 : n \in {1, 2, 3, 4, 5, 6, 7, 8, 9, 10, 11, 12, 13, 14, 15, 16, 17}
    OBVIOUS
  <2>3. \A n \in 1..17 : routine[n] \in Word
    BY <2>1, <2>2
  <2>4. QED BY <1>3, <2>3
<1>11. /\ TxCode \in Seq(Word) /\ Len(TxCode) = 32
       /\ \A n \in 1..15 : TxCode[n] = caller[n]
       /\ \A n \in 1..17 : TxCode[15 + n] = routine[n]
  <2> DEFINE joined == caller \o routine
  <2>1. /\ joined \in Seq(Word) /\ Len(joined) = Len(caller) + Len(routine)
        /\ \A n \in 1..Len(caller) : joined[n] = caller[n]
        /\ \A n \in 1..Len(routine) : joined[Len(caller) + n] = routine[n]
    BY <1>9, <1>10, Joined
  <2>2. TxCode = joined
    BY <1>4
  <2> HIDE DEF joined
  <2>3. QED BY <1>1, <1>2, <2>1, <2>2
<1>12. /\ TxCode[1] = caller[1] /\ TxCode[2] = caller[2] /\ TxCode[3] = caller[3]
       /\ TxCode[4] = caller[4] /\ TxCode[5] = caller[5] /\ TxCode[6] = caller[6]
       /\ TxCode[7] = caller[7] /\ TxCode[8] = caller[8] /\ TxCode[9] = caller[9]
       /\ TxCode[10] = caller[10] /\ TxCode[11] = caller[11] /\ TxCode[12] = caller[12]
       /\ TxCode[13] = caller[13] /\ TxCode[14] = caller[14] /\ TxCode[15] = caller[15]
       /\ TxCode[16] = routine[1] /\ TxCode[17] = routine[2] /\ TxCode[18] = routine[3]
       /\ TxCode[19] = routine[4] /\ TxCode[20] = routine[5] /\ TxCode[21] = routine[6]
       /\ TxCode[22] = routine[7] /\ TxCode[23] = routine[8] /\ TxCode[24] = routine[9]
       /\ TxCode[25] = routine[10] /\ TxCode[26] = routine[11] /\ TxCode[27] = routine[12]
       /\ TxCode[28] = routine[13] /\ TxCode[29] = routine[14] /\ TxCode[30] = routine[15]
       /\ TxCode[31] = routine[16] /\ TxCode[32] = routine[17]
  BY <1>11
<1>13. QED BY <1>1, <1>2, <1>11, <1>12

LEMMA TxFetched ==
  ASSUME Holds(TxCode)
  PROVE  /\ Get(0) = {LDI(R(3))} /\ Get(2) = {UartStart + 4} /\ Get(4) = {AluAI(MOV, 5)}
         /\ Get(6) = {ST(RA, R(3))} /\ Get(8) = {LDI(RS)} /\ Get(10) = {StackTop}
         /\ Get(12) = {AluAI(MOV, 65)} /\ Get(14) = {JPIL} /\ Get(16) = {30}
         /\ Get(18) = {AluAI(MOV, 66)} /\ Get(20) = {JPIL} /\ Get(22) = {30}
         /\ Get(24) = {EI} /\ Get(26) = {DI} /\ Get(28) = {HALT}
         /\ Get(30) = {PUSH(R(1), RS)} /\ Get(32) = {PUSH(R(2), RS)}
         /\ Get(34) = {PUSH(R(0), RS)} /\ Get(36) = {Alu2(MOV, R(0), RA)}
         /\ Get(38) = {LDI(R(1))} /\ Get(40) = {UartStart} /\ Get(42) = {LDI(R(2))}
         /\ Get(44) = {UartStart + 2} /\ Get(46) = {LD(RA, R(1))}
         /\ Get(48) = {AluAI(AND, 4)} /\ Get(50) = {JRIif(Z, FALSE)} /\ Get(52) = {By(-4)}
         /\ Get(54) = {ST(R(0), R(2))} /\ Get(56) = {POP(R(0), RS)}
         /\ Get(58) = {POP(R(2), RS)} /\ Get(60) = {POP(R(1), RS)} /\ Get(62) = {JP(RL)}
<1>1. \A n \in 1..32 : Get(2 * n - 2) = {TxCode[n]}
  BY TxWords, FetchWord
<1>2. /\ Get(0) = {TxCode[1]} /\ Get(2) = {TxCode[2]} /\ Get(4) = {TxCode[3]}
      /\ Get(6) = {TxCode[4]} /\ Get(8) = {TxCode[5]} /\ Get(10) = {TxCode[6]}
      /\ Get(12) = {TxCode[7]} /\ Get(14) = {TxCode[8]} /\ Get(16) = {TxCode[9]}
      /\ Get(18) = {TxCode[10]} /\ Get(20) = {TxCode[11]} /\ Get(22) = {TxCode[12]}
      /\ Get(24) = {TxCode[13]} /\ Get(26) = {TxCode[14]} /\ Get(28) = {TxCode[15]}
      /\ Get(30) = {TxCode[16]} /\ Get(32) = {TxCode[17]} /\ Get(34) = {TxCode[18]}
      /\ Get(36) = {TxCode[19]} /\ Get(38) = {TxCode[20]} /\ Get(40) = {TxCode[21]}
      /\ Get(42) = {TxCode[22]} /\ Get(44) = {TxCode[23]} /\ Get(46) = {TxCode[24]}
      /\ Get(48) = {TxCode[25]} /\ Get(50) = {TxCode[26]} /\ Get(52) = {TxCode[27]}
      /\ Get(54) = {TxCode[28]} /\ Get(56) = {TxCode[29]} /\ Get(58) = {TxCode[30]}
      /\ Get(60) = {TxCode[31]} /\ Get(62) = {TxCode[32]}
  <2>1. /\ 2 * 1 - 2 = 0 /\ 2 * 2 - 2 = 2 /\ 2 * 3 - 2 = 4 /\ 2 * 4 - 2 = 6 /\ 2 * 5 - 2 = 8
        /\ 2 * 6 - 2 = 10 /\ 2 * 7 - 2 = 12 /\ 2 * 8 - 2 = 14 /\ 2 * 9 - 2 = 16
        /\ 2 * 10 - 2 = 18 /\ 2 * 11 - 2 = 20 /\ 2 * 12 - 2 = 22 /\ 2 * 13 - 2 = 24
        /\ 2 * 14 - 2 = 26 /\ 2 * 15 - 2 = 28 /\ 2 * 16 - 2 = 30 /\ 2 * 17 - 2 = 32
        /\ 2 * 18 - 2 = 34 /\ 2 * 19 - 2 = 36 /\ 2 * 20 - 2 = 38 /\ 2 * 21 - 2 = 40
        /\ 2 * 22 - 2 = 42 /\ 2 * 23 - 2 = 44 /\ 2 * 24 - 2 = 46 /\ 2 * 25 - 2 = 48
        /\ 2 * 26 - 2 = 50 /\ 2 * 27 - 2 = 52 /\ 2 * 28 - 2 = 54 /\ 2 * 29 - 2 = 56
        /\ 2 * 30 - 2 = 58 /\ 2 * 31 - 2 = 60 /\ 2 * 32 - 2 = 62
    OBVIOUS
  <2>2. QED BY <1>1, <2>1
<1>3. QED BY <1>2, TxWords

(* The routine's stack: the caller's R1, R2 and R0, one under another.     *)
Stacked(depth, v) ==
  ram[StackTop - depth] = v % 256 /\ ram[(StackTop - depth) + 1] = v \div 256

Saved(depth) ==
  /\ depth \in {2, 4, 6} => Stacked(2, 7)
  /\ depth \in {4, 6} => Stacked(4, 8)
  /\ depth = 6 => Stacked(6, 6)

(* The code stays as it is, for the stack lies above it.                   *)
TxFixed == DOMAIN regs = Reg /\ Holds(TxCode)

LEMMA TxRegs ==
  /\ 0 \in Reg /\ 1 \in Reg /\ 2 \in Reg /\ 3 \in Reg /\ RA \in Reg /\ RL \in Reg /\ RS \in Reg
  /\ RA \notin {0, 1, 2, 3, RL, RS} /\ RL \notin {0, 1, 2, 3, RS} /\ RS \notin {0, 1, 2, 3}
  /\ R(0) = 0 /\ R(1) = 1 /\ R(2) = 2 /\ R(3) = 3
BY DEF Reg, RA, RL, RS, R

LEMMA Placed ==
  ASSUME DOMAIN regs = Reg, NEW a \in Reg, NEW STATE v, regs' = [regs EXCEPT ![a] = v]
  PROVE  /\ DOMAIN regs' = Reg /\ regs'[a] = v
         /\ \A b \in Reg \ {a} : regs'[b] = regs[b]
OBVIOUS

(* The words of the stack are words of RAM above the code.                 *)
LEMMA TxStack ==
  ASSUME NEW depth \in {2, 4, 6}
  PROVE  /\ StackTop - depth \in RamBytes /\ (StackTop - depth) + 1 \in RamBytes
         /\ StackTop - depth > 64
         /\ AddressDecode(StackTop - depth) = "ram" /\ ~OnDevice(StackTop - depth)
         /\ Plus(StackTop - (depth - 2), -2) = StackTop - depth
         /\ Plus(StackTop - depth, 2) = StackTop - (depth - 2)
<1>1. /\ StackTop \in Nat /\ StackTop >= 80 /\ StackTop <= RamEnd /\ RamEnd \in Nat /\ RamStart = 0
      /\ RamEnd < 256 * 256
  BY TxPlaces
<1>2. StackTop - depth \in 0..(RamEnd - 1) /\ (StackTop - depth) + 1 \in 0..(RamEnd - 1)
  BY <1>1
<1>3. AddressDecode(StackTop - depth) = "ram" /\ ~OnDevice(StackTop - depth)
  BY <1>2, TxPlaces
<1> DEFINE at == StackTop - depth
           above == StackTop - (depth - 2)
<1>4. /\ at \in Int /\ above \in Int /\ above + (-2) = at /\ at + 2 = above
      /\ 0 <= above + (-2) /\ above + (-2) < 256 * 256
      /\ 0 <= at + 2 /\ at + 2 < 256 * 256 /\ -2 \in Int /\ 2 \in Int
  BY <1>1
<1> HIDE DEF at, above
<1>5. Plus(above, -2) = above + (-2) /\ Plus(at, 2) = at + 2
  BY <1>4, PlusIs
<1>6. Plus(above, -2) = at /\ Plus(at, 2) = above
  BY <1>4, <1>5
<1>7. StackTop - depth > 64
  BY <1>1
<1>8. QED BY <1>1, <1>2, <1>3, <1>6, <1>7 DEF at, above, RamBytes

LEMMA TxPut ==
  ASSUME NEW depth \in {2, 4, 6}, NEW v \in {6, 7, 8}, Put(StackTop - depth, v)
  PROVE  /\ ram'[StackTop - depth] = v % 256 /\ ram'[(StackTop - depth) + 1] = v \div 256
         /\ \A b \in RamBytes \ {StackTop - depth, (StackTop - depth) + 1} : ram'[b] = ram[b]
<1> DEFINE at == StackTop - depth
<1>1. at \in RamBytes /\ at + 1 \in RamBytes /\ AddressDecode(at) = "ram"
  BY TxStack
<1>2. ram' = [b \in RamBytes |-> CASE b = at     -> v % 256
                                   [] b = at + 1 -> (v \div 256) % 256
                                   [] OTHER      -> ram[b]]
  BY <1>1 DEF Put
<1>3. at \in Int /\ at # at + 1 /\ (v \div 256) % 256 = v \div 256
  BY TxPlaces
<1> HIDE DEF at
<1>4. /\ ram'[at] = v % 256 /\ ram'[at + 1] = v \div 256
      /\ \A b \in RamBytes \ {at, at + 1} : ram'[b] = ram[b]
  BY <1>1, <1>2, <1>3
<1>5. QED BY <1>4 DEF at

LEMMA CodeKept ==
  ASSUME Holds(TxCode), NEW depth \in {2, 4, 6},
         \A b \in RamBytes \ {StackTop - depth, (StackTop - depth) + 1} : ram'[b] = ram[b]
  PROVE  Holds(TxCode)'
<1>1. Len(TxCode) = 32
  BY TxWords
<1>2. ASSUME NEW n \in 1..32
      PROVE  2 * n <= RamEnd /\ ram'[2 * n - 2] = ram[2 * n - 2] /\ ram'[2 * n - 1] = ram[2 * n - 1]
  <2>1. /\ StackTop \in Nat /\ StackTop >= 80 /\ StackTop <= RamEnd /\ RamEnd \in Nat /\ RamStart = 0
        /\ StackTop - depth > 64 /\ StackTop - depth \in Int
    BY TxPlaces, TxStack
  <2>2. /\ 2 * n <= RamEnd
        /\ 2 * n - 2 \in RamBytes \ {StackTop - depth, (StackTop - depth) + 1}
        /\ 2 * n - 1 \in RamBytes \ {StackTop - depth, (StackTop - depth) + 1}
    BY <2>1 DEF RamBytes
  <2>3. QED BY <2>2
<1>3. \A n \in 1..32 : /\ ram[2 * n - 2] = TxCode[n] % 256
                       /\ ram[2 * n - 1] = TxCode[n] \div 256
  BY <1>1 DEF Holds
<1> DEFINE code == TxCode
<1> HIDE DEF code
<1>4. QED BY <1>1, <1>2, <1>3 DEF Holds

(* A word of the stack is read as it was written.                          *)
LEMMA TxGet ==
  ASSUME NEW depth \in {2, 4, 6}, NEW v \in {6, 7, 8}, Stacked(depth, v)
  PROVE  Get(StackTop - depth) = {v}
<1> DEFINE at == StackTop - depth
<1>1. at \in RamBytes /\ at + 1 \in RamBytes /\ AddressDecode(at) = "ram"
  BY TxStack
<1>2. ram[at] = v % 256 /\ ram[at + 1] = v \div 256
  BY DEF Stacked
<1> HIDE DEF at
<1>3. Get(at) = WordsOf(ArrayByte(at), ArrayByte(at + 1))
  BY <1>1 DEF Get
<1>4. WordsOf(ArrayByte(at), ArrayByte(at + 1)) = {(v % 256) + 256 * (v \div 256)}
  BY <1>1, <1>2 DEF WordsOf, ArrayByte
<1>5. (v % 256) + 256 * (v \div 256) = v
  OBVIOUS
<1>6. QED BY <1>3, <1>4, <1>5 DEF at

(* What holds before an instruction: where it is, the registers the        *)
(* routine uses, what is on the stack and what has been sent.              *)
At(p, r0, r1, r2, depth, out) ==
  /\ TxFixed /\ pc = p /\ ~halted
  /\ regs[0] = r0 /\ regs[1] = r1 /\ regs[2] = r2 /\ regs[RS] = StackTop - depth
  /\ Saved(depth) /\ printed = out

(* Inside the routine, called to send byte after `before' was sent, and to *)
(* return to back.                                                         *)
TxRoutine(back, byte, before) ==
  LET after == Append(before, byte)
      status == UartStart
      data == UartStart + 2
  IN  /\ regs[RL] = back
      /\ \/ regs[RA] = byte /\ At(30, 6, 7, 8, 0, before)
         \/ regs[RA] = byte /\ At(32, 6, 7, 8, 2, before)
         \/ regs[RA] = byte /\ At(34, 6, 7, 8, 4, before)
         \/ regs[RA] = byte /\ At(36, 6, 7, 8, 6, before)
         \/ At(38, byte, 7, 8, 6, before)
         \/ At(42, byte, status, 8, 6, before)
         \/ \E p \in {46, 48, 50, 54} : At(p, byte, status, data, 6, before)
         \/ At(56, byte, status, data, 6, after)
         \/ At(58, 6, status, data, 4, after)
         \/ At(60, 6, status, 8, 2, after)
         \/ At(62, 6, 7, 8, 0, after)

(* In the program that calls it.                                           *)
TxBegins(p) ==
  /\ TxFixed /\ pc = p /\ ~halted /\ printed = <<>>
  /\ regs[0] = 6 /\ regs[1] = 7 /\ regs[2] = 8
  /\ p \in {4, 6} => regs[3] = UartStart + 4
  /\ p = 6 => regs[RA] = 5

TxCaller ==
  \/ \E p \in {0, 4, 6, 8} : TxBegins(p)
  \/ At(12, 6, 7, 8, 0, <<>>)
  \/ At(14, 6, 7, 8, 0, <<>>) /\ regs[RA] = 65
  \/ At(18, 6, 7, 8, 0, <<65>>)
  \/ At(20, 6, 7, 8, 0, <<65>>) /\ regs[RA] = 66
  \/ \E p \in {24, 26, 28} : At(p, 6, 7, 8, 0, <<65, 66>>)

TxDone ==
  /\ halted /\ pc = 30 /\ printed = <<65, 66>>
  /\ regs[0] = 6 /\ regs[1] = 7 /\ regs[2] = 8 /\ regs[RS] = StackTop

TxInv == TxCaller \/ TxRoutine(18, 65, <<>>) \/ TxRoutine(24, 66, <<65>>) \/ TxDone

(* An instruction that sets one register, and one that sets none.          *)
Moves(a, v, q) == regs' = [regs EXCEPT ![a] = v] /\ pc' = q /\ ram' = ram /\ Silent
Stays(q) == regs' = regs /\ pc' = q /\ ram' = ram /\ Silent

Renewed(a, v, r0, r1, r2, n0, n1, n2) ==
  /\ n0 = IF a = 0 THEN v ELSE r0
  /\ n1 = IF a = 1 THEN v ELSE r1
  /\ n2 = IF a = 2 THEN v ELSE r2

LEMMA TxSets ==
  ASSUME NEW p, NEW r0, NEW r1, NEW r2, NEW depth, NEW out, At(p, r0, r1, r2, depth, out),
         NEW a \in {0, 1, 2, RA, RL}, NEW v, NEW q, Moves(a, v, q),
         NEW n0, NEW n1, NEW n2, Renewed(a, v, r0, r1, r2, n0, n1, n2)
  PROVE  /\ At(q, n0, n1, n2, depth, out)'
         /\ a # RL => regs'[RL] = regs[RL]
         /\ a # RA => regs'[RA] = regs[RA]
         /\ regs'[a] = v
<1>1. /\ DOMAIN regs' = Reg /\ regs'[a] = v
      /\ \A b \in Reg \ {a} : regs'[b] = regs[b]
  BY Placed, TxRegs DEF At, TxFixed, Moves
<1>2. /\ regs'[RS] = regs[RS]
      /\ regs'[0] = IF a = 0 THEN v ELSE regs[0]
      /\ regs'[1] = IF a = 1 THEN v ELSE regs[1]
      /\ regs'[2] = IF a = 2 THEN v ELSE regs[2]
      /\ a # RL => regs'[RL] = regs[RL]
      /\ a # RA => regs'[RA] = regs[RA]
  BY <1>1, TxRegs
<1>3. TxFixed' /\ Saved(depth)'
  BY <1>1 DEF At, TxFixed, Holds, Saved, Stacked, Moves
<1>4. QED BY <1>1, <1>2, <1>3 DEF At, Silent, Moves, Renewed

(* The accumulator's new value need not be known.                          *)
LEMMA TxSetsRA ==
  ASSUME NEW p, NEW r0, NEW r1, NEW r2, NEW depth, NEW out, At(p, r0, r1, r2, depth, out),
         NEW q, NEW STATE v, Moves(RA, v, q)
  PROVE  At(q, r0, r1, r2, depth, out)' /\ regs'[RL] = regs[RL]
<1>1. /\ DOMAIN regs' = Reg
      /\ \A b \in Reg \ {RA} : regs'[b] = regs[b]
  BY Placed, TxRegs DEF At, TxFixed, Moves
<1>2. /\ regs'[RS] = regs[RS] /\ regs'[0] = regs[0] /\ regs'[1] = regs[1] /\ regs'[2] = regs[2]
      /\ regs'[RL] = regs[RL]
  BY <1>1, TxRegs
<1>3. TxFixed' /\ Saved(depth)'
  BY <1>1 DEF At, TxFixed, Holds, Saved, Stacked, Moves
<1>4. QED BY <1>2, <1>3 DEF At, Silent, Moves

LEMMA TxStays ==
  ASSUME NEW p, NEW r0, NEW r1, NEW r2, NEW depth, NEW out, At(p, r0, r1, r2, depth, out),
         NEW q, Stays(q)
  PROVE  At(q, r0, r1, r2, depth, out)'
BY DEF At, TxFixed, Holds, Saved, Stacked, Stays, Silent

(* Computing and jumping sends nothing.                                    *)
LEMMA ComputesSilently ==
  ASSUME NEW op, NEW a, NEW STATE operand, Computes(op, a, operand)
  PROVE  /\ regs' = [regs EXCEPT ![a] = AluResult(op, regs[a], operand, flags).value]
         /\ pc' = Plus(pc, 2) /\ ram' = ram /\ Silent
BY OtherIsSilent DEF Computes, Silent

LEMMA JumpsSilently == Jumps => ram' = ram /\ Silent
BY OtherIsSilent DEF Jumps, Silent

(* A register onto the stack and back.                                     *)
Pushed(depth, v) ==
  (depth = 2 => v = 7) /\ (depth = 4 => v = 8) /\ (depth = 6 => v = 6)

LEMMA TxPush ==
  ASSUME NEW p, NEW r0, NEW r1, NEW r2, NEW depth \in {2, 4, 6}, NEW out,
         At(p, r0, r1, r2, depth - 2, out), NEW a \in {0, 1, 2}, NEW v \in {6, 7, 8},
         regs[a] = v, Pushed(depth, v), Step, Get(pc) = {PUSH(a, RS)}, NEW q, Plus(p, 2) = q
  PROVE  /\ At(q, r0, r1, r2, depth, out)'
         /\ regs'[RL] = regs[RL] /\ regs'[RA] = regs[RA]
<1> DEFINE s == StackTop - depth
<1>1. /\ DOMAIN regs = Reg /\ Holds(TxCode) /\ pc = p /\ ~halted /\ printed = out
      /\ regs[0] = r0 /\ regs[1] = r1 /\ regs[2] = r2 /\ regs[RS] = StackTop - (depth - 2)
      /\ Saved(depth - 2)
  BY DEF At, TxFixed
<1>2. Plus(regs[RS], -2) = s /\ ~OnDevice(s)
  BY <1>1, TxStack
<1>3. a \in Reg \ {RS}
  BY TxRegs
<1>4. /\ Put(s, v) /\ regs' = [regs EXCEPT ![RS] = s] /\ pc' = Plus(pc, 2) /\ Silent
  <2>1. ~OnDevice(Plus(regs[RS], -2))
    BY <1>2
  <2>2. /\ Put(Plus(regs[RS], -2), regs[a])
        /\ regs' = [regs EXCEPT ![RS] = Plus(regs[RS], -2)] /\ pc' = Plus(pc, 2) /\ Silent
    BY <1>1, <1>3, <2>1, StepPush
  <2>3. Plus(regs[RS], -2) = s
    BY <1>2
  <2>4. QED BY <2>2, <2>3
<1>5. /\ ram'[s] = v % 256 /\ ram'[s + 1] = v \div 256
      /\ \A b \in RamBytes \ {s, s + 1} : ram'[b] = ram[b]
  BY <1>4, TxPut
<1>6. Holds(TxCode)'
  BY <1>1, <1>5, CodeKept
<1>7. /\ DOMAIN regs' = Reg /\ regs'[RS] = s
      /\ \A b \in Reg \ {RS} : regs'[b] = regs[b]
  <2> HIDE DEF s
  <2>1. QED BY <1>1, <1>4, TxRegs, Placed
<1>8. Saved(depth)'
  <2>1. Stacked(depth, v)'
    BY <1>5 DEF Stacked
  <2>2. /\ \A d \in {2, 4, 6} : StackTop - d \in RamBytes /\ (StackTop - d) + 1 \in RamBytes
        /\ StackTop \in Nat
    BY TxStack, TxPlaces
  <2>3. CASE depth = 2
    BY <2>1, <2>3 DEF Saved, Pushed
  <2>4. CASE depth = 4
    <3>1. v = 8 /\ StackTop - 2 \in RamBytes \ {s, s + 1} /\ (StackTop - 2) + 1 \in RamBytes \ {s, s + 1}
      BY <2>2, <2>4 DEF Pushed
    <3>2. Stacked(2, 7)
      BY <1>1, <2>4 DEF Saved
    <3>3. Stacked(2, 7)'
      BY <1>5, <3>1, <3>2 DEF Stacked
    <3>4. QED BY <2>1, <2>4, <3>1, <3>3 DEF Saved
  <2>5. CASE depth = 6
    <3>1. /\ v = 6
          /\ StackTop - 2 \in RamBytes \ {s, s + 1} /\ (StackTop - 2) + 1 \in RamBytes \ {s, s + 1}
          /\ StackTop - 4 \in RamBytes \ {s, s + 1} /\ (StackTop - 4) + 1 \in RamBytes \ {s, s + 1}
      BY <2>2, <2>5 DEF Pushed
    <3>2. Stacked(2, 7) /\ Stacked(4, 8)
      BY <1>1, <2>5 DEF Saved
    <3>3. Stacked(2, 7)'
      BY <1>5, <3>1, <3>2 DEF Stacked
    <3>4. Stacked(4, 8)'
      BY <1>5, <3>1, <3>2 DEF Stacked
    <3>5. QED BY <2>1, <2>5, <3>1, <3>3, <3>4 DEF Saved
  <2>6. QED BY <2>3, <2>4, <2>5
<1>9. /\ regs'[RL] = regs[RL] /\ regs'[RA] = regs[RA]
      /\ regs'[0] = regs[0] /\ regs'[1] = regs[1] /\ regs'[2] = regs[2]
  BY <1>7, TxRegs
<1>10. QED BY <1>1, <1>4, <1>6, <1>7, <1>8, <1>9 DEF At, TxFixed, Silent

LEMMA TxPop ==
  ASSUME NEW p, NEW r0, NEW r1, NEW r2, NEW depth \in {2, 4, 6}, NEW out,
         At(p, r0, r1, r2, depth, out), NEW a \in {0, 1, 2}, NEW v \in {6, 7, 8},
         Pushed(depth, v), Step, Get(pc) = {POP(a, RS)}, NEW q, Plus(p, 2) = q
  PROVE  /\ At(q, IF a = 0 THEN v ELSE r0, IF a = 1 THEN v ELSE r1, IF a = 2 THEN v ELSE r2,
               depth - 2, out)'
         /\ regs'[RL] = regs[RL]
<1> DEFINE s == StackTop - (depth - 2)
<1>1. /\ DOMAIN regs = Reg /\ Holds(TxCode) /\ pc = p /\ ~halted /\ printed = out
      /\ regs[0] = r0 /\ regs[1] = r1 /\ regs[2] = r2 /\ regs[RS] = StackTop - depth
      /\ Saved(depth)
  BY DEF At, TxFixed
<1>2. Get(regs[RS]) = {v}
  <2>1. Stacked(depth, v)
    BY <1>1 DEF Saved, Pushed
  <2>2. Get(StackTop - depth) = {v}
    BY <2>1, TxGet
  <2>3. QED BY <1>1, <2>2
<1>3. a \in Reg \ {RS} /\ ~OnDevice(regs[RS]) /\ Plus(regs[RS], 2) = s
  BY <1>1, TxRegs, TxStack
<1>4. /\ regs' = [[regs EXCEPT ![RS] = s] EXCEPT ![a] = v]
      /\ pc' = Plus(pc, 2) /\ ram' = ram /\ Silent
  <2>1. /\ regs' = [[regs EXCEPT ![RS] = Plus(regs[RS], 2)] EXCEPT ![a] = v]
        /\ pc' = Plus(pc, 2) /\ ram' = ram /\ Silent
    BY <1>2, <1>3, StepPop
  <2>2. Plus(regs[RS], 2) = s
    BY <1>3
  <2>3. QED BY <2>1, <2>2
<1>5. /\ DOMAIN regs' = Reg /\ regs'[RS] = s /\ regs'[a] = v
      /\ \A b \in Reg \ {RS, a} : regs'[b] = regs[b]
  <2> HIDE DEF s
  <2>1. QED BY <1>1, <1>3, <1>4, TxRegs
<1>6. /\ regs'[RL] = regs[RL]
      /\ regs'[0] = IF a = 0 THEN v ELSE r0
      /\ regs'[1] = IF a = 1 THEN v ELSE r1
      /\ regs'[2] = IF a = 2 THEN v ELSE r2
  BY <1>1, <1>5, TxRegs
<1>7. Saved(depth - 2)' /\ Holds(TxCode)'
  BY <1>1, <1>4 DEF Saved, Stacked, Holds
<1>8. QED BY <1>1, <1>4, <1>5, <1>6, <1>7 DEF At, TxFixed, Silent

(* The distance of the jump back to the wait, from its operand on.         *)
LEMMA TxBack == Plus(52, By(-4) - 2) = 46
<1>1. Base \in Nat \ {0} /\ 4 < Base /\ 46 < Base
  <2>1. Base = 256 * 256
    BY Powers, WordFacts
  <2>2. QED BY <2>1
<1>2. /\ -4 = Base * (-1) + (Base - 4) /\ Base - 4 \in 0..(Base - 1)
      /\ 52 + ((Base - 4) - 2) = Base * 1 + 46 /\ 46 \in 0..(Base - 1)
  BY <1>1
<1>3. (Base * (-1) + (Base - 4)) % Base = Base - 4 /\ (Base * 1 + 46) % Base = 46
  BY <1>1, <1>2, DivisionUnique
<1>4. By(-4) = Base - 4
  BY <1>2, <1>3 DEF By
<1>5. QED BY <1>2, <1>3, <1>4 DEF Plus

LEMMA TxPlus ==
  /\ Plus(0, 2) = 2 /\ Plus(0, 4) = 4 /\ Plus(4, 2) = 6 /\ Plus(6, 2) = 8 /\ Plus(8, 2) = 10
  /\ Plus(8, 4) = 12 /\ Plus(12, 2) = 14 /\ Plus(14, 2) = 16 /\ Plus(14, 4) = 18
  /\ Plus(18, 2) = 20 /\ Plus(20, 2) = 22 /\ Plus(20, 4) = 24 /\ Plus(24, 2) = 26
  /\ Plus(26, 2) = 28 /\ Plus(28, 2) = 30 /\ Plus(30, 2) = 32 /\ Plus(32, 2) = 34
  /\ Plus(34, 2) = 36 /\ Plus(36, 2) = 38 /\ Plus(38, 2) = 40 /\ Plus(38, 4) = 42
  /\ Plus(42, 2) = 44 /\ Plus(42, 4) = 46 /\ Plus(46, 2) = 48 /\ Plus(48, 2) = 50
  /\ Plus(50, 2) = 52 /\ Plus(50, 4) = 54 /\ Plus(54, 2) = 56 /\ Plus(56, 2) = 58
  /\ Plus(58, 2) = 60 /\ Plus(60, 2) = 62
<1>1. \A n \in 0..60 : Plus(n, 2) = n + 2 /\ Plus(n, 4) = n + 4
  BY PlusSmall
<1>2. QED BY <1>1

LEMMA TxPushes ==
  ASSUME NEW back, NEW byte, NEW before, TxRoutine(back, byte, before), pc \in {30, 32, 34}, Step
  PROVE  TxRoutine(back, byte, before)'
<1>1. CASE pc = 30
  <2>1. regs[RL] = back /\ regs[RA] = byte /\ At(30, 6, 7, 8, 0, before)
    BY <1>1 DEF TxRoutine, At
  <2>2. regs[1] = 7 /\ Get(pc) = {PUSH(1, RS)}
    BY <1>1, <2>1, TxFetched, TxRegs DEF At, TxFixed
  <2>3. At(30, 6, 7, 8, 2 - 2, before) /\ Pushed(2, 7)
    BY <2>1 DEF Pushed
  <2>4. At(32, 6, 7, 8, 2, before)' /\ regs'[RL] = regs[RL] /\ regs'[RA] = regs[RA]
    BY <2>2, <2>3, TxPush, TxPlus
  <2>5. QED BY <2>1, <2>4 DEF TxRoutine
<1>2. CASE pc = 32
  <2>1. regs[RL] = back /\ regs[RA] = byte /\ At(32, 6, 7, 8, 2, before)
    BY <1>2 DEF TxRoutine, At
  <2>2. regs[2] = 8 /\ Get(pc) = {PUSH(2, RS)}
    BY <1>2, <2>1, TxFetched, TxRegs DEF At, TxFixed
  <2>3. At(32, 6, 7, 8, 4 - 2, before) /\ Pushed(4, 8)
    BY <2>1 DEF Pushed
  <2>4. At(34, 6, 7, 8, 4, before)' /\ regs'[RL] = regs[RL] /\ regs'[RA] = regs[RA]
    BY <2>2, <2>3, TxPush, TxPlus
  <2>5. QED BY <2>1, <2>4 DEF TxRoutine
<1>3. CASE pc = 34
  <2>1. regs[RL] = back /\ regs[RA] = byte /\ At(34, 6, 7, 8, 4, before)
    BY <1>3 DEF TxRoutine, At
  <2>2. regs[0] = 6 /\ Get(pc) = {PUSH(0, RS)}
    BY <1>3, <2>1, TxFetched, TxRegs DEF At, TxFixed
  <2>3. At(34, 6, 7, 8, 6 - 2, before) /\ Pushed(6, 6)
    BY <2>1 DEF Pushed
  <2>4. At(36, 6, 7, 8, 6, before)' /\ regs'[RL] = regs[RL] /\ regs'[RA] = regs[RA]
    BY <2>2, <2>3, TxPush, TxPlus
  <2>5. QED BY <2>1, <2>4 DEF TxRoutine
<1>4. QED BY <1>1, <1>2, <1>3

(* The byte and the addresses of the UART's registers into R0, R1 and R2.  *)
LEMMA TxSetsUp ==
  ASSUME NEW back, NEW byte \in {65, 66}, NEW before, TxRoutine(back, byte, before),
         pc \in {36, 38, 42}, Step
  PROVE  TxRoutine(back, byte, before)'
<1>1. CASE pc = 36
  <2>1. regs[RL] = back /\ regs[RA] = byte /\ At(36, 6, 7, 8, 6, before)
    BY <1>1 DEF TxRoutine, At
  <2>2. Get(pc) = {Alu2(MOV, 0, RA)} /\ MOV \in 0..15
    BY <1>1, <2>1, TxFetched, TxRegs DEF At, TxFixed, MOV
  <2>3. Computes(MOV, 0, regs[RA])
    BY <2>2, StepAlu2, TxRegs
  <2>4. AluResult(MOV, regs[0], regs[RA], flags).value = byte
    <3>1. byte \in Word
      BY SmallIsWord
    <3>2. QED BY <2>1, <3>1, MovResult
  <2>5. regs' = [regs EXCEPT ![0] = byte] /\ pc' = Plus(pc, 2) /\ ram' = ram /\ Silent
    BY <2>3, <2>4, ComputesSilently
  <2>6. Moves(0, byte, 38) /\ Renewed(0, byte, 6, 7, 8, byte, 7, 8)
    BY <1>1, <2>5, TxPlus DEF Moves, Renewed
  <2>7. At(38, byte, 7, 8, 6, before)' /\ regs'[RL] = regs[RL]
    BY <2>1, <2>6, TxSets, TxRegs
  <2>8. QED BY <2>1, <2>7 DEF TxRoutine
<1>2. CASE pc = 38
  <2>1. regs[RL] = back /\ At(38, byte, 7, 8, 6, before)
    BY <1>2 DEF TxRoutine, At
  <2>2. Get(pc) = {LDI(1)} /\ Get(Plus(pc, 2)) = {UartStart} /\ ~OnDevice(Plus(pc, 2))
    BY <1>2, <2>1, TxFetched, TxRegs, TxPlus, CodeNear DEF At, TxFixed
  <2>3. regs' = [regs EXCEPT ![1] = UartStart] /\ pc' = Plus(pc, 4) /\ ram' = ram /\ Silent
    BY <2>2, StepLoadNext, TxRegs
  <2>4. Moves(1, UartStart, 42) /\ Renewed(1, UartStart, byte, 7, 8, byte, UartStart, 8)
    BY <1>2, <2>3, TxPlus DEF Moves, Renewed
  <2>5. At(42, byte, UartStart, 8, 6, before)' /\ regs'[RL] = regs[RL]
    BY <2>1, <2>4, TxSets, TxRegs
  <2>6. QED BY <2>1, <2>5 DEF TxRoutine
<1>3. CASE pc = 42
  <2>1. regs[RL] = back /\ At(42, byte, UartStart, 8, 6, before)
    BY <1>3 DEF TxRoutine, At
  <2>2. Get(pc) = {LDI(2)} /\ Get(Plus(pc, 2)) = {UartStart + 2} /\ ~OnDevice(Plus(pc, 2))
    BY <1>3, <2>1, TxFetched, TxRegs, TxPlus, CodeNear DEF At, TxFixed
  <2>3. regs' = [regs EXCEPT ![2] = UartStart + 2] /\ pc' = Plus(pc, 4) /\ ram' = ram /\ Silent
    BY <2>2, StepLoadNext, TxRegs
  <2> DEFINE data == UartStart + 2
  <2>4. Moves(2, data, 46) /\ Renewed(2, data, byte, UartStart, 8, byte, UartStart, data)
    BY <1>3, <2>3, TxPlus DEF Moves, Renewed
  <2>5. At(46, byte, UartStart, data, 6, before)' /\ regs'[RL] = regs[RL]
    BY <2>1, <2>4, TxSets, TxRegs
  <2>6. QED BY <2>1, <2>5 DEF TxRoutine
<1>4. QED BY <1>1, <1>2, <1>3

(* The wait goes round or ends, whatever the status is.                    *)
LEMMA TxWaits ==
  ASSUME NEW back, NEW byte, NEW before, TxRoutine(back, byte, before), pc \in {46, 48, 50}, Step
  PROVE  TxRoutine(back, byte, before)'
<1> DEFINE Waits(p) == At(p, byte, UartStart, UartStart + 2, 6, before)
<1>0. ASSUME NEW q \in {46, 48, 50, 54}, Waits(q)', regs'[RL] = back
      PROVE  TxRoutine(back, byte, before)'
  BY <1>0 DEF TxRoutine
<1>1. CASE pc = 46
  <2>1. regs[RL] = back /\ Waits(46)
    BY <1>1 DEF TxRoutine, At
  <2>2. Get(pc) = {LD(RA, 1)} /\ regs[1] = UartStart
    BY <1>1, <2>1, TxFetched, TxRegs DEF At, TxFixed
  <2>3. regs' = [regs EXCEPT ![RA] = Status] /\ pc' = Plus(pc, 2) /\ ram' = ram /\ Silent
    BY <2>2, StepLoadStatus, TxPlaces, TxRegs
  <2>4. Moves(RA, Status, 48)
    BY <1>1, <2>3, TxPlus DEF Moves
  <2>5. Waits(48)' /\ regs'[RL] = regs[RL]
    BY <2>1, <2>4, TxSetsRA
  <2>6. QED BY <1>0, <2>1, <2>5
<1>2. CASE pc = 48
  <2>1. regs[RL] = back /\ Waits(48)
    BY <1>2 DEF TxRoutine, At
  <2>2. Get(pc) = {AluAI(AND, 4)} /\ AND \in 0..15
    BY <1>2, <2>1, TxFetched DEF At, TxFixed, AND
  <2>3. Computes(AND, RA, 4)
    BY <2>2, StepAluAI
  <2>4. /\ regs' = [regs EXCEPT ![RA] = AluResult(AND, regs[RA], 4, flags).value]
        /\ pc' = Plus(pc, 2) /\ ram' = ram /\ Silent
    BY <2>3, ComputesSilently
  <2>5. Moves(RA, AluResult(AND, regs[RA], 4, flags).value, 50)
    BY <1>2, <2>4, TxPlus DEF Moves
  <2>6. Waits(50)' /\ regs'[RL] = regs[RL]
    BY <2>1, <2>5, TxSetsRA
  <2>7. QED BY <1>0, <2>1, <2>6
<1>3. CASE pc = 50
  <2>1. regs[RL] = back /\ Waits(50)
    BY <1>3 DEF TxRoutine, At
  <2>2. Get(pc) = {JRIif(Z, FALSE)} /\ Z \in Conditions
    <3>1. Get(pc) = {JRIif(Z, FALSE)}
      BY <1>3, <2>1, TxFetched DEF At, TxFixed
    <3>2. Z \in Conditions
      BY DEF Z, Conditions
    <3>3. QED BY <3>1, <3>2
  <2>3. /\ Jumps /\ regs' = regs
        /\ IF Condition(Z) # FALSE
             THEN \E v \in Get(Plus(pc, 2)) : pc' = Plus(Plus(pc, 2), v - 2)
             ELSE pc' = Plus(pc, 4)
    <3>1. ~OnDevice(Plus(pc, 2))
      BY <1>3, OperandNear
    <3>2. QED BY <2>2, <3>1, StepBranch
  <2>4. pc' = 46 \/ pc' = 54
    <3>1. Get(Plus(pc, 2)) = {By(-4)} /\ Plus(pc, 2) = 52
      BY <1>3, <2>1, TxFetched, TxPlus DEF At, TxFixed
    <3>2. Plus(52, By(-4) - 2) = 46
      BY TxBack
    <3>3. Plus(pc, 4) = 54
      BY <1>3, TxPlus
    <3> DEFINE there == \E v \in Get(Plus(pc, 2)) : pc' = Plus(Plus(pc, 2), v - 2)
    <3>4. there => pc' = 46
      BY <3>1, <3>2
    <3>5. there \/ pc' = Plus(pc, 4)
      BY <2>3
    <3> HIDE DEF there
    <3>6. QED BY <3>3, <3>4, <3>5
  <2>5. ram' = ram /\ Silent
    BY <2>3, JumpsSilently
  <2>6. Stays(46) \/ Stays(54)
    BY <2>3, <2>4, <2>5 DEF Stays
  <2>7. Waits(46)' \/ Waits(54)'
    BY <2>1, <2>6, TxStays
  <2>8. QED BY <1>0, <2>1, <2>3, <2>7
<1>4. QED BY <1>1, <1>2, <1>3

(* The byte is sent, then the registers are restored.                      *)
LEMMA TxSends ==
  ASSUME NEW back, NEW byte \in {65, 66}, NEW before, TxRoutine(back, byte, before),
         pc = 54, Step
  PROVE  TxRoutine(back, byte, before)'
<1> DEFINE data == UartStart + 2
           after == Append(before, byte)
<1>1. regs[RL] = back /\ At(54, byte, UartStart, data, 6, before)
  BY DEF TxRoutine, At
<1>2. Get(pc) = {ST(0, 2)} /\ regs[2] = data /\ regs[0] = byte /\ printed = before
  BY <1>1, TxFetched, TxRegs DEF At, TxFixed
<1>3. WriteAccess(2, byte) /\ pc' = 56 /\ UNCHANGED <<regs, ram, halted>>
  <2>1. OnDevice(regs[2])
    BY <1>2, TxPlaces
  <2>2. /\ WriteAccess(regs[2] - UartStart, regs[0])
        /\ pc' = Plus(pc, 2) /\ UNCHANGED <<regs, ram, halted>>
    BY <1>2, <2>1, StepStoreDevice, TxRegs
  <2>3. regs[2] - UartStart = 2
    BY <1>2, TxPlaces
  <2>4. QED BY <1>2, <2>2, <2>3, TxPlus
<1>4. printed' = after
  <2>1. printed' = Append(printed, byte % 256)
    BY <1>3 DEF WriteAccess, Write, WriteTxData, Putc
  <2>2. byte % 256 = byte
    OBVIOUS
  <2>3. QED BY <1>2, <2>1, <2>2
<1> HIDE DEF data, after
<1>5. At(56, byte, UartStart, data, 6, after)'
  BY <1>1, <1>3, <1>4 DEF At, TxFixed, Holds, Saved, Stacked
<1>6. QED BY <1>1, <1>3, <1>5 DEF TxRoutine, data, after

LEMMA TxRestores ==
  ASSUME NEW back, NEW byte, NEW before, TxRoutine(back, byte, before), pc \in {56, 58, 60}, Step
  PROVE  TxRoutine(back, byte, before)'
<1> DEFINE data == UartStart + 2
           after == Append(before, byte)
<1>1. CASE pc = 56
  <2>1. regs[RL] = back /\ At(56, byte, UartStart, data, 6, after)
    BY <1>1 DEF TxRoutine, At
  <2>2. Get(pc) = {POP(0, RS)} /\ Pushed(6, 6)
    BY <1>1, <2>1, TxFetched, TxRegs DEF At, TxFixed, Pushed
  <2> HIDE DEF data, after
  <2>3. /\ At(58, IF 0 = 0 THEN 6 ELSE byte, IF 0 = 1 THEN 6 ELSE UartStart,
              IF 0 = 2 THEN 6 ELSE data, 6 - 2, after)'
        /\ regs'[RL] = regs[RL]
    BY <2>1, <2>2, TxPop, TxPlus
  <2>4. At(58, 6, UartStart, data, 4, after)'
    BY <2>3
  <2>5. QED BY <2>1, <2>3, <2>4 DEF TxRoutine, data, after
<1>2. CASE pc = 58
  <2>1. regs[RL] = back /\ At(58, 6, UartStart, data, 4, after)
    BY <1>2 DEF TxRoutine, At
  <2>2. Get(pc) = {POP(2, RS)} /\ Pushed(4, 8)
    BY <1>2, <2>1, TxFetched, TxRegs DEF At, TxFixed, Pushed
  <2> HIDE DEF data, after
  <2>3. /\ At(60, IF 2 = 0 THEN 8 ELSE 6, IF 2 = 1 THEN 8 ELSE UartStart,
              IF 2 = 2 THEN 8 ELSE data, 4 - 2, after)'
        /\ regs'[RL] = regs[RL]
    BY <2>1, <2>2, TxPop, TxPlus
  <2>4. At(60, 6, UartStart, 8, 2, after)'
    BY <2>3
  <2>5. QED BY <2>1, <2>3, <2>4 DEF TxRoutine, data, after
<1>3. CASE pc = 60
  <2>1. regs[RL] = back /\ At(60, 6, UartStart, 8, 2, after)
    BY <1>3 DEF TxRoutine, At
  <2>2. Get(pc) = {POP(1, RS)} /\ Pushed(2, 7)
    BY <1>3, <2>1, TxFetched, TxRegs DEF At, TxFixed, Pushed
  <2> HIDE DEF data, after
  <2>3. /\ At(62, IF 1 = 0 THEN 7 ELSE 6, IF 1 = 1 THEN 7 ELSE UartStart,
              IF 1 = 2 THEN 7 ELSE 8, 2 - 2, after)'
        /\ regs'[RL] = regs[RL]
    BY <2>1, <2>2, TxPop, TxPlus
  <2>4. At(62, 6, 7, 8, 0, after)'
    BY <2>3
  <2>5. QED BY <2>1, <2>3, <2>4 DEF TxRoutine, data, after
<1>4. QED BY <1>1, <1>2, <1>3

(* 62: back to the instruction after the call.                             *)
LEMMA TxComesBack ==
  ASSUME NEW back, NEW byte, NEW before, TxRoutine(back, byte, before), pc = 62, Step
  PROVE  At(back, 6, 7, 8, 0, Append(before, byte))'
<1>1. regs[RL] = back /\ At(62, 6, 7, 8, 0, Append(before, byte))
  BY DEF TxRoutine, At
<1>2. Get(pc) = {JP(RL)}
  BY <1>1, TxFetched DEF At, TxFixed
<1>3. Jumps /\ regs' = regs /\ pc' = regs[RL]
  BY <1>2, StepReturn, TxRegs
<1>4. Stays(back)
  BY <1>1, <1>3, JumpsSilently DEF Stays
<1>5. QED BY <1>1, <1>4, TxStays

LEMMA TxRoutineStep ==
  ASSUME NEW back, NEW byte \in {65, 66}, NEW before, TxRoutine(back, byte, before), Step
  PROVE  TxRoutine(back, byte, before)' \/ At(back, 6, 7, 8, 0, Append(before, byte))'
<1>1. pc \in {30, 32, 34, 36, 38, 42, 46, 48, 50, 54, 56, 58, 60, 62}
  BY DEF TxRoutine, At
<1>2. CASE pc \in {30, 32, 34}
  BY <1>2, TxPushes
<1>3. CASE pc \in {36, 38, 42}
  BY <1>3, TxSetsUp
<1>4. CASE pc \in {46, 48, 50}
  BY <1>4, TxWaits
<1>5. CASE pc = 54
  BY <1>5, TxSends
<1>6. CASE pc \in {56, 58, 60}
  BY <1>6, TxRestores
<1>7. CASE pc = 62
  BY <1>7, TxComesBack
<1>8. QED BY <1>1, <1>2, <1>3, <1>4, <1>5, <1>6, <1>7

(* The program that calls the routine twice.                               *)
LEMMA TxPrepares ==
  ASSUME NEW p \in {0, 4, 6, 8}, TxBegins(p), Step
  PROVE  TxCaller'
<1>0. /\ DOMAIN regs = Reg /\ Holds(TxCode) /\ pc = p /\ ~halted /\ printed = <<>>
      /\ regs[0] = 6 /\ regs[1] = 7 /\ regs[2] = 8
  BY DEF TxBegins, TxFixed
<1>1. CASE p = 0
  <2>1. Get(pc) = {LDI(3)} /\ Get(Plus(pc, 2)) = {UartStart + 4} /\ ~OnDevice(Plus(pc, 2))
    <3>1. pc = 0 /\ Plus(0, 2) = 2 /\ ~OnDevice(2)
      BY <1>0, <1>1, TxPlus, CodeNear
    <3>2. Get(0) = {LDI(3)} /\ Get(2) = {UartStart + 4}
      BY <1>0, TxFetched, TxRegs
    <3>3. QED BY <3>1, <3>2
  <2>2. regs' = [regs EXCEPT ![3] = UartStart + 4] /\ pc' = Plus(pc, 4) /\ ram' = ram /\ Silent
    BY <2>1, StepLoadNext, TxRegs
  <2>3. pc' = 4
    BY <1>0, <1>1, <2>2, TxPlus
  <2>4. /\ DOMAIN regs' = Reg /\ regs'[3] = UartStart + 4 /\ regs'[0] = regs[0]
        /\ regs'[1] = regs[1] /\ regs'[2] = regs[2]
    BY <1>0, <2>2, TxRegs
  <2>5. TxBegins(4)'
    BY <1>0, <2>2, <2>3, <2>4 DEF TxBegins, TxFixed, Holds, Silent
  <2>6. QED BY <2>5 DEF TxCaller
<1>2. CASE p = 4
  <2>1. Get(pc) = {AluAI(MOV, 5)} /\ MOV \in 0..15
    BY <1>0, <1>2, TxFetched DEF MOV
  <2>2. Computes(MOV, RA, 5)
    BY <2>1, StepAluAI
  <2>3. AluResult(MOV, regs[RA], 5, flags).value = 5
    BY MovResult, SmallIsWord
  <2>4. regs' = [regs EXCEPT ![RA] = 5] /\ pc' = Plus(pc, 2) /\ ram' = ram /\ Silent
    BY <2>2, <2>3, ComputesSilently
  <2>5. pc' = 6
    BY <1>0, <1>2, <2>4, TxPlus
  <2>6. /\ DOMAIN regs' = Reg /\ regs'[RA] = 5 /\ regs'[3] = regs[3] /\ regs'[0] = regs[0]
        /\ regs'[1] = regs[1] /\ regs'[2] = regs[2]
    BY <1>0, <2>4, TxRegs
  <2>7. regs[3] = UartStart + 4
    BY <1>2 DEF TxBegins
  <2>8. TxBegins(6)'
    BY <1>0, <2>4, <2>5, <2>6, <2>7 DEF TxBegins, TxFixed, Holds, Silent
  <2>9. QED BY <2>8 DEF TxCaller
<1>3. CASE p = 6
  <2>1. Get(pc) = {ST(RA, 3)} /\ regs[3] = UartStart + 4 /\ regs[RA] = 5
    BY <1>0, <1>3, TxFetched, TxRegs DEF TxBegins
  <2>2. OnDevice(regs[3])
    BY <2>1, TxPlaces
  <2>3. /\ WriteAccess(regs[3] - UartStart, regs[RA])
        /\ pc' = Plus(pc, 2) /\ UNCHANGED <<regs, ram, halted>>
    BY <2>1, <2>2, StepStoreDevice, TxRegs
  <2>4. regs[3] - UartStart = 4
    BY <2>1, TxPlaces
  <2>5. printed' = printed
    BY <2>3, <2>4 DEF WriteAccess, Write, WriteTxClkDiv, WriteStatus, WriteRxClkDiv
  <2>6. pc' = 8
    BY <1>0, <1>3, <2>3, TxPlus
  <2>7. TxBegins(8)'
    BY <1>0, <2>3, <2>5, <2>6 DEF TxBegins, TxFixed, Holds
  <2>8. QED BY <2>7 DEF TxCaller
<1>4. CASE p = 8
  <2>1. Get(pc) = {LDI(RS)} /\ Get(Plus(pc, 2)) = {StackTop} /\ ~OnDevice(Plus(pc, 2))
    <3>1. pc = 8 /\ Plus(8, 2) = 10 /\ ~OnDevice(10)
      BY <1>0, <1>4, TxPlus, CodeNear
    <3>2. Get(8) = {LDI(RS)} /\ Get(10) = {StackTop}
      BY <1>0, TxFetched, TxRegs
    <3>3. QED BY <3>1, <3>2
  <2>2. regs' = [regs EXCEPT ![RS] = StackTop] /\ pc' = Plus(pc, 4) /\ ram' = ram /\ Silent
    BY <2>1, StepLoadNext, TxRegs
  <2>3. pc' = 12
    BY <1>0, <1>4, <2>2, TxPlus
  <2>4. /\ DOMAIN regs' = Reg /\ regs'[RS] = StackTop /\ regs'[0] = regs[0]
        /\ regs'[1] = regs[1] /\ regs'[2] = regs[2]
    BY <1>0, <2>2, TxRegs
  <2>5. StackTop - 0 = StackTop
    BY TxPlaces
  <2>6. At(12, 6, 7, 8, 0, <<>>)'
    BY <1>0, <2>2, <2>3, <2>4, <2>5 DEF At, Saved, TxFixed, Holds, Silent
  <2>7. QED BY <2>6 DEF TxCaller
<1>5. QED BY <1>1, <1>2, <1>3, <1>4

(* A byte into RA, and the call.                                           *)
LEMMA TxLoads ==
  ASSUME NEW p, NEW q, NEW out, NEW byte \in {65, 66}, At(p, 6, 7, 8, 0, out),
         Get(p) = {AluAI(MOV, byte)}, Plus(p, 2) = q, Step
  PROVE  At(q, 6, 7, 8, 0, out)' /\ regs'[RA] = byte
<1>1. pc = p /\ MOV \in 0..15 /\ byte \in 0..255
  BY DEF At, MOV
<1>2. Computes(MOV, RA, byte)
  BY <1>1, StepAluAI
<1>3. AluResult(MOV, regs[RA], byte, flags).value = byte
  BY MovResult, SmallIsWord
<1>4. regs' = [regs EXCEPT ![RA] = byte] /\ pc' = Plus(pc, 2) /\ ram' = ram /\ Silent
  BY <1>2, <1>3, ComputesSilently
<1>5. Moves(RA, byte, q) /\ Renewed(RA, byte, 6, 7, 8, 6, 7, 8)
  BY <1>1, <1>4, TxRegs DEF Moves, Renewed
<1>6. QED BY <1>5, TxSets

LEMMA TxCalls ==
  ASSUME NEW p, NEW back, NEW out, NEW byte, At(p, 6, 7, 8, 0, out), regs[RA] = byte,
         Get(p) = {JPIL}, Get(Plus(p, 2)) = {30}, Plus(p, 4) = back, ~OnDevice(Plus(p, 2)), Step
  PROVE  TxRoutine(back, byte, out)'
<1>1. pc = p
  BY DEF At
<1>2. Jumps /\ regs' = [regs EXCEPT ![RL] = LinkAddress] /\ pc' \in Get(Plus(pc, 2))
  BY <1>1, StepCall
<1>3. LinkAddress = back /\ pc' = 30 /\ ram' = ram /\ Silent
  BY <1>1, <1>2, JumpsSilently DEF LinkAddress
<1>4. Moves(RL, back, 30) /\ Renewed(RL, back, 6, 7, 8, 6, 7, 8)
  BY <1>2, <1>3, TxRegs DEF Moves, Renewed
<1>5. At(30, 6, 7, 8, 0, out)' /\ regs'[RL] = back /\ regs'[RA] = regs[RA]
  BY <1>4, TxSets, TxRegs
<1>6. QED BY <1>5 DEF TxRoutine

(* EI and DI do nothing but switch the interrupts.                         *)
LEMMA TxSwitches ==
  ASSUME NEW p, NEW out, At(p, 6, 7, 8, 0, out), Get(p) = {EI} \/ Get(p) = {DI},
         NEW q, Plus(p, 2) = q, Step
  PROVE  At(q, 6, 7, 8, 0, out)'
<1>1. pc = p
  BY DEF At
<1>2. PICK op \in {2, 3} : Get(pc) = {Assemble([group |-> GEN, op |-> op])}
  BY <1>1 DEF EI, DI
<1>3. /\ halted' = (op = 1) /\ pc' = Plus(pc, 2)
      /\ UNCHANGED <<regs, flags, ram>> /\ OtherInstruction
  BY <1>2, StepGen
<1>4. ~halted'
  <2>1. op # 1
    OBVIOUS
  <2>2. QED BY <1>3, <2>1
<1>5. pc' = q /\ regs' = regs /\ ram' = ram /\ printed' = printed
  BY <1>1, <1>3, OtherIsSilent
<1>6. QED BY <1>4, <1>5 DEF At, TxFixed, Holds, Saved, Stacked

(* What is sent, one byte after another.                                   *)
Pairs(s, t) ==
  /\ s \in Seq(Int) /\ t \in Seq(Int) /\ Len(s) = 2 /\ Len(t) = 2
  /\ s[1] = t[1] /\ s[2] = t[2]

LEMMA PairsEqual ==
  ASSUME NEW s, NEW t, Pairs(s, t)
  PROVE  s = t
<1>1. \A i \in 1..Len(s) : s[i] = t[i]
  BY DEF Pairs
<1>2. QED BY <1>1, SeqEqual DEF Pairs

LEMMA TxSent == Append(<<>>, 65) = <<65>> /\ Append(<<65>>, 66) = <<65, 66>>
<1>1. Append(<<>>, 65) = <<65>>
  OBVIOUS
<1>2. <<65>> \in Seq(Int) /\ Len(<<65>>) = 1 /\ <<65>>[1] = 65
  OBVIOUS
<1>3. /\ <<65, 66>> \in Seq(Int) /\ Len(<<65, 66>>) = 2
      /\ <<65, 66>>[1] = 65 /\ <<65, 66>>[2] = 66
  OBVIOUS
<1>4. /\ Append(<<65>>, 66) \in Seq(Int) /\ Len(Append(<<65>>, 66)) = 2
      /\ Append(<<65>>, 66)[1] = 65 /\ Append(<<65>>, 66)[2] = 66
  BY <1>2
<1>5. Pairs(Append(<<65>>, 66), <<65, 66>>)
  BY <1>3, <1>4 DEF Pairs
<1>6. QED BY <1>1, <1>5, PairsEqual

LEMMA TxCallerStep ==
  ASSUME TxCaller, Step
  PROVE  TxInv'
<1>1. CASE \E p \in {0, 4, 6, 8} : TxBegins(p)
  BY <1>1, TxPrepares DEF TxInv
<1>2. CASE At(12, 6, 7, 8, 0, <<>>)
  <2>1. Get(12) = {AluAI(MOV, 65)}
    BY <1>2, TxFetched DEF At, TxFixed
  <2> DEFINE nothing == <<>>
  <2>2. At(12, 6, 7, 8, 0, nothing)
    BY <1>2
  <2> HIDE DEF nothing
  <2>3. At(14, 6, 7, 8, 0, nothing)' /\ regs'[RA] = 65
    BY <2>1, <2>2, TxLoads, TxPlus
  <2>4. QED BY <2>3 DEF TxInv, TxCaller, nothing
<1>3. CASE At(14, 6, 7, 8, 0, <<>>) /\ regs[RA] = 65
  <2>1. Get(14) = {JPIL} /\ Get(16) = {30} /\ Plus(14, 2) = 16 /\ Plus(14, 4) = 18 /\ ~OnDevice(16)
    <3>1. Get(14) = {JPIL} /\ Get(16) = {30}
      BY <1>3, TxFetched DEF At, TxFixed
    <3>2. ~OnDevice(16)
      BY CodeNear
    <3>3. QED BY <3>1, <3>2, TxPlus
  <2> DEFINE nothing == <<>>
  <2>2. At(14, 6, 7, 8, 0, nothing) /\ regs[RA] = 65
    BY <1>3
  <2> HIDE DEF nothing
  <2>3. TxRoutine(18, 65, nothing)'
    BY <2>1, <2>2, TxCalls
  <2>4. QED BY <2>3 DEF TxInv, nothing
<1>4. CASE At(18, 6, 7, 8, 0, <<65>>)
  <2>1. Get(18) = {AluAI(MOV, 66)}
    BY <1>4, TxFetched DEF At, TxFixed
  <2>2. At(20, 6, 7, 8, 0, <<65>>)' /\ regs'[RA] = 66
    BY <1>4, <2>1, TxLoads, TxPlus
  <2>3. QED BY <2>2 DEF TxInv, TxCaller
<1>5. CASE At(20, 6, 7, 8, 0, <<65>>) /\ regs[RA] = 66
  <2>1. Get(20) = {JPIL} /\ Get(22) = {30} /\ Plus(20, 2) = 22 /\ Plus(20, 4) = 24 /\ ~OnDevice(22)
    BY <1>5, TxFetched, TxPlus, CodeNear DEF At, TxFixed
  <2>2. TxRoutine(24, 66, <<65>>)'
    BY <1>5, <2>1, TxCalls
  <2>3. QED BY <2>2 DEF TxInv
<1> DEFINE sent == <<65, 66>>
<1> HIDE DEF sent
<1>6. CASE At(24, 6, 7, 8, 0, sent)
  <2>1. Get(24) = {EI}
    BY <1>6, TxFetched DEF At, TxFixed
  <2>2. At(26, 6, 7, 8, 0, sent)'
    BY <1>6, <2>1, TxSwitches, TxPlus
  <2>3. QED BY <2>2 DEF TxInv, TxCaller, sent
<1>7. CASE At(26, 6, 7, 8, 0, sent)
  <2>1. Get(26) = {DI}
    BY <1>7, TxFetched DEF At, TxFixed
  <2>2. At(28, 6, 7, 8, 0, sent)'
    BY <1>7, <2>1, TxSwitches, TxPlus
  <2>3. QED BY <2>2 DEF TxInv, TxCaller, sent
<1>8. CASE At(28, 6, 7, 8, 0, sent)
  <2>1. /\ pc = 28 /\ Get(28) = {HALT} /\ printed = sent
        /\ regs[0] = 6 /\ regs[1] = 7 /\ regs[2] = 8 /\ regs[RS] = StackTop
    <3>1. pc = 28 /\ Holds(TxCode) /\ regs[RS] = StackTop - 0 /\ StackTop \in Nat
      BY <1>8, TxPlaces DEF At, TxFixed
    <3>2. QED BY <1>8, <3>1, TxFetched DEF At
  <2>2. halted' = TRUE /\ pc' = Plus(pc, 2) /\ regs' = regs /\ printed' = printed
    BY <2>1, StepHalt, OtherIsSilent
  <2>3. pc' = 30
    BY <2>1, <2>2, TxPlus
  <2>4. TxDone'
    BY <2>1, <2>2, <2>3 DEF TxDone, sent
  <2>5. QED BY <2>4 DEF TxInv
<1>9. QED
  BY <1>1, <1>2, <1>3, <1>4, <1>5, <1>6, <1>7, <1>8 DEF TxCaller, sent

LEMMA TxStep ==
  ASSUME TxInv, Step
  PROVE  TxInv'
<1>1. CASE TxCaller
  BY <1>1, TxCallerStep
<1>2. CASE TxRoutine(18, 65, <<>>)
  <2>1. TxRoutine(18, 65, <<>>)' \/ At(18, 6, 7, 8, 0, Append(<<>>, 65))'
    BY <1>2, TxRoutineStep
  <2>2. TxRoutine(18, 65, <<>>)' \/ At(18, 6, 7, 8, 0, <<65>>)'
    BY <2>1, TxSent
  <2>3. QED BY <2>2 DEF TxInv, TxCaller
<1>3. CASE TxRoutine(24, 66, <<65>>)
  <2>1. TxRoutine(24, 66, <<65>>)' \/ At(24, 6, 7, 8, 0, Append(<<65>>, 66))'
    BY <1>3, TxRoutineStep
  <2>2. TxRoutine(24, 66, <<65>>)' \/ At(24, 6, 7, 8, 0, <<65, 66>>)'
    BY <2>1, TxSent
  <2>3. QED BY <2>2 DEF TxInv, TxCaller
<1>4. CASE TxDone
  BY <1>4 DEF TxDone, Step
<1>5. QED BY <1>1, <1>2, <1>3, <1>4 DEF TxInv

(* The UART and the host leave the processor and what was sent alone.      *)
LEMMA TxOutside ==
  ASSUME TxInv, UNCHANGED <<cpuVars, ram, printed>>
  PROVE  TxInv'
<1>1. UNCHANGED <<regs, pc, halted, ram, printed>>
  BY DEF cpuVars
<1>2. CASE TxCaller
  BY <1>1, <1>2 DEF TxCaller, TxBegins, At, TxFixed, Holds, Saved, Stacked, TxInv
<1>3. CASE TxDone
  BY <1>1, <1>3 DEF TxDone, TxInv
<1>4. ASSUME NEW back, NEW byte, NEW before, TxRoutine(back, byte, before)
      PROVE  TxRoutine(back, byte, before)'
  BY <1>1, <1>4 DEF TxRoutine, At, TxFixed, Holds, Saved, Stacked
<1>5. QED BY <1>2, <1>3, <1>4 DEF TxInv

LEMMA TxInit ==
  ASSUME ProgramInit, program = "tx"
  PROVE  TxInv
<1>1. ram = Image(TxCode) /\ Start([Cleared EXCEPT ![0] = 6, ![1] = 7, ![2] = 8])
  BY DEF ProgramInit
<1>2. /\ regs = [Cleared EXCEPT ![0] = 6, ![1] = 7, ![2] = 8]
      /\ pc = 0 /\ halted = FALSE /\ printed = <<>>
  BY <1>1 DEF Start, Init, SerialInit
<1>3. DOMAIN regs = Reg /\ regs[0] = 6 /\ regs[1] = 7 /\ regs[2] = 8
  BY <1>2, TxRegs DEF Cleared
<1>4. Holds(TxCode)
  <2>1. 2 * Len(TxCode) <= RamEnd
    BY TxWords, TxPlaces
  <2>2. QED BY <1>1, <2>1, TxWords, ImageHolds
<1>5. TxBegins(0)
  BY <1>2, <1>3, <1>4 DEF TxBegins, TxFixed
<1>6. QED BY <1>5 DEF TxInv, TxCaller

(* TX_BYTE waits for the transmitter, sends the byte once, gives back the  *)
(* registers and the stack and returns to its caller, both times, whatever *)
(* the UART and the host do meanwhile.                                     *)
THEOREM ByteRoutineReturns == ProgramSpec => []TxReturns
<1> DEFINE Inv == program = "tx" => TxInv
<1>1. ProgramInit => Inv
  BY TxInit
<1>2. Inv /\ [ProgramNext]_programVars => Inv'
  <2> SUFFICES ASSUME program = "tx" => TxInv, [ProgramNext]_programVars, program' = "tx"
               PROVE  TxInv'
    OBVIOUS
  <2>1. program' = program
    BY DEF ProgramNext, programVars
  <2>2. TxInv
    BY <2>1
  <2>3. CASE UNCHANGED <<cpuVars, ram, printed>>
    BY <2>2, <2>3, TxOutside
  <2>4. CASE Step
    BY <2>2, <2>4, TxStep
  <2>5. CASE MachineTick
    BY <2>3, <2>5 DEF MachineTick, Tick, TickEffect
  <2>6. CASE MachineTyping
    BY <2>3, <2>6 DEF MachineTyping, Typing, HostTypes
  <2>7. CASE UNCHANGED programVars
    BY <2>3, <2>7 DEF programVars, machineVars, vars, serialVars
  <2>8. QED
    BY <2>4, <2>5, <2>6, <2>7 DEF ProgramNext, MachineNext
<1>3. Inv => TxReturns
  <2>1. halted /\ TxInv => TxDone
    BY DEF TxInv, TxCaller, TxBegins, TxRoutine, At
  <2>2. QED BY <2>1 DEF TxReturns, TxDone
<1>4. QED BY <1>1, <1>2, <1>3, PTL DEF ProgramSpec

----------------------------------------------------------------------------
(* What every program may do: registers, flags and memory keep their       *)
(* types, and the UART sees nothing that its own specification leaves out. *)

LEMMA WordInt == \A w \in Int : w % Base \in Word
<1>1. ASSUME NEW w \in Int PROVE w % Base \in Word
  <2>1. w % Base \in 0..(Base - 1)
    BY BaseIsNat, DivisionFacts
  <2>2. QED BY <2>1, WordFacts
<1>2. QED BY <1>1

LEMMA PlusIsWord == \A a, n \in Int : Plus(a, n) \in Word
<1>1. ASSUME NEW a \in Int, NEW n \in Int PROVE Plus(a, n) \in Word
  BY WordInt DEF Plus
<1>2. QED BY <1>1

LEMMA FieldRange ==
  ASSUME NEW w \in Nat, NEW pos \in Nat, NEW len \in Nat
  PROVE  Field(w, pos, len) \in 0..(2^len - 1)
<1> DEFINE p == 2^pos
           l == 2^len
<1>1. p \in Nat \ {0} /\ l \in Nat \ {0}
  BY PowerStep
<1> HIDE DEF p, l
<1>2. w \div p \in Int
  BY <1>1
<1>3. (w \div p) % l \in 0..(l - 1)
  BY <1>1, <1>2, DivisionFacts
<1>4. QED BY <1>3 DEF Field, p, l

LEMMA Fields ==
  ASSUME NEW w \in Nat
  PROVE  /\ Field(w, 0, 4) \in Reg /\ Field(w, 4, 4) \in Reg
         /\ Field(w, 10, 4) \in 0..15 /\ Field(w, 0, 8) \in 0..255 /\ Field(w, 8, 2) \in 0..3
         /\ Field(w, 11, 2) \in 0..3 /\ Field(w, 14, 2) \in 0..3 /\ Field(w, 10, 2) \in 0..3
         /\ Field(w, 10, 1) # 1 => Field(w, 8, 3) \in 0..3
<1>1. /\ Field(w, 0, 4) \in 0..(2^4 - 1) /\ Field(w, 4, 4) \in 0..(2^4 - 1)
      /\ Field(w, 10, 4) \in 0..(2^4 - 1) /\ Field(w, 0, 8) \in 0..(2^8 - 1)
      /\ Field(w, 8, 2) \in 0..(2^2 - 1) /\ Field(w, 11, 2) \in 0..(2^2 - 1)
      /\ Field(w, 14, 2) \in 0..(2^2 - 1) /\ Field(w, 10, 2) \in 0..(2^2 - 1)
  BY FieldRange
<1>2. ASSUME Field(w, 10, 1) # 1 PROVE Field(w, 8, 3) \in 0..3
  <2>1. Field(w, 10, 1) = (w \div (4 * 256)) % 2 /\ Field(w, 8, 3) = (w \div 256) % 8
    BY Powers DEF Field
  <2>2. QED BY <1>2, <2>1
<1>3. QED BY <1>1, <1>2, Powers DEF Reg

(* The bits of a word add up to a number: the function that adds them is   *)
(* built one bit further at a time, and its least sum that is no number    *)
(* would be the next bit added to a number.                                *)
Adds(bits, n, g) ==
  g = [i \in 0..n |-> IF i = 0 THEN 0 ELSE g[i - 1] + (IF i - 1 \in bits THEN 2^(i - 1) ELSE 0)]

LEMMA AddsExists ==
  ASSUME NEW bits, NEW n \in Nat
  PROVE  \E g : Adds(bits, n, g)
<1> DEFINE X == {k \in Nat : ~\E g : Adds(bits, k, g)}
<1>1. SUFFICES ASSUME X # {} PROVE FALSE
  OBVIOUS
<1>2. PICK k \in X : \A j \in X : k <= j
  BY <1>1, LeastExists
<1>3. CASE k = 0
  <2> DEFINE g == [i \in 0..0 |-> 0]
  <2>1. g = [i \in 0..0 |-> IF i = 0 THEN 0
                            ELSE g[i - 1] + (IF i - 1 \in bits THEN 2^(i - 1) ELSE 0)]
    OBVIOUS
  <2> HIDE DEF g
  <2>2. Adds(bits, 0, g)
    BY <2>1 DEF Adds
  <2>3. QED BY <1>2, <1>3, <2>2
<1>4. CASE k # 0
  <2>1. k - 1 \in Nat /\ k - 1 \notin X
    BY <1>2, <1>4
  <2>2. PICK h : Adds(bits, k - 1, h)
    BY <2>1
  <2> DEFINE last == h[k - 1] + (IF k - 1 \in bits THEN 2^(k - 1) ELSE 0)
             g == [i \in 0..k |-> IF i = k THEN last ELSE h[i]]
             Sum(i) == IF i = 0 THEN 0 ELSE g[i - 1] + (IF i - 1 \in bits THEN 2^(i - 1) ELSE 0)
  <2>3. ASSUME NEW i \in 0..k PROVE g[i] = Sum(i)
    <3>1. CASE i = k
      <4>1. g[i] = last /\ g[i - 1] = h[k - 1] /\ i # 0
        BY <1>4, <3>1
      <4>2. QED BY <3>1, <4>1
    <3>2. CASE i # k
      <4>1. i \in 0..(k - 1) /\ g[i] = h[i] /\ i # 0 => g[i - 1] = h[i - 1]
        BY <3>2
      <4>2. h[i] = IF i = 0 THEN 0 ELSE h[i - 1] + (IF i - 1 \in bits THEN 2^(i - 1) ELSE 0)
        BY <2>2, <3>2 DEF Adds
      <4>3. QED BY <3>2, <4>1, <4>2
    <3>3. QED BY <3>1, <3>2
  <2>4. g = [i \in 0..k |-> Sum(i)]
    BY <2>3
  <2>5. Adds(bits, k, g)
    BY <2>4 DEF Adds
  <2>6. QED BY <1>2, <2>5
<1>5. QED BY <1>3, <1>4

LEMMA FromBitsIsNat ==
  ASSUME NEW bits
  PROVE  FromBits(bits) \in Nat
<1> DEFINE sum == CHOOSE g : Adds(bits, Width, g)
<1>1. Width \in Nat
  BY WordFacts
<1>2. Adds(bits, Width, sum)
  BY <1>1, AddsExists
<1>3. FromBits(bits) = sum[Width]
  BY DEF FromBits, Adds
<1> HIDE DEF sum
<1> DEFINE X == {k \in 0..Width : sum[k] \notin Nat}
<1>4. ASSUME X # {} PROVE FALSE
  <2>1. X \in SUBSET Nat
    BY <1>1
  <2>2. PICK k \in X : \A j \in X : k <= j
    BY <1>4, <2>1, LeastExists
  <2>3. k \in 0..Width /\ sum[k] \notin Nat
    OBVIOUS
  <2>4. sum[k] = IF k = 0 THEN 0 ELSE sum[k - 1] + (IF k - 1 \in bits THEN 2^(k - 1) ELSE 0)
    BY <1>2, <2>3 DEF Adds
  <2>5. k # 0
    BY <2>3, <2>4
  <2>6. k - 1 \in 0..Width /\ k - 1 \notin X
    BY <1>1, <2>2, <2>3, <2>5
  <2>7. sum[k - 1] \in Nat /\ 2^(k - 1) \in Nat
    BY <1>1, <2>6, PowerStep
  <2>8. QED BY <2>3, <2>4, <2>5, <2>7
<1>5. sum[Width] \in Nat
  BY <1>1, <1>4
<1>6. QED BY <1>3, <1>5

(* Whatever an ALU instruction computes, a word and four flags come out.   *)
LEMMA ResultTyped ==
  ASSUME NEW v \in Int, NEW f \in FlagSet
  PROVE  Result(v, f).value \in Word /\ Result(v, f).flags \in FlagSet
BY WordInt DEF Result

LEMMA FlagsTyped ==
  ASSUME NEW v, NEW a, NEW b
  PROVE  /\ BooleanFlags(v) \in FlagSet /\ ArithmeticFlags(v) \in FlagSet
         /\ CmpFlags(a, b, v) \in FlagSet
BY DEF BooleanFlags, ArithmeticFlags, CmpFlags, FlagSet, HasBit

Typed(r) == r.value \in Word /\ r.flags \in FlagSet

LEMMA LogicTyped ==
  ASSUME NEW bits
  PROVE  Typed(Logic(FromBits(bits)))
<1>1. FromBits(bits) \in Int
  BY FromBitsIsNat
<1>2. QED BY <1>1, ResultTyped, FlagsTyped DEF Typed, Logic

LEMMA AmountIs ==
  ASSUME NEW n \in Int
  PROVE  /\ Amount(n) \in Nat /\ 2^Amount(n) \in Nat \ {0}
         /\ Amount(n) <= Width => Width - Amount(n) \in Nat /\ 2^(Width - Amount(n)) \in Nat \ {0}
<1>1. Width \in Nat \ {0} /\ 2 * Width \in Nat \ {0}
  BY WordFacts
<1>2. Amount(n) \in Nat
  BY <1>1, DivisionFacts DEF Amount
<1>3. Amount(n) <= Width => Width - Amount(n) \in Nat
  BY <1>1, <1>2
<1>4. QED BY <1>2, <1>3, PowerStep

LEMMA AluTyped ==
  ASSUME NEW op \in 0..15, NEW a \in Word, NEW b \in Word, NEW f \in FlagSet
  PROVE  Typed(AluResult(op, a, b, f))
<1>1. a \in Int /\ b \in Int /\ a \in Nat
  BY WordIsNat
<1> DEFINE n == Amount(b)
           p == 2^n
<1>2. n \in Nat /\ p \in Nat \ {0}
  BY <1>1, AmountIs
<1>3. Typed(Mov(a, b, f)) /\ Typed(Sex(a, b, f))
  BY <1>1, ResultTyped DEF Typed, Mov, Sex
<1>4. Typed(Add(a, b)) /\ Typed(Sub(a, b)) /\ Typed(Mul(a, b)) /\ Typed(Cmp(a, b))
  <2>1. a + b \in Int /\ a - b \in Int /\ a * b \in Int
    BY <1>1
  <2>2. QED BY <1>1, <2>1, ResultTyped, FlagsTyped DEF Typed, Add, Sub, Mul, Cmp
<1>5. Typed(Or(a, b)) /\ Typed(And(a, b)) /\ Typed(Xor(a, b))
  BY LogicTyped DEF Or, And, Xor
<1>6. Typed(Sl(a, b))
  <2>1. a * p \in Int /\ Base * Base \in Nat \ {0}
    BY <1>1, <1>2, BaseIsNat
  <2> DEFINE v == (a * p) % (Base * Base)
  <2>2. v \in Int
    BY <2>1, DivisionFacts
  <2>3. Sl(a, b) = Result(v, BooleanFlags(v))
    BY DEF Sl
  <2> HIDE DEF v
  <2>4. QED BY <2>2, <2>3, ResultTyped, FlagsTyped DEF Typed
<1>7. ASSUME NEW v \in Int, NEW carry \in BOOLEAN
      PROVE  Typed(Result(v, [BooleanFlags(v) EXCEPT !.c = carry]))
  <2>1. [BooleanFlags(v) EXCEPT !.c = carry] \in FlagSet
    BY FlagsTyped DEF FlagSet
  <2>2. QED BY <2>1, ResultTyped DEF Typed
<1>8. Typed(Sr(a, b)) /\ Typed(Sra(a, b))
  <2> DEFINE v == a \div p
             carry == HasBit(a, 0)
  <2>1. v \in Int /\ carry \in BOOLEAN
    BY <1>1, <1>2, DivisionFacts DEF HasBit
  <2>2. Sr(a, b) = Result(v, [BooleanFlags(v) EXCEPT !.c = carry])
    BY DEF Sr
  <2> HIDE DEF v, carry
  <2>3. Typed(Sr(a, b))
    BY <1>7, <2>1, <2>2
  <2>4. QED BY <2>3 DEF Sra
<1>9. Typed(Rot(a, b))
  <2> DEFINE v == IF n > Width THEN 0 ELSE a \div p + (a % p) * 2^(Width - n)
             carry == HasBit(v, Width - 1)
  <2>1. v \in Int
    <3>1. CASE n > Width
      BY <3>1
    <3>2. CASE ~(n > Width)
      <4>1. 2^(Width - n) \in Nat
        <5>1. n <= Width
          <6>1. Width \in Nat
            BY WordFacts
          <6> HIDE DEF n
          <6>2. QED BY <1>2, <3>2, <6>1
        <5>2. QED BY <1>1, <5>1, AmountIs
      <4> DEFINE q == 2^(Width - n)
      <4> HIDE DEF q, p
      <4>2. a \div p \in Int /\ a % p \in Int
        BY <1>1, <1>2
      <4>3. a \div p + (a % p) * q \in Int
        BY <4>1, <4>2 DEF q
      <4>4. QED BY <3>2, <4>3 DEF q
    <3>3. QED BY <3>1, <3>2
  <2>2. carry \in BOOLEAN
    BY DEF HasBit
  <2>3. Rot(a, b) = Result(v, [BooleanFlags(v) EXCEPT !.c = carry])
    BY DEF Rot
  <2> HIDE DEF v, carry
  <2>4. QED BY <1>7, <2>1, <2>2, <2>3
<1>10. Typed(BitTest(a, b, f))
  <2>1. [f EXCEPT !.z = ~(Amount(b) < Width /\ HasBit(a, Amount(b)))] \in FlagSet
    BY DEF FlagSet
  <2>2. QED BY <1>1, <2>1, ResultTyped DEF Typed, BitTest
<1>11. Typed(SetBit(a, b, f)) /\ Typed(ClrBit(a, b, f))
  <2> DEFINE set == IF n < Width /\ ~HasBit(a, n) THEN a + p ELSE a
             clear == IF n < Width /\ HasBit(a, n) THEN a - p ELSE a
  <2>1. set \in Int /\ clear \in Int
    BY <1>1, <1>2
  <2>2. SetBit(a, b, f) = Result(set, f) /\ ClrBit(a, b, f) = Result(clear, f)
    BY DEF SetBit, ClrBit
  <2> HIDE DEF set, clear
  <2>3. QED BY <2>1, <2>2, ResultTyped DEF Typed
<1> HIDE DEF n, p
<1>12. QED
  BY <1>3, <1>4, <1>5, <1>6, <1>8, <1>9, <1>10, <1>11 DEF AluResult

(* Memory gives words, and keeps bytes.                                    *)
RamTyped == ram \in [RamBytes -> 0..255]

LEMMA BytePairs == \A lo, hi \in 0..255 : lo + 256 * hi \in Word
<1>1. ASSUME NEW lo \in 0..255, NEW hi \in 0..255 PROVE lo + 256 * hi \in Word
  <2>1. Base = 256 * 256
    BY Powers, WordFacts
  <2>2. lo + 256 * hi \in Int /\ 0 <= lo + 256 * hi /\ lo + 256 * hi < Base
    BY <2>1
  <2>3. QED BY <2>2, WordIs
<1>2. QED BY <1>1

LEMMA GetTyped ==
  ASSUME RamTyped, NEW addr
  PROVE  Get(addr) \subseteq Word /\ GetC(addr) \subseteq Word
<1>1. RomByte \in 0..255
  BY MemoryAssumption DEF MemoryAssumption
<1>2. \A x : ArrayByte(x) \subseteq 0..255 /\ RomArrayByte(x) \subseteq 0..255
  BY <1>1 DEF ArrayByte, RomArrayByte, RamTyped
<1>3. ASSUME NEW lows \in SUBSET (0..255), NEW highs \in SUBSET (0..255)
      PROVE  WordsOf(lows, highs) \subseteq Word
  <2>1. ASSUME NEW lo \in lows, NEW hi \in highs PROVE lo + 256 * hi \in Word
    <3>1. lo \in 0..255 /\ hi \in 0..255
      OBVIOUS
    <3>2. QED BY <3>1, BytePairs
  <2>2. QED BY <2>1 DEF WordsOf
<1>4. 0..255 \subseteq Word
  BY SmallIsWord
<1>5. Get(addr) \subseteq Word
  <2>1. 0 \in Word
    BY <1>4
  <2>2. /\ WordsOf(ArrayByte(addr), ArrayByte(addr + 1)) \subseteq Word
        /\ WordsOf(RomArrayByte(addr), RomArrayByte(addr + 1)) \subseteq Word
    BY <1>2, <1>3
  <2>3. QED BY <2>1, <2>2 DEF Get
<1>6. GetC(addr) \subseteq 0..255
  BY <1>2 DEF GetC
<1>7. QED BY <1>4, <1>5, <1>6

LEMMA PutTyped ==
  ASSUME RamTyped, NEW addr, NEW v \in Word, Put(addr, v) \/ PutC(addr, v)
  PROVE  RamTyped'
<1>1. v \in Int
  BY WordIsNat
<1>2. v % 256 \in 0..255 /\ (v \div 256) % 256 \in 0..255
  BY <1>1
<1>3. CASE Put(addr, v)
  BY <1>2, <1>3 DEF Put, RamTyped
<1>4. CASE PutC(addr, v)
  BY <1>2, <1>4 DEF PutC, RamTyped
<1>5. QED BY <1>3, <1>4

(* An instruction does one thing to the UART, with a word.                 *)
Accesses ==
  \/ \E addr \in Offsets, data \in Word : WriteAccess(addr, data)
  \/ \E addr \in Offsets : ReadAccess(addr)
  \/ OtherInstruction

CpuTyped ==
  /\ regs \in [Reg -> Word] /\ pc \in Word /\ flags \in FlagSet
  /\ halted \in BOOLEAN /\ ie \in BOOLEAN /\ RamTyped

MachineTypeOK == TypeOK /\ rxClkDiv \in Word /\ txClkDiv \in Word /\ CpuTyped

(* Only the low byte of what is sent is.                                   *)
LEMMA AccessesAllowed ==
  ASSUME Accesses
  PROVE  Next
<1>1. CASE \E addr \in Offsets, data \in Word : WriteAccess(addr, data)
  <2>1. PICK addr \in Offsets, data \in Word : WriteAccess(addr, data)
    BY <1>1
  <2>2. CASE addr = 2
    <3> DEFINE byte == data % 256
    <3>1. byte \in 0..255 /\ byte % 256 = data % 256
      BY WordIsNat
    <3>2. byte \in TxValues
      BY <3>1, ForthVMAssumption DEF ForthVMAssumption
    <3> HIDE DEF byte
    <3>3. WriteAccess(2, byte)
      BY <2>1, <2>2, <3>1 DEF WriteAccess, Write, WriteTxData, Putc
    <3>4. QED BY <3>2, <3>3 DEF Next
  <2>3. CASE addr # 2
    <3>1. data \in DivValues
      BY ForthVMAssumption DEF ForthVMAssumption
    <3>2. QED BY <2>1, <2>3, <3>1 DEF Next
  <2>4. QED BY <2>2, <2>3
<1>2. QED BY <1>1 DEF Accesses, Next

LEMMA DividersTyped ==
  ASSUME rxClkDiv \in Word, txClkDiv \in Word, Accesses \/ Tick \/ \E c \in Char : Typing(c)
  PROVE  rxClkDiv' \in Word /\ txClkDiv' \in Word
<1>1. CASE \E addr \in Offsets, data \in Word : WriteAccess(addr, data)
  BY <1>1 DEF WriteAccess, Write, WriteStatus, WriteTxData, WriteRxClkDiv, WriteTxClkDiv, divVars
<1>2. CASE \E addr \in Offsets : ReadAccess(addr)
  BY <1>2 DEF ReadAccess, Read, divVars
<1>3. CASE OtherInstruction \/ Tick
  BY <1>3 DEF OtherInstruction, Tick, TickEffect, divVars
<1>4. CASE \E c \in Char : Typing(c)
  BY <1>4 DEF Typing, uartVars, divVars
<1>5. QED BY <1>1, <1>2, <1>3, <1>4 DEF Accesses

LEMMA OffsetOf ==
  ASSUME NEW addr, OnDevice(addr)
  PROVE  addr - UartStart \in Offsets
<1>1. addr \in UartStart..(UartEnd - 1)
  BY DEF OnDevice, AddressDecode
<1>2. UartEnd - UartStart \in 5..8 /\ UartStart \in Nat /\ UartEnd \in Nat
  BY ForthVMAssumption, MemoryAssumption DEF ForthVMAssumption, MemoryAssumption
<1>3. QED BY <1>1, <1>2 DEF Offsets

LEMMA DeviceTyped ==
  ASSUME MachineTypeOK, NEW offset
  PROVE  DeviceValue(offset) \in Word
<1>1. Status \in 0..255
  BY DEF Status, Bit, MachineTypeOK, TypeOK
<1>2. rxD \in 0..255
  BY FSerialAssumption DEF FSerialAssumption, MachineTypeOK, TypeOK
<1>3. Status \in Word /\ rxD \in Word /\ 0 \in Word
  BY <1>1, <1>2, SmallIsWord
<1> HIDE DEF Status
<1>4. QED BY <1>3 DEF DeviceValue, MachineTypeOK

LEMMA MovedTyped ==
  ASSUME NEW op, NEW v \in Word
  PROVE  Moved(op, v) \in Word
<1>1. v \in Int
  BY WordIsNat
<1>2. v % 256 \in 0..255
  BY <1>1
<1>3. QED BY <1>2, SmallIsWord DEF Moved

(* The pointer register of a load or store, wherever it points to.         *)
LEMMA PointerTyped ==
  ASSUME regs \in [Reg -> Word], NEW i, i.mode \in 0..3, i.b \in Reg
  PROVE  Pointer(i).regs \in [Reg -> Word]
<1> DEFINE delta == IF i.op \in {1, 3} THEN 1 ELSE 2
<1>1. delta \in Int /\ -delta \in Int /\ regs[i.b] \in Int /\ regs[i.b] \in Word
  BY WordIsNat
<1> HIDE DEF delta
<1> DEFINE up == Plus(regs[i.b], delta)
           down == Plus(regs[i.b], -delta)
<1>2. up \in Word /\ down \in Word
  BY <1>1, PlusIsWord
<1>3. /\ i.mode = RegReg => Pointer(i).regs = regs
      /\ i.mode = RegHere => Pointer(i).regs = regs
      /\ i.mode = RegInc => Pointer(i).regs = [regs EXCEPT ![i.b] = up]
      /\ i.mode = RegDec => Pointer(i).regs = [regs EXCEPT ![i.b] = down]
  BY DEF Pointer, delta, RegReg, RegHere, RegInc, RegDec
<1> HIDE DEF up, down
<1>4. i.mode \in {RegReg, RegHere, RegInc, RegDec}
  BY DEF RegReg, RegHere, RegInc, RegDec
<1>5. [regs EXCEPT ![i.b] = up] \in [Reg -> Word] /\ [regs EXCEPT ![i.b] = down] \in [Reg -> Word]
  BY <1>2
<1>6. QED BY <1>3, <1>4, <1>5

(* The six kinds of instruction.                                           *)
LEMMA Advance ==
  ASSUME CpuTyped, NEW n \in Int
  PROVE  Plus(pc, n) \in Word
<1>1. pc \in Int
  BY WordIsNat DEF CpuTyped
<1>2. QED BY <1>1, PlusIsWord

LEMMA GenTyped ==
  ASSUME MachineTypeOK, NEW w, Gen(w)
  PROVE  Accesses /\ CpuTyped'
<1>1. Plus(pc, 2) \in Word
  BY Advance DEF MachineTypeOK
<1> DEFINE op == Decode(w).op
<1>2. /\ halted' = (op = 1)
      /\ ie' = CASE op = 2 -> TRUE [] op = 3 -> FALSE [] OTHER -> ie
      /\ pc' = Plus(pc, 2) /\ OtherInstruction /\ UNCHANGED <<regs, flags, ram>>
  BY DEF Gen
<1> HIDE DEF op
<1>3. halted' \in BOOLEAN /\ ie' \in BOOLEAN
  BY <1>2 DEF MachineTypeOK, CpuTyped
<1>4. QED BY <1>1, <1>2, <1>3 DEF MachineTypeOK, CpuTyped, RamTyped, Accesses

LEMMA AluStepTyped ==
  ASSUME MachineTypeOK, NEW w \in Nat, Field(w, 14, 2) = ALU, Alu(w)
  PROVE  Accesses /\ CpuTyped'
<1> DEFINE i == DecodeAlu(w)
           operand == IF i.mode = RegReg THEN regs[i.arg] ELSE i.arg % Base
           result == AluResult(i.op, regs[i.a], operand, flags)
<1>1. Decode(w) = i
  BY DEF Decode, ALU, GEN, LDS, JMP
<1>2. /\ i.op \in 0..15 /\ i.a \in Reg /\ i.arg \in Int
      /\ i.mode = RegReg => i.arg \in Reg
  <2>1. Field(w, 10, 4) \in 0..15 /\ Field(w, 4, 4) \in Reg /\ RA \in Reg
    BY Fields, TxRegs
  <2>2. Field(w, 0, 4) \in Reg /\ Field(w, 0, 8) \in 0..255 /\ Field(w, 8, 2) \in 0..3
    BY Fields
  <2>3. i.op \in 0..15 /\ i.a \in Reg
    BY <2>1 DEF DecodeAlu
  <2>4. /\ Field(w, 0, 4) \in Int /\ Field(w, 0, 8) \in Int /\ Signed8(Field(w, 0, 8)) \in Int
    BY <2>2 DEF Signed8, Reg
  <2>5. i.arg \in Int
    BY <2>2, <2>4 DEF DecodeAlu, RegReg, RegU4, U8, S8
  <2>6. i.mode = RegReg => i.arg = Field(w, 0, 4)
    BY DEF DecodeAlu, RegReg, RegU4, U8, S8
  <2>7. QED BY <2>2, <2>3, <2>5, <2>6
<1>3. /\ regs' = [regs EXCEPT ![i.a] = result.value] /\ flags' = result.flags
      /\ pc' = Plus(pc, 2) /\ OtherInstruction /\ UNCHANGED <<halted, ie, ram>>
  BY <1>1 DEF Alu
<1> HIDE DEF i
<1>4. regs[i.a] \in Word /\ operand \in Word /\ flags \in FlagSet
  <2>1. i.arg % Base \in Word
    BY <1>2, WordInt
  <2>2. QED BY <1>2, <2>1 DEF MachineTypeOK, CpuTyped
<1> HIDE DEF operand
<1>5. result.value \in Word /\ result.flags \in FlagSet
  BY <1>2, <1>4, AluTyped DEF Typed
<1> HIDE DEF result
<1>6. Plus(pc, 2) \in Word
  BY Advance DEF MachineTypeOK
<1>7. QED BY <1>2, <1>3, <1>5, <1>6 DEF MachineTypeOK, CpuTyped, RamTyped, Accesses

LEMMA LoadStoreFields ==
  ASSUME NEW w \in Nat, Field(w, 14, 2) = LDS, ~IsLdx(w)
  PROVE  /\ Decode(w).op \in 0..3 /\ Decode(w).mode \in 0..3
         /\ Decode(w).a \in Reg /\ Decode(w).b \in Reg
<1>1. Decode(w) = DecodeLds(w)
  BY DEF Decode, GEN, LDS, JMP, ALU
<1>2. Field(w, 10, 1) # 1
  BY DEF IsLdx
<1>3. /\ Field(w, 11, 2) \in 0..3 /\ Field(w, 8, 3) \in 0..3
      /\ Field(w, 4, 4) \in Reg /\ Field(w, 0, 4) \in Reg
  BY <1>2, Fields
<1>4. QED BY <1>1, <1>3 DEF DecodeLds

LEMMA LoadTyped ==
  ASSUME MachineTypeOK, NEW w \in Nat, Field(w, 14, 2) = LDS, ~IsLdx(w), Load(w)
  PROVE  Accesses /\ CpuTyped'
<1> DEFINE i == Decode(w)
           p == Pointer(i)
           value == Moved(i.op, DeviceValue(p.addr - UartStart))
<1>1. i.mode \in 0..3 /\ i.a \in Reg /\ i.b \in Reg
  BY LoadStoreFields
<1>2. /\ \/ OnDevice(p.addr) /\ ReadAccess(p.addr - UartStart) /\ regs' = [p.regs EXCEPT ![i.a] = value]
         \/ /\ OtherInstruction
            /\ \E v \in (IF i.op = 0 THEN Get(p.addr) ELSE GetC(p.addr)) :
                 regs' = [p.regs EXCEPT ![i.a] = v]
      /\ pc' = Plus(pc, Length(i)) /\ UNCHANGED <<flags, halted, ie, ram>>
  BY DEF Load
<1> HIDE DEF i
<1>3. p.regs \in [Reg -> Word]
  BY <1>1, PointerTyped DEF MachineTypeOK, CpuTyped
<1> HIDE DEF p
<1>4. value \in Word
  BY DeviceTyped, MovedTyped
<1> HIDE DEF value
<1>5. \A v \in (IF i.op = 0 THEN Get(p.addr) ELSE GetC(p.addr)) : v \in Word
  BY GetTyped DEF MachineTypeOK, CpuTyped
<1>6. \A v \in Word : [p.regs EXCEPT ![i.a] = v] \in [Reg -> Word]
  BY <1>1, <1>3
<1>7. regs' \in [Reg -> Word]
  BY <1>2, <1>4, <1>5, <1>6
<1>8. Accesses
  BY <1>2, OffsetOf DEF Accesses
<1>9. pc' \in Word
  <2>1. Length(i) \in Int
    BY DEF Length
  <2>2. QED BY <1>2, <2>1, Advance DEF MachineTypeOK
<1>10. QED BY <1>2, <1>7, <1>8, <1>9 DEF MachineTypeOK, CpuTyped, RamTyped

LEMMA StoreTyped ==
  ASSUME MachineTypeOK, NEW w \in Nat, Field(w, 14, 2) = LDS, ~IsLdx(w), Store(w)
  PROVE  Accesses /\ CpuTyped'
<1> DEFINE i == Decode(w)
           p == Pointer(i)
           value == IF i.mode = RegDec THEN p.regs[i.a] ELSE regs[i.a]
           sent == Moved(i.op, value)
<1>1. i.mode \in 0..3 /\ i.a \in Reg /\ i.b \in Reg
  BY LoadStoreFields
<1>2. /\ \/ OnDevice(p.addr) /\ WriteAccess(p.addr - UartStart, sent) /\ UNCHANGED ram
         \/ OtherInstruction /\ (Put(p.addr, value) \/ PutC(p.addr, value))
      /\ regs' = p.regs /\ pc' = Plus(pc, Length(i)) /\ UNCHANGED <<flags, halted, ie>>
  BY DEF Store
<1> HIDE DEF i
<1>3. p.regs \in [Reg -> Word]
  BY <1>1, PointerTyped DEF MachineTypeOK, CpuTyped
<1> HIDE DEF p
<1>4. value \in Word
  BY <1>1, <1>3 DEF MachineTypeOK, CpuTyped
<1> HIDE DEF value
<1>5. sent \in Word
  BY <1>4, MovedTyped
<1> HIDE DEF sent
<1>6. RamTyped'
  <2>1. RamTyped
    BY DEF MachineTypeOK, CpuTyped
  <2>2. CASE UNCHANGED ram
    BY <2>1, <2>2 DEF RamTyped
  <2>3. CASE Put(p.addr, value) \/ PutC(p.addr, value)
    BY <1>4, <2>1, <2>3, PutTyped
  <2>4. QED BY <1>2, <2>2, <2>3
<1>7. Accesses
  BY <1>2, <1>5, OffsetOf DEF Accesses
<1>8. pc' \in Word
  <2>1. Length(i) \in Int
    BY DEF Length
  <2>2. QED BY <1>2, <2>1, Advance DEF MachineTypeOK
<1>9. QED BY <1>2, <1>3, <1>6, <1>7, <1>8 DEF MachineTypeOK, CpuTyped

LEMMA LdxTyped ==
  ASSUME MachineTypeOK, NEW w, Ldx(w)
  PROVE  Accesses /\ CpuTyped'
<1>1. Garbage \subseteq Word
  BY ForthVMAssumption DEF ForthVMAssumption
<1>2. regs' \in [Reg -> Word] /\ RamTyped'
  <2>1. RamTyped /\ regs \in [Reg -> Word]
    BY DEF MachineTypeOK, CpuTyped
  <2>2. CASE (\E r \in Reg, v \in Garbage : regs' = [regs EXCEPT ![r] = v]) /\ UNCHANGED ram
    BY <1>1, <2>1, <2>2 DEF RamTyped
  <2>3. ASSUME NEW addr \in Garbage, NEW v \in Garbage, Put(addr, v) \/ PutC(addr, v)
        PROVE  RamTyped'
    <3>1. v \in Word
      BY <1>1
    <3>2. QED BY <2>1, <2>3, <3>1, PutTyped
  <2>4. CASE /\ \E addr \in Garbage, v \in Garbage :
                  IF Field(w, 11, 2) = 2 THEN Put(addr, v) ELSE PutC(addr, v)
             /\ UNCHANGED regs
    BY <2>1, <2>3, <2>4
  <2>5. QED BY <2>2, <2>4 DEF Ldx
<1>3. pc' = Plus(pc, 2) /\ OtherInstruction /\ UNCHANGED <<flags, halted, ie>>
  BY DEF Ldx
<1>4. Plus(pc, 2) \in Word
  BY Advance DEF MachineTypeOK
<1>5. QED BY <1>2, <1>3, <1>4 DEF MachineTypeOK, CpuTyped, Accesses

LEMMA JmpTyped ==
  ASSUME MachineTypeOK, NEW w \in Nat, Field(w, 14, 2) = JMP, Jmp(w)
  PROVE  Accesses /\ CpuTyped'
<1> DEFINE i == DecodeJmp(w)
           taken == IF i.cond = -1 THEN TRUE ELSE Condition(i.cond) # i.negated
           operand == Plus(pc, 2)
           source == IF i.mode = IndReg THEN regs'[i.b] ELSE operand
           behind == Plus(pc, IF i.mode \in {AbsHere, RelHere} THEN 4 ELSE 2)
<1>1. Decode(w) = i
  BY DEF Decode, ALU, GEN, LDS, JMP
<1>2. i.b \in Reg
  BY Fields, TxRegs DEF DecodeJmp
<1>3. /\ regs' = IF taken /\ i.link THEN [regs EXCEPT ![RL] = LinkAddress] ELSE regs
      /\ \/ pc' = regs'[i.b]
         \/ pc' \in TargetsAt(source)
         \/ \E v \in TargetsAt(source) : pc' = Plus(operand, v - 2)
         \/ pc' = behind
      /\ (OnDevice(source) /\ ReadAccess(source - UartStart)) \/ OtherInstruction
      /\ UNCHANGED <<flags, halted, ie, ram>>
  BY <1>1 DEF Jmp
<1> HIDE DEF i, taken
<1>4. operand \in Word /\ LinkAddress \in Word /\ behind \in Word
  <2>1. (IF i.mode \in {AbsHere, RelHere} THEN 4 ELSE 2) \in Int
    OBVIOUS
  <2>2. QED BY <2>1, Advance DEF MachineTypeOK, LinkAddress
<1> HIDE DEF operand, behind, source
<1>5. regs' \in [Reg -> Word]
  BY <1>3, <1>4 DEF MachineTypeOK, CpuTyped
<1>6. TargetsAt(source) \subseteq Word
  <2>1. Get(source) \subseteq Word
    BY GetTyped DEF MachineTypeOK, CpuTyped
  <2>2. DeviceValue(source - UartStart) \in Word
    BY DeviceTyped
  <2>3. QED BY <2>1, <2>2 DEF TargetsAt
<1>7. \A v \in Word : Plus(operand, v - 2) \in Word
  <2>1. operand \in Int
    BY <1>4, WordIsNat
  <2>2. ASSUME NEW v \in Word PROVE Plus(operand, v - 2) \in Word
    <3>1. v - 2 \in Int
      BY WordIsNat
    <3>2. QED BY <2>1, <3>1, PlusIsWord
  <2>3. QED BY <2>2
<1>8. pc' \in Word
  BY <1>2, <1>3, <1>4, <1>5, <1>6, <1>7
<1>9. Accesses
  BY <1>3, OffsetOf DEF Accesses
<1>10. QED BY <1>3, <1>5, <1>8, <1>9 DEF MachineTypeOK, CpuTyped, RamTyped

LEMMA InstructionTyped ==
  ASSUME MachineTypeOK, Step
  PROVE  Accesses /\ CpuTyped'
<1>1. PICK w \in Get(pc) :
        \/ Field(w, 14, 2) = GEN /\ Gen(w)
        \/ Field(w, 14, 2) = LDS /\ ~IsLdx(w) /\ Load(w)
        \/ Field(w, 14, 2) = LDS /\ ~IsLdx(w) /\ Store(w)
        \/ IsLdx(w) /\ Ldx(w)
        \/ Field(w, 14, 2) = ALU /\ Alu(w)
        \/ Field(w, 14, 2) = JMP /\ Jmp(w)
  BY DEF Step
<1>2. w \in Nat
  <2>1. w \in Word
    BY GetTyped DEF MachineTypeOK, CpuTyped
  <2>2. QED BY <2>1, WordIsNat
<1>3. QED BY <1>1, <1>2, GenTyped, LoadTyped, StoreTyped, LdxTyped, AluStepTyped, JmpTyped
----------------------------------------------------------------------------
(* Any program: whatever bytes RAM holds and wherever the processor        *)
(* starts.                                                                 *)
MachineInit == Init /\ CpuTyped
MachineSpec == MachineInit /\ [][MachineNext]_machineVars

LEMMA MachineStep ==
  ASSUME MachineTypeOK, [MachineNext]_machineVars
  PROVE  [Next]_vars /\ MachineTypeOK'
<1>1. CASE Step
  <2>1. Accesses /\ CpuTyped'
    BY <1>1, InstructionTyped
  <2>2. Next
    BY <2>1, AccessesAllowed
  <2>3. TypeOK'
    BY <2>2, TypeStep DEF MachineTypeOK
  <2>4. rxClkDiv' \in Word /\ txClkDiv' \in Word
    BY <2>1, DividersTyped DEF MachineTypeOK
  <2>5. QED BY <2>1, <2>2, <2>3, <2>4 DEF MachineTypeOK
<1>2. ASSUME Tick \/ \E c \in Char : Typing(c), UNCHANGED <<cpuVars, ram>>
      PROVE  [Next]_vars /\ MachineTypeOK'
  <2>1. Next
    BY <1>2 DEF Next
  <2>2. TypeOK'
    BY <2>1, TypeStep DEF MachineTypeOK
  <2>3. rxClkDiv' \in Word /\ txClkDiv' \in Word
    BY <1>2, DividersTyped DEF MachineTypeOK
  <2>4. CpuTyped'
    BY <1>2 DEF MachineTypeOK, CpuTyped, RamTyped, cpuVars
  <2>5. QED BY <2>1, <2>2, <2>3, <2>4 DEF MachineTypeOK
<1>3. CASE UNCHANGED machineVars
  <2>1. UNCHANGED vars /\ UNCHANGED <<cpuVars, ram>>
    BY <1>3 DEF machineVars
  <2>2. TypeOK'
    BY <2>1, TypeStep DEF MachineTypeOK
  <2>3. rxClkDiv' = rxClkDiv /\ txClkDiv' = txClkDiv
    BY <2>1 DEF vars, uartVars, divVars
  <2>4. QED BY <2>1, <2>2, <2>3 DEF MachineTypeOK, CpuTyped, RamTyped, cpuVars
<1>4. QED BY <1>1, <1>2, <1>3 DEF MachineNext, MachineTick, MachineTyping

LEMMA MachineStarts == MachineInit => MachineTypeOK
<1> SUFFICES ASSUME MachineInit PROVE MachineTypeOK
  OBVIOUS
<1>1. TypeOK
  BY InitType DEF MachineInit
<1>2. rxClkDiv = 1 /\ txClkDiv = 1 /\ 1 \in Word
  BY SmallIsWord DEF MachineInit, Init, UARTInit
<1>3. QED BY <1>1, <1>2 DEF MachineTypeOK, MachineInit

(* The processor's types, for every program: registers, program counter    *)
(* and the results of every instruction are words, RAM holds bytes.        *)
THEOREM MachineTypeCorrect == MachineSpec => []MachineTypeOK
<1>1. MachineTypeOK /\ [MachineNext]_machineVars => MachineTypeOK'
  BY MachineStep
<1>2. QED BY <1>1, MachineStarts, PTL DEF MachineSpec

(* Every program drives the UART as its own specification allows: each     *)
(* instruction of ForthVM.h is, with its tick, at most one access of       *)
(* UART.tla, a load, a store or a jump that fetches its target there.  It  *)
(* says nothing of programs that run into the UART's registers as code,    *)
(* where Step ends.                                                        *)
THEOREM MachineImplementsUART == MachineSpec => Spec
<1>1. MachineInit => Init
  BY DEF MachineInit
<1>2. MachineTypeOK /\ [MachineNext]_machineVars => [Next]_vars
  BY MachineStep
<1>3. QED BY <1>1, <1>2, MachineTypeCorrect, PTL DEF MachineSpec, Spec

(* So what is shown of the UART's flags, its receiver and its interrupt    *)
(* for the open specification holds for every program on the machine.      *)
THEOREM EveryProgramSeesTrueFlags ==
  MachineSpec => []TxFlagsMatchFrame /\ ReceiverKeepsByte /\ TxIntMarksFrameEnd
BY MachineImplementsUART, UARTFlagsCorrect, UARTReceiverCorrect, UARTInterruptCorrect, PTL

LEMMA BaseIs == Base = 256 * 256
BY Powers, WordFacts

LEMMA SmallWords == 0 \in Word /\ 6 \in Word /\ 7 \in Word /\ 8 \in Word
<1>1. 0 \in 0..255 /\ 6 \in 0..255 /\ 7 \in 0..255 /\ 8 \in 0..255
  OBVIOUS
<1>2. QED BY <1>1, SmallIsWord

(* The programs that KernelPrograms runs are such programs.                *)
LEMMA ImageTyped ==
  ASSUME NEW words \in Seq(Word), ram = Image(words)
  PROVE  RamTyped
<1>1. \A w \in Word : w % 256 \in 0..255 /\ w \div 256 \in 0..255
  <2>1. ASSUME NEW w \in Word PROVE w % 256 \in 0..255 /\ w \div 256 \in 0..255
    <3>1. Base = 256 * 256
      BY BaseIs
    <3>2. w \in Nat
      BY WordIsNat
    <3>3. w < 256 * 256
      <4>1. w < Base
        BY <3>2, WordIs
      <4>2. QED BY <3>1, <4>1
    <3>4. QED BY <3>2, <3>3
  <2>2. QED BY <2>1
<1> DEFINE At1(b) == LET n == b \div 2 + 1 IN IF n <= Len(words) THEN words[n] ELSE 0
<1>2. ASSUME NEW b \in RamBytes PROVE At1(b) \in Word
  <2>1. b \in Nat
    <3>1. RamStart = 0
      BY TxPlaces
    <3>2. QED BY <3>1 DEF RamBytes
  <2>2. b \div 2 + 1 \in Nat \ {0}
    BY <2>1
  <2>3. QED BY <2>2, SmallWords
<1>3. ram = [b \in RamBytes |-> IF b % 2 = 0 THEN At1(b) % 256 ELSE At1(b) \div 256]
  BY DEF Image
<1> HIDE DEF At1
<1>4. QED BY <1>1, <1>2, <1>3 DEF RamTyped

LEMMA LdxWords == LdxCode \in Seq(Word)
<1>1. ASSUME NEW op \in {0, 2} PROVE LdxRS3(op) \in Word
  <2>1. LdxRS3(op) = (((64 * 256 + 32 * 256) + op * (8 * 256)) + 4 * 256 + 8 * 16) + 14
    BY Powers DEF LdxRS3, AssembleLdx, ArgA, ArgB, RA, RS, LDS
  <2>2. Base = 256 * 256
    BY BaseIs
  <2>3. LdxRS3(op) \in Nat /\ LdxRS3(op) < Base
    BY <2>1, <2>2
  <2>4. QED BY <2>3, WordIs
<1>2. HALT \in Word
  BY InstructionWords
<1>3. QED BY <1>1, <1>2 DEF LdxCode

THEOREM ProgramsAreMachines == ProgramSpec => MachineSpec
<1>1. ProgramInit => MachineInit
  <2> SUFFICES ASSUME ProgramInit PROVE MachineInit
    OBVIOUS
  <2>1. RamTyped
    <3>1. ram = Image(DivCode) \/ ram = Image(TxCode) \/ ram = Image(LdxCode)
      BY DEF ProgramInit
    <3>2. QED BY <3>1, ImageTyped, DivWords, TxWords, LdxWords
  <2>2. \E r \in [Reg -> Word] : Start(r)
    <3>1. Cleared \in [Reg -> Word]
      BY SmallWords DEF Cleared
    <3>2. CASE program = "div"
      <4>1. PICK lo \in Dividends, hi \in Highs, d \in Divisors :
              hi < d /\ Start([Cleared EXCEPT ![0] = lo, ![1] = hi, ![2] = d, ![4] = 8])
        BY <3>2 DEF ProgramInit
      <4>2. lo \in Word /\ hi \in Nat /\ d \in 1..(Base \div 2) /\ hi < d /\ 8 \in Word
        BY <4>1, KernelProgramsAssumption, SmallWords DEF KernelProgramsAssumption
      <4>3. d \in Word /\ hi \in Word
        <5>1. Base \div 2 < Base /\ Base \div 2 \in Nat /\ Base \in Nat
          BY BaseIsNat
        <5>2. d \in Nat /\ d < Base /\ hi < Base
          BY <4>2, <5>1
        <5>3. QED BY <4>2, <5>2, WordIs
      <4>4. [Cleared EXCEPT ![0] = lo, ![1] = hi, ![2] = d, ![4] = 8] \in [Reg -> Word]
        BY <3>1, <4>2, <4>3
      <4>5. QED BY <4>1, <4>4
    <3>3. CASE program = "tx"
      <4>1. Start([Cleared EXCEPT ![0] = 6, ![1] = 7, ![2] = 8])
        BY <3>3 DEF ProgramInit
      <4>2. [Cleared EXCEPT ![0] = 6, ![1] = 7, ![2] = 8] \in [Reg -> Word]
        BY <3>1, SmallWords
      <4>3. QED BY <4>1, <4>2
    <3>4. CASE program = "ldx"
      <4>1. Start([Cleared EXCEPT ![RS] = StackTop])
        BY <3>4 DEF ProgramInit
      <4>2. [Cleared EXCEPT ![RS] = StackTop] \in [Reg -> Word]
        BY <3>1, TxPlaces
      <4>3. QED BY <4>1, <4>2
    <3>5. QED BY <3>2, <3>3, <3>4 DEF ProgramInit
  <2>3. PICK r \in [Reg -> Word] : Start(r)
    BY <2>2
  <2>4. /\ Init /\ regs \in [Reg -> Word] /\ pc = 0
        /\ flags \in FlagSet /\ halted \in BOOLEAN /\ ie \in BOOLEAN
    BY <2>3 DEF Start, FlagSet
  <2>5. QED BY <2>1, <2>4, SmallWords DEF MachineInit, CpuTyped
<1>2. [ProgramNext]_programVars => [MachineNext]_machineVars
  BY DEF ProgramNext, programVars
<1>3. QED BY <1>1, <1>2, PTL DEF ProgramSpec, MachineSpec
=============================================================================
