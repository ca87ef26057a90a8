-------------------------------- MODULE ALU --------------------------------
(***************************************************************************)
(* The CPU's arithmetic unit (runtime/ForthCPU/ForthVM.h): what each ALU   *)
(* instruction leaves in its register and in the four flags.  A word has   *)
(* Width bits, 16 in the code; intermediate results have twice as many.    *)
(***************************************************************************)
EXTENDS Integers

CONSTANT Width

ASSUME ALUAssumption == Width \in Nat \ {0}

Base == 2^Width
Word == 0..(Base - 1)

(* Flags: carry, zero, sign, and the one called odd, P or overflow.        *)
FlagSet == [c : BOOLEAN, z : BOOLEAN, s : BOOLEAN, p : BOOLEAN]

(* Bit i of v; a negative v stands for its two's complement.               *)
HasBit(v, i) == (v \div 2^i) % 2 = 1

Bits == 0..(Width - 1)
FromBits(bits) ==
  LET sum[i \in 0..Width] ==
        IF i = 0 THEN 0 ELSE sum[i - 1] + (IF i - 1 \in bits THEN 2^(i - 1) ELSE 0)
  IN  sum[Width]

(* Shifting by the intermediate's width or more is undefined in C++; the   *)
(* x86 shift that the build uses takes the amount modulo that width.       *)
Amount(n) == n % (2 * Width)
----------------------------------------------------------------------------
(* The three ways to set the flags.  v is the intermediate result, before  *)
(* it is cut to a word.  (Bug definitions are mutants of the next one.)    *)
BooleanFlags(v) ==
  [c |-> HasBit(v, Width), z |-> v = 0, s |-> HasBit(v, Width - 1), p |-> HasBit(v, 0)]

BugCarryForgotten(v) ==
  [c |-> FALSE, z |-> v = 0, s |-> HasBit(v, Width - 1), p |-> v \notin Word]

ArithmeticFlags(v) ==
  [c |-> HasBit(v, Width), z |-> v = 0, s |-> HasBit(v, Width - 1), p |-> v \notin Word]

CmpFlags(a, b, v) ==
  [c |-> HasBit(v, Width), z |-> v = 0, s |-> HasBit(v, Width - 1),
   p |-> HasBit(v, Width - 1) /\ (a # b \/ v # 0)]
----------------------------------------------------------------------------
(* The instructions, from a register a, an operand b and the flags f.      *)
Result(v, flags) == [value |-> v % Base, flags |-> flags]

Mov(a, b, f) == Result(b, f)
Add(a, b) == Result(a + b, ArithmeticFlags(a + b))
Sub(a, b) == Result(a - b, ArithmeticFlags(a - b))
Mul(a, b) == Result(a * b, ArithmeticFlags(a * b))
Cmp(a, b) == Result(a, CmpFlags(a, b, a - b))

Logic(v) == Result(v, BooleanFlags(v))
Or(a, b)  == Logic(FromBits({i \in Bits : HasBit(a, i) \/ HasBit(b, i)}))
And(a, b) == Logic(FromBits({i \in Bits : HasBit(a, i) /\ HasBit(b, i)}))
Xor(a, b) == Logic(FromBits({i \in Bits : HasBit(a, i) # HasBit(b, i)}))

(* Left, the bit shifted out is the carry; right, it is always the lowest  *)
(* bit of the register.  SRA's sign extension computes and discards.       *)
Sl(a, b) == LET v == (a * 2^Amount(b)) % (Base * Base) IN Result(v, BooleanFlags(v))
Sr(a, b) ==
  LET v == a \div 2^Amount(b)
  IN  Result(v, [BooleanFlags(v) EXCEPT !.c = HasBit(a, 0)])
Sra(a, b) == Sr(a, b)

Rot(a, b) ==
  LET n == Amount(b)
      v == IF n > Width THEN 0 ELSE a \div 2^n + (a % 2^n) * 2^(Width - n)
  IN  Result(v, [BooleanFlags(v) EXCEPT !.c = HasBit(v, Width - 1)])

(* BIT sets the zero flag only, SET and CLR no flag, SEX nothing at all:   *)
(* it passes the register's number to the function that extends a value.   *)
BitTest(a, b, f) == Result(a, [f EXCEPT !.z = ~(Amount(b) < Width /\ HasBit(a, Amount(b)))])
SetBit(a, b, f) ==
  LET n == Amount(b) IN Result(IF n < Width /\ ~HasBit(a, n) THEN a + 2^n ELSE a, f)
ClrBit(a, b, f) ==
  LET n == Amount(b) IN Result(IF n < Width /\ HasBit(a, n) THEN a - 2^n ELSE a, f)
Sex(a, b, f) == Result(a, f)

AluResult(op, a, b, f) ==
  CASE op = 0 -> Mov(a, b, f)
    [] op = 1 -> Add(a, b)
    [] op = 2 -> Sub(a, b)
    [] op = 3 -> Mul(a, b)
    [] op = 4 -> Or(a, b)
    [] op = 5 -> And(a, b)
    [] op = 6 -> Xor(a, b)
    [] op = 7 -> Sl(a, b)
    [] op = 8 -> Sr(a, b)
    [] op = 9 -> Sra(a, b)
    [] op = 10 -> Rot(a, b)
    [] op = 11 -> BitTest(a, b, f)
    [] op = 12 -> SetBit(a, b, f)
    [] op = 13 -> ClrBit(a, b, f)
    [] op = 14 -> Cmp(a, b)
    [] op = 15 -> Sex(a, b, f)

(* A word as a signed number.                                              *)
Signed(w) == IF HasBit(w, Width - 1) THEN w - Base ELSE w
============================================================================
