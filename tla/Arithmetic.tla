----------------------------- MODULE Arithmetic ----------------------------
(***************************************************************************)
(* The kernel's arithmetic words (fasm/core.fasm 1414-2070) as they        *)
(* compute their results from the ALU's values and flags.  A word takes    *)
(* its arguments from the data stack, here a sequence with its top at the  *)
(* end, and leaves its results there; a double has its high word on top.   *)
(* A word is one step; D/ is one step per turn of its loop.                *)
(***************************************************************************)
EXTENDS ALU, Sequences

CONSTANTS
  Single,   \* operands tried for words that take single words
  Double    \* and for each half of the operands of words that take doubles

(* The code's constants 16 and 31 stand for the width and the last bit of  *)
(* a double; a negative shift amount wraps as it does with 16 bits.        *)
ASSUME ArithmeticAssumption ==
  /\ Width >= 2 /\ Base % (2 * Width) = 0
  /\ Single \subseteq Word /\ Double \subseteq Word

VARIABLES
  word,     \* the word that runs
  args,     \* what it finds on the stack
  stack,    \* what it has left there
  done,     \* it has returned to NEXT
  idx, quo, rem   \* the registers of D/: IDX, {QH,QL} and {REMH,REML}

avars == <<word, args, stack, done, idx, quo, rem>>

Flag(condition) == IF condition THEN 1 ELSE 0
----------------------------------------------------------------------------
(* Doubles.  The first pop gives the second operand's high word.           *)
DAdd(s) ==
  LET low == Add(s[3], s[1])
      ah == IF low.flags.c THEN Add(s[4], 1).value ELSE s[4]
  IN  <<low.value, Add(ah, s[2]).value>>

BugBorrowForgotten(s) ==
  LET low == Sub(s[1], s[3])
  IN  <<low.value, Sub(s[2], s[4]).value>>

DSub(s) ==
  LET low == Sub(s[1], s[3])
      bh == IF low.flags.c THEN Sub(s[2], 1).value ELSE s[2]
  IN  <<low.value, Sub(bh, s[4]).value>>

(* The high word of the product of the low words is not added.             *)
DMul(s) ==
  <<Mul(s[3], s[1]).value,
    Add(Mul(s[4], s[1]).value, Mul(s[3], s[2]).value).value>>

DInvert(s) == <<Xor(s[1], Base - 1).value, Xor(s[2], Base - 1).value>>

(* One turn of the loops of D>> and D<<: the bit that leaves one word      *)
(* enters the other.                                                       *)
Halve(d) ==
  LET low == Sr(d[1], 1).value
  IN  <<IF HasBit(d[2], 0) THEN SetBit(low, Width - 1, d).value ELSE low,
    Sr(d[2], 1).value>>

Twice(d) ==
  LET low == Sl(d[1], 1)
      high == Sl(d[2], 1).value
  IN  <<low.value, IF low.flags.c THEN SetBit(high, 0, d).value ELSE high>>

Shifted(turn(_), d, n) ==
  LET after[k \in 0..n] == IF k = 0 THEN d ELSE turn(after[k - 1]) IN after[n]

DSr(s) == Shifted(Halve, <<s[1], s[2]>>, s[3])
DSl(s) == Shifted(Twice, <<s[1], s[2]>>, s[3])
----------------------------------------------------------------------------
(* Comparisons.  CMP's carry is the unsigned order of its operands, its P  *)
(* flag the sign of their difference.                                      *)
Less(a, b)     == Cmp(a, b).flags.c
Negative(a, b) == Cmp(a, b).flags.p

Lt(s)  == <<Flag(Less(s[1], s[2]))>>

BugEqualForgotten(s) == <<Flag(Less(s[1], s[2]))>>

Lte(s) == <<Flag(~Less(s[2], s[1]))>>
Gt(s)  == <<Flag(Less(s[2], s[1]))>>
Gte(s) == <<Flag(~Less(s[1], s[2]))>>

Between(s) == <<Flag(~Negative(s[1], s[3]) /\ ~Negative(s[2], s[1]))>>

BugEndsIncluded(s) == Between(s)

Within(s) ==
  <<Flag(/\ ~Negative(s[1], s[3]) /\ s[1] # s[3]
         /\ ~Negative(s[2], s[1]) /\ s[2] # s[1])>>

(* "/" is UD_DIV with a high word of 0.  A turn doubles {R1,R0}, takes R2  *)
(* from R1 and, by the sign, sets a quotient bit or gives R2 back.         *)
BugNotRestored(d, r) ==
  LET r0 == Add(r[2], r[2])
      r1 == Add(Add(r[1], r[1]).value, Flag(r0.flags.c)).value
      rest == Sub(r1, d)
  IN  IF rest.flags.s THEN <<rest.value, r0.value>>
      ELSE <<rest.value, Add(r0.value, 1).value>>

DivTurn(d, r) ==
  LET r0 == Add(r[2], r[2])
      r1 == Add(Add(r[1], r[1]).value, Flag(r0.flags.c)).value
      rest == Sub(r1, d)
  IN  IF rest.flags.s THEN <<Add(rest.value, d).value, r0.value>>
      ELSE <<rest.value, Add(r0.value, 1).value>>

Divide(s) ==
  LET turn(r) == DivTurn(s[2], r) IN <<Shifted(turn, <<0, s[1]>>, Width)[2]>>

Align(s) == <<ClrBit(Add(s[1], 1).value, 0, s).value>>
----------------------------------------------------------------------------
SingleWords == {"<", "<=", ">", ">=", "U<", "U>", "/"}
RangeWords  == {">=<", ">|<"}
DoubleWords == {"D+", "D-", "D*"}
ShiftWords  == {"D>>", "D<<"}

Arguments(w) ==
  CASE w \in SingleWords          -> Single \X Single
    [] w \in RangeWords           -> Single \X Single \X Single
    [] w \in DoubleWords \cup {"D/"} -> Double \X Double \X Double \X Double
    [] w \in ShiftWords           -> Single \X Single \X (0..(2 * Width + 1))
    [] w = "DINVERT"              -> Single \X Single
    [] w = "ALIGN"                -> {<<a>> : a \in Single}

Words == SingleWords \cup RangeWords \cup DoubleWords \cup ShiftWords \cup {"D/", "DINVERT", "ALIGN"}

Results(w, s) ==
  CASE w = "D+" -> DAdd(s) [] w = "D-" -> DSub(s) [] w = "D*" -> DMul(s)
    [] w = "D>>" -> DSr(s) [] w = "D<<" -> DSl(s) [] w = "DINVERT" -> DInvert(s)
    [] w \in {"<", "U<"} -> Lt(s) [] w \in {">", "U>"} -> Gt(s)
    [] w = "<=" -> Lte(s) [] w = ">=" -> Gte(s)
    [] w = ">=<" -> Between(s) [] w = ">|<" -> Within(s)
    [] w = "/" -> Divide(s) [] w = "ALIGN" -> Align(s)

Init ==
  /\ word \in Words
  /\ args \in Arguments(word)
  /\ stack = <<>> /\ done = FALSE
  /\ idx = 2 * Width - 1 /\ quo = <<0, 0>> /\ rem = <<0, 0>>

Execute ==
  /\ word # "D/" /\ ~done
  /\ stack' = Results(word, args)
  /\ done' = TRUE
  /\ UNCHANGED <<word, args, idx, quo, rem>>
----------------------------------------------------------------------------
(* D/ works on pairs of registers, low word first.  IDX selects a bit of   *)
(* the numerator and of the quotient; bits of the high word are at IDX-16. *)
NumBit(i) ==
  IF Cmp(i, Width).flags.c
    THEN ~BitTest(args[1], i, [z |-> FALSE]).flags.z
    ELSE ~BitTest(args[2], Sub(i, Width).value, [z |-> FALSE]).flags.z

WithBit(pair, i) ==
  IF Cmp(i, Width).flags.c
    THEN <<SetBit(pair[1], i, <<>>).value, pair[2]>>
    ELSE <<pair[1], SetBit(pair[2], Sub(i, Width).value, <<>>).value>>

BugEqualNotSubtracted(r, d) ==
  Less(d[2], r[2]) \/ (d[2] = r[2] /\ Less(d[1], r[1]))

AtLeast(r, d) ==
  Less(d[2], r[2]) \/ (d[2] = r[2] /\ (Less(d[1], r[1]) \/ d[1] = r[1]))

Minus(r, d) == DSub(<<r[1], r[2], d[1], d[2]>>)

DivLoop ==
  /\ word = "D/" /\ ~done
  /\ LET den == <<args[3], args[4]>>
         r == IF NumBit(idx) THEN WithBit(Twice(rem), 0) ELSE Twice(rem)
     IN  IF AtLeast(r, den)
           THEN rem' = Minus(r, den) /\ quo' = WithBit(quo, idx)
           ELSE rem' = r /\ UNCHANGED quo
  /\ IF idx = 0
       THEN done' = TRUE /\ stack' = quo' /\ UNCHANGED idx
       ELSE idx' = Sub(idx, 1).value /\ UNCHANGED <<done, stack>>
  /\ UNCHANGED <<word, args>>

Next == Execute \/ DivLoop

Spec == Init /\ [][Next]_avars
----------------------------------------------------------------------------
(* Doubles as numbers.                                                     *)
Num(d) == d[1] + Base * d[2]
DoubleBase == Base * Base
First == Num(<<args[1], args[2]>>)
Second == Num(<<args[3], args[4]>>)

(* Sums and differences of doubles, and products whose low words' product  *)
(* fits in a word, are right modulo 2^32, and shifts move bits across the  *)
(* words whatever the shift amount: the carry or borrow between the words  *)
(* is neither lost nor applied twice.                                      *)
DoublesCorrect ==
  done =>
    /\ word = "D+" => Num(stack) = (First + Second) % DoubleBase
    /\ word = "D-" => Num(stack) = (First - Second) % DoubleBase
    /\ word = "D*" /\ args[1] * args[3] < Base => Num(stack) = (First * Second) % DoubleBase
    /\ word = "D>>" => Num(stack) = First \div 2^args[3]
    /\ word = "D<<" => Num(stack) = (First * 2^args[3]) % DoubleBase
    /\ word = "DINVERT" => Num(stack) = DoubleBase - 1 - First

(* The comments at core.fasm:1831 and 1851 call the order words signed, but *)
(* all of them compare as unsigned words do, at equality too.  So U< and   *)
(* U> are right, and <, <=, > and >= give the order of the signed numbers  *)
(* exactly when both have the same sign, and its opposite otherwise.       *)
SignedIffSameSign(order) ==
  /\ stack[1] \in {0, 1}
  /\ stack[1] = Flag(order) <=> (Signed(args[1]) < 0 <=> Signed(args[2]) < 0)

(* The range words compare signed as long as no difference overflows: the  *)
(* value is between the upper limit, pushed first, and the lower.          *)
OrderCorrect ==
  LET x == Signed(args[1])  y == Signed(args[2])  lower == Signed(args[3])
      half == Base \div 2
  IN  done =>
        /\ word = "U<" => stack[1] = Flag(args[1] < args[2])
        /\ word = "U>" => stack[1] = Flag(args[1] > args[2])
        /\ word = "<" => SignedIffSameSign(x < y)
        /\ word = "<=" => SignedIffSameSign(x <= y)
        /\ word = ">" => SignedIffSameSign(x > y)
        /\ word = ">=" => SignedIffSameSign(x >= y)
        /\ word \in RangeWords /\ x - lower \in -half..(half - 1) /\ y - x \in -half..(half - 1) =>
             stack[1] = Flag(IF word = ">=<" THEN lower <= x /\ x <= y ELSE lower < x /\ x < y)

(* "/" divides by everything from 1 to half of what a word holds: up to    *)
(* there the sign of a difference is the borrow it is taken for.           *)
DivideCorrect ==
  done /\ word = "/" /\ args[2] \in 1..(Base \div 2) => stack = <<args[1] \div args[2]>>

(* D/ implements the long division that its comment describes, for every   *)
(* denominator but 0.                                                      *)
Dividing == word = "D/" /\ Second # 0
Left == IF ~Dividing THEN 2 * Width ELSE IF done THEN 0 ELSE idx + 1

Long == INSTANCE LongDivision WITH
  NumeratorBits <- 2 * Width,
  left <- Left,
  prefix <- [k \in 0..(2 * Width) |-> IF Dividing THEN First \div 2^k ELSE 0],
  denominator <- IF Dividing THEN Second ELSE 1,
  quotient <- IF Dividing THEN Num(quo) \div 2^Left ELSE 0,
  remainder <- IF Dividing THEN Num(rem) ELSE 0

DivisionIsLong == Long!LongSpec
============================================================================
