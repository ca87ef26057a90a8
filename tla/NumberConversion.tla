-------------------------- MODULE NumberConversion --------------------------
(***************************************************************************)
(* The kernel's numbers as text: SYSCALL_DOT prints a word in the current  *)
(* base, and SYSCALL_NUMBER makes a word of a token.  A step is a turn of  *)
(* one of their loops, and typing back what was printed.                   *)
(*                                                                         *)
(* Characters are their codes.  A token lies in memory at the dictionary   *)
(* pointer, and what earlier tokens left lies beyond it.  UD_DIV divides,  *)
(* see MCForthVM, and TX_BYTE sends what it is given, see Terminal.        *)
(***************************************************************************)
EXTENDS Integers, Sequences

CONSTANTS
  Values,   \* words to print
  Tokens,   \* tokens to read, sequences of characters
  Beyond    \* what may follow a token in memory

Size == 65536
W(n) == n % Size
Byte == 0..255

(* A token and what follows it are in memory, which holds Size bytes.      *)
ASSUME NumberAssumption ==
  /\ Values \subseteq 0..(Size - 1) /\ Tokens \subseteq Seq(Byte) /\ Beyond \subseteq Seq(Byte)
  /\ \A t \in Tokens, b \in Beyond : Len(t) + Len(b) < Size

VARIABLES
  at,               \* the routine or loop to go on with, "done", "failed" or "astray"
  asked,            \* what DOT was called with
  val, idx,         \* DOT: what is left of the value, and of the count
  digits, out,      \* its digits on the data stack, top first; what was printed
  token, beyond,    \* NUMBER: the token and what follows it
  dp, len,          \* the next character, and how many are left
  base, sign, num

dotvars == <<val, idx, digits, out>>
numvars == <<dp, len, base, sign, num>>
vars == <<at, asked, dotvars, token, beyond, numvars>>

Minus == 45  Zero == 48  Quote == 39  Backslash == 92  LowerB == 98  LowerX == 120

Request == [val : Values, base : {2, 8, 10, 16}, signed : BOOLEAN]
----------------------------------------------------------------------------
(* SYSCALL_DOT: any base but 2 and 16 is decimal.  (Bug definitions are    *)
(* mutants of the next.)                                                   *)
BugKeepsNegative ==
  /\ at = "dot"
  /\ at' = CASE asked.base = 2 -> "bits" [] asked.base = 16 -> "hex" [] OTHER -> "divide"
  /\ idx' = CASE asked.base = 2 -> 16 [] asked.base = 16 -> 4 [] OTHER -> 0
  /\ IF asked.base \notin {2, 16} /\ asked.signed /\ val >= Size \div 2
       THEN out' = <<Minus>>
       ELSE UNCHANGED out
  /\ UNCHANGED <<asked, val, digits, token, beyond, numvars>>

Dot ==
  /\ at = "dot"
  /\ at' = CASE asked.base = 2 -> "bits" [] asked.base = 16 -> "hex" [] OTHER -> "divide"
  /\ idx' = CASE asked.base = 2 -> 16 [] asked.base = 16 -> 4 [] OTHER -> 0
  /\ IF asked.base \notin {2, 16} /\ asked.signed /\ val >= Size \div 2
       THEN out' = <<Minus>> /\ val' = W(-val)
       ELSE UNCHANGED <<out, val>>
  /\ UNCHANGED <<asked, digits, token, beyond, numvars>>

(* The remainders, the last digit first, and then what was pushed, from    *)
(* the top of the stack.                                                   *)
Divide ==
  /\ at = "divide"
  /\ digits' = <<Zero + (val % 10)>> \o digits
  /\ val' = val \div 10
  /\ at' = IF val' = 0 THEN "print" ELSE "divide"
  /\ UNCHANGED <<asked, idx, out, token, beyond, numvars>>

PrintDigit ==
  /\ at = "print"
  /\ out' = Append(out, Head(digits)) /\ digits' = Tail(digits)
  /\ at' = IF digits' = <<>> THEN "printed" ELSE "print"
  /\ UNCHANGED <<asked, val, idx, token, beyond, numvars>>

HexDigit ==
  /\ at = "hex"
  /\ LET d == val \div 4096
     IN  out' = Append(out, IF d < 10 THEN Zero + d ELSE 97 + d - 10)
  /\ val' = W(val * 16) /\ idx' = idx - 1
  /\ at' = IF idx' = 0 THEN "printed" ELSE "hex"
  /\ UNCHANGED <<asked, digits, token, beyond, numvars>>

(* The branch for a 1 saves neither the value nor the count, and what is   *)
(* restored after it is the return address and what the caller had saved.  *)
Bit ==
  /\ at = "bits"
  /\ idx' = idx - 1
  /\ IF val >= Size \div 2
       THEN at' = "astray" /\ out' = Append(out, Zero + 1) /\ UNCHANGED val
       ELSE /\ out' = Append(out, Zero) /\ val' = W(val * 2)
            /\ at' = IF idx' = 0 THEN "printed" ELSE "bits"
  /\ UNCHANGED <<asked, digits, token, beyond, numvars>>

(* The user types what was printed, with the prefix of its base.           *)
TypeBack ==
  /\ at = "printed"
  /\ token' = (CASE asked.base = 2 -> <<Zero, LowerB>>
                 [] asked.base = 16 -> <<Zero, LowerX>>
                 [] OTHER -> <<>>) \o out
  /\ at' = "number"
  /\ UNCHANGED <<asked, dotvars, beyond, numvars>>
----------------------------------------------------------------------------
(* The byte at a place of the token or beyond it.                          *)
Char(k) == LET t == token \o beyond IN IF k <= Len(t) THEN t[k] ELSE 0

(* C_TO_I: carries compare unsigned, so that a difference below 0 is large *)
C_TO_I(c) ==
  LET d == W(c - 48)  u == W(d - 7)  l == W(u - 32)
  IN  IF c < Zero THEN -1
      ELSE IF d < 10 THEN d
      ELSE IF u < 10 THEN -1
      ELSE IF u < 16 THEN u
      ELSE IF l \in 10..15 THEN l
      ELSE -1

(* SYSCALL_NUMBER: sign, quote and prefix.  After a prefix nothing looks   *)
(* whether characters are left.                                            *)
Number ==
  LET n == Len(token)
      prefixed(c) == n > 1 /\ Char(1) = Zero /\ Char(2) = c
      hex == prefixed(LowerX)  bin == prefixed(LowerB)
      signed == n > 1 /\ Char(1) = Minus
      quoted == n > 1 /\ Char(1) = Quote
      skipped == IF hex \/ bin THEN 2 ELSE IF signed \/ quoted \/ (n > 1 /\ Char(1) = Zero) THEN 1 ELSE 0
  IN  /\ at = "number"
      /\ num' = 0 /\ sign' = signed
      /\ base' = IF hex THEN 16 ELSE IF bin THEN 2 ELSE 10
      /\ dp' = skipped + 1 /\ len' = n - skipped
      /\ at' = IF n = 0 THEN "failed" ELSE IF quoted THEN "literal" ELSE "convert"
      /\ UNCHANGED <<asked, dotvars, token, beyond>>

BugBaseIsADigit ==
  LET d == C_TO_I(Char(dp))
  IN  /\ at = "convert"
      /\ IF d = -1 \/ d > base
           THEN at' = "failed" /\ UNCHANGED <<dp, len, num>>
           ELSE LET n == W(num * base + d)
                IN  /\ dp' = dp + 1 /\ len' = W(len - 1)
                    /\ at' = IF len' = 0 THEN "done" ELSE "convert"
                    /\ num' = IF len' = 0 /\ sign THEN W(-n) ELSE n
      /\ UNCHANGED <<asked, dotvars, token, beyond, base, sign>>

Convert ==
  LET d == C_TO_I(Char(dp))
  IN  /\ at = "convert"
      /\ IF d = -1 \/ d >= base
           THEN at' = "failed" /\ UNCHANGED <<dp, len, num>>
           ELSE LET n == W(num * base + d)
                IN  /\ dp' = dp + 1 /\ len' = W(len - 1)
                    /\ at' = IF len' = 0 THEN "done" ELSE "convert"
                    /\ num' = IF len' = 0 /\ sign THEN W(-n) ELSE n
      /\ UNCHANGED <<asked, dotvars, token, beyond, base, sign>>

(* A character between quotes is read as a word, with the byte behind it.  *)
(* After a backslash the character is not loaded again: what is looked for *)
(* and found is the backslash.                                             *)
Literal ==
  LET escaped == Char(dp) = Backslash
      p == IF escaped THEN dp + 1 ELSE dp
      left == IF escaped THEN len - 1 ELSE len
      closed == Char(p + 1) = Quote /\ W(left - 2) = 0
  IN  /\ at = "literal"
      /\ num' = IF escaped THEN Backslash ELSE Char(dp) + 256 * Char(dp + 1)
      /\ at' = IF (escaped /\ left = 0) \/ ~closed THEN "failed" ELSE "done"
      /\ UNCHANGED <<asked, dotvars, token, beyond, dp, len, base, sign>>
----------------------------------------------------------------------------
Init ==
  /\ beyond \in Beyond
  /\ \/ at = "dot" /\ asked \in Request /\ token = <<>>
     \/ at = "number" /\ asked = [val |-> 0, base |-> 10, signed |-> TRUE] /\ token \in Tokens
  /\ val = asked.val /\ idx = 0 /\ digits = <<>> /\ out = <<>>
  /\ dp = 1 /\ len = 0 /\ base = 10 /\ sign = FALSE /\ num = 0

Next == Dot \/ Divide \/ PrintDigit \/ HexDigit \/ Bit \/ TypeBack \/ Number \/ Convert \/ Literal

Spec == Init /\ [][Next]_vars
----------------------------------------------------------------------------
Answered == at \in {"done", "failed"}

(* What DOT prints of a word, signed, unsigned or in hexadecimal, NUMBER   *)
(* reads as the same word, the most negative number included.  (Binary     *)
(* gets that far only without a 1.)                                        *)
ReadsBackAsPrinted == Answered /\ out # <<>> => at = "done" /\ num = asked.val

(* The notations of the comment above NUMBER, by what they look like.      *)
Digit(c) == IF c < 58 THEN c - 48 ELSE ((c - 65) % 32) + 10
Digits(b) == {c \in (48..57) \cup (65..70) \cup (97..102) : Digit(c) < b}
Denotes(t, k, b) ==
  LET upto[i \in (k - 1)..Len(t)] ==
        IF i = k - 1 THEN 0 ELSE W(upto[i - 1] * b + Digit(t[i]))
  IN  upto[Len(t)]
Written(t, k, b) == Len(t) >= k /\ \A i \in k..Len(t) : t[i] \in Digits(b)

IsDecimal(t) == Written(t, 1, 10)
IsNegative(t) == Len(t) > 0 /\ t[1] = Minus /\ Written(t, 2, 10)
IsPrefixed(t, c, b) == Len(t) > 2 /\ t[1] = Zero /\ t[2] = c /\ Written(t, 3, b)
IsCharacter(t) == Len(t) = 3 /\ t[1] = Quote /\ t[2] # Backslash /\ t[3] = Quote
IsEscape(t) == Len(t) = 4 /\ t[1] = Quote /\ t[2] = Backslash /\ t[4] = Quote
IsLiteral(t) == IsCharacter(t) \/ IsEscape(t)

(* What the comment in NUMBER (core.fasm:563) says the escapes stand for.  *)
Meaning == [c \in {48, 92, 110, 114, 116} |->
  CASE c = 48 -> 0 [] c = 92 -> 92 [] c = 110 -> 10 [] c = 114 -> 13 [] c = 116 -> 9]

(* What literals are read as.  Of a character the low byte is its code,    *)
(* but the quote that closes it is in the high byte.  Every escape, listed *)
(* there or not, is the backslash, so that of those listed only '\\' has   *)
(* its meaning.                                                            *)
LiteralRead ==
  /\ IsCharacter(token) => num = token[2] + 256 * Quote
  /\ IsEscape(token) =>
       /\ num = Backslash
       /\ token[3] \in DOMAIN Meaning => (num = Meaning[token[3]] <=> token[3] = Backslash)

(* NUMBER takes exactly the tokens written in one of the documented ways,  *)
(* an escape of anything among them, whatever lies beyond them in memory,  *)
(* and gives the number written, modulo 2^16, but for the literals, which  *)
(* it misreads as LiteralRead says.                                        *)
NumbersAsWritten ==
  Answered /\ out = <<>> =>
    /\ at = "done" <=> IsDecimal(token) \/ IsNegative(token) \/ IsPrefixed(token, LowerX, 16)
                         \/ IsPrefixed(token, LowerB, 2) \/ IsLiteral(token)
    /\ IsDecimal(token) => num = Denotes(token, 1, 10)
    /\ IsNegative(token) => num = W(-Denotes(token, 2, 10))
    /\ IsPrefixed(token, LowerX, 16) => num = Denotes(token, 3, 16)
    /\ IsPrefixed(token, LowerB, 2) => num = Denotes(token, 3, 2)
    /\ IsLiteral(token) => LiteralRead
============================================================================
