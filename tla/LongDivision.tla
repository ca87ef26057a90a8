---------------------------- MODULE LongDivision ---------------------------
(***************************************************************************)
(* The division that the comment above D/ describes (fasm/core.fasm        *)
(* 1522-1535): from the highest bit of the numerator to the lowest, bring  *)
(* one bit down to the remainder and subtract the denominator if it goes.  *)
(* The quotient is kept as the bits found so far.                          *)
(***************************************************************************)
EXTENDS Integers

CONSTANT NumeratorBits   \* how many bits a numerator has

VARIABLES
  left,         \* how many bits have not been brought down
  prefix,       \* prefix[k] is the numerator without its lowest k bits
  denominator,
  quotient,
  remainder

(* A numerator is given by its prefixes, from none of its bits to all.     *)
IsNumerator(f) ==
  /\ NumeratorBits \in Nat /\ f \in [0..NumeratorBits -> Nat] /\ f[NumeratorBits] = 0
  /\ \A k \in 0..(NumeratorBits - 1) : f[k] = 2 * f[k + 1] \/ f[k] = 2 * f[k + 1] + 1

LongInit ==
  /\ IsNumerator(prefix)
  /\ denominator \in Nat \ {0}
  /\ left = NumeratorBits /\ quotient = 0 /\ remainder = 0

NextDown == prefix[left - 1] - 2 * prefix[left]

BringDown ==
  /\ left > 0
  /\ LET r == 2 * remainder + NextDown
     IN  \/ r >= denominator /\ remainder' = r - denominator /\ quotient' = 2 * quotient + 1
         \/ r < denominator /\ remainder' = r /\ quotient' = 2 * quotient
  /\ left' = left - 1
  /\ UNCHANGED <<prefix, denominator>>

longVars == <<left, prefix, denominator, quotient, remainder>>

LongSpec == LongInit /\ [][BringDown]_longVars
----------------------------------------------------------------------------
(* At every stage the bits brought down so far are divided: the invariant  *)
(* that makes long division work.                                          *)
DividedSoFar ==
  /\ IsNumerator(prefix) /\ denominator \in Nat \ {0} /\ left \in 0..NumeratorBits
  /\ quotient \in Nat /\ remainder \in Nat
  /\ remainder < denominator
  /\ prefix[left] = quotient * denominator + remainder

(* At the end quotient and remainder are those of the whole numerator.     *)
Divides ==
  left = 0 =>
    /\ prefix[0] = quotient * denominator + remainder
    /\ remainder \in 0..(denominator - 1)
============================================================================
