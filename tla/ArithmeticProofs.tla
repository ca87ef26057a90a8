-------------------------- MODULE ArithmeticProofs -------------------------
(* The kernel's arithmetic words compute what they should, for words of    *)
(* any width, and long division divides, for numerators of any length.     *)
EXTENDS Arithmetic, LongDivision, LeastNumber

(* Half of what a word holds: the value of its sign bit.                   *)
Half == 2^(Width - 1)

(* A word holds an even number of values, and the index of a bit of a      *)
(* double fits in a word.                                                  *)
LEMMA BaseFacts ==
  /\ Width \in Nat /\ Width >= 2 /\ Half \in Nat \ {0}
  /\ Base \in Nat /\ Base = 2 * Half /\ 2 * Width <= Base
<1>1. Width \in Nat /\ Width >= 2
  BY ALUAssumption, ArithmeticAssumption DEF ALUAssumption, ArithmeticAssumption
<1>2. Half \in Nat \ {0} /\ Base = 2 * Half
  <2>1. (Width - 1) + 1 = Width /\ Width - 1 \in Nat
    BY <1>1
  <2>2. QED BY <2>1, PowerStep DEF Half, Base
<1>3. Base % (2 * Width) = 0
  BY ArithmeticAssumption DEF ArithmeticAssumption
<1>4. Base \in Nat \ {0}
  BY <1>2
<1>5. ~(Base < 2 * Width)
  BY <1>1, <1>3, <1>4
<1>6. QED BY <1>1, <1>2, <1>4, <1>5

(* A number between minus one word and two words, taken apart.             *)
LEMMA WordOf ==
  ASSUME NEW v \in (-Base)..(2 * Base - 1)
  PROVE  /\ v \div Base = IF v < 0 THEN -1 ELSE IF v < Base THEN 0 ELSE 1
         /\ v % Base = IF v < 0 THEN v + Base ELSE IF v < Base THEN v ELSE v - Base
<1>1. Base \in Nat \ {0} /\ v \in Int
  BY BaseFacts
<1>2. CASE v < 0
  <2>1. v + Base \in 0..(Base - 1) /\ v = Base * (-1) + (v + Base)
    BY <1>1, <1>2
  <2>2. QED BY <1>1, <1>2, <2>1, DivisionUnique
<1>3. CASE v >= 0 /\ v < Base
  BY <1>1, <1>3
<1>4. CASE v >= Base
  <2>1. v - Base \in 0..(Base - 1) /\ v = Base * 1 + (v - Base) /\ ~(v < 0) /\ ~(v < Base)
    BY <1>1, <1>4
  <2>2. QED BY <1>1, <2>1, DivisionUnique
<1>5. QED BY <1>1, <1>2, <1>3, <1>4

(* SUB subtracts modulo the word, and its carry, like that of CMP, is the  *)
(* borrow.                                                                 *)
LEMMA Compared ==
  ASSUME NEW a \in Word, NEW b \in Word
  PROVE  /\ Less(a, b) <=> a < b
         /\ Sub(a, b).flags.c <=> a < b
         /\ Sub(a, b).value = IF a < b THEN a - b + Base ELSE a - b
         /\ Sub(a, b).value \in Word
<1>1. a - b \in (-Base)..(2 * Base - 1) /\ a \in Int /\ b \in Int /\ Base \in Nat \ {0}
  BY BaseFacts DEF Word
<1>2. /\ (a - b) \div Base = IF a < b THEN -1 ELSE 0
      /\ (a - b) % Base = IF a < b THEN a - b + Base ELSE a - b
  BY <1>1, WordOf DEF Word
<1>3. HasBit(a - b, Width) <=> a < b
  BY <1>1, <1>2 DEF HasBit, Base
<1>4. Sub(a, b).value = (a - b) % Base /\ Sub(a, b).flags.c = HasBit(a - b, Width)
  BY DEF Sub, Result, ArithmeticFlags
<1>5. Less(a, b) = HasBit(a - b, Width)
  BY DEF Less, Cmp, Result, CmpFlags
<1>6. Sub(a, b).value \in Word
  BY <1>1, <1>4 DEF Word
<1>7. QED BY <1>2, <1>3, <1>4, <1>5, <1>6

(* ADD adds modulo the word, and its carry says that the sum is too large. *)
LEMMA Added ==
  ASSUME NEW a \in Word, NEW b \in Word
  PROVE  /\ Add(a, b).flags.c <=> a + b >= Base
         /\ Add(a, b).value = IF a + b >= Base THEN a + b - Base ELSE a + b
         /\ Add(a, b).value \in Word
<1>1. a + b \in (-Base)..(2 * Base - 1) /\ a \in Nat /\ b \in Nat /\ Base \in Nat \ {0}
  BY BaseFacts DEF Word
<1>2. /\ (a + b) \div Base = IF a + b >= Base THEN 1 ELSE 0
      /\ (a + b) % Base = IF a + b >= Base THEN a + b - Base ELSE a + b
  BY <1>1, WordOf
<1>3. HasBit(a + b, Width) <=> a + b >= Base
  BY <1>1, <1>2 DEF HasBit, Base
<1>4. Add(a, b).value = (a + b) % Base /\ Add(a, b).flags.c = HasBit(a + b, Width)
  BY DEF Add, Result, ArithmeticFlags
<1>5. Add(a, b).value \in Word
  BY <1>1, <1>4 DEF Word
<1>6. QED BY <1>2, <1>3, <1>4, <1>5

(* The sign bit of a difference of two words.                              *)
LEMMA SignBit ==
  ASSUME NEW v \in (-Base)..(Base - 1)
  PROVE  HasBit(v, Width - 1) <=> (-Half <= v /\ v < 0) \/ Half <= v
<1>1. v \in Int /\ Half \in Nat \ {0} /\ -(2 * Half) <= v /\ v < 2 * Half
  BY BaseFacts
<1>2. (v \div Half) = IF v < -Half THEN -2 ELSE IF v < 0 THEN -1 ELSE IF v < Half THEN 0 ELSE 1
  <2>1. CASE v < -Half
    <3>1. v + 2 * Half \in 0..(Half - 1) /\ v = Half * (-2) + (v + 2 * Half)
      BY <1>1, <2>1
    <3>2. v \div Half = -2
      BY <1>1, <3>1, DivisionUnique
    <3>3. QED BY <2>1, <3>2
  <2>2. CASE -Half <= v /\ v < 0
    <3>1. v + Half \in 0..(Half - 1) /\ v = Half * (-1) + (v + Half)
      BY <1>1, <2>2
    <3>2. v \div Half = -1
      BY <1>1, <3>1, DivisionUnique
    <3>3. QED BY <1>1, <2>2, <3>2
  <2>3. CASE 0 <= v /\ v < Half
    BY <1>1, <2>3
  <2>4. CASE Half <= v
    <3>1. v - Half \in 0..(Half - 1) /\ v = Half * 1 + (v - Half)
      BY <1>1, <2>4
    <3>2. v \div Half = 1
      BY <1>1, <3>1, DivisionUnique
    <3>3. QED BY <1>1, <2>4, <3>2
  <2>5. QED BY <1>1, <2>1, <2>2, <2>3, <2>4
<1>3. QED BY <1>1, <1>2 DEF HasBit, Half

(* A word as a signed number is less than half of what a word holds.       *)
LEMMA SignedOf ==
  ASSUME NEW w \in Word
  PROVE  /\ Signed(w) = IF Half <= w THEN w - Base ELSE w
         /\ Signed(w) \in (-Half)..(Half - 1)
<1>1. w \in (-Base)..(Base - 1) /\ w \in Nat /\ w < Base /\ Half \in Nat /\ Base = 2 * Half
  BY BaseFacts DEF Word
<1>2. HasBit(w, Width - 1) <=> Half <= w
  BY <1>1, SignBit
<1>3. QED BY <1>1, <1>2 DEF Signed

(* The P flag of CMP is the signed order while the difference fits.        *)
LEMMA NegativeIsLess ==
  ASSUME NEW a \in Word, NEW b \in Word, Signed(a) - Signed(b) \in (-Half)..(Half - 1)
  PROVE  /\ Negative(a, b) <=> Signed(a) < Signed(b)
         /\ a = b <=> Signed(a) = Signed(b)
<1>1. /\ a - b \in (-Base)..(Base - 1) /\ Half \in Nat \ {0} /\ Base = 2 * Half
      /\ a \in Nat /\ b \in Nat /\ a < Base /\ b < Base
  BY BaseFacts DEF Word
<1>2. Negative(a, b) <=> HasBit(a - b, Width - 1)
  <2>1. Negative(a, b) = (HasBit(a - b, Width - 1) /\ (a # b \/ a - b # 0))
    BY DEF Negative, Cmp, Result, CmpFlags
  <2>2. HasBit(a - b, Width - 1) => a # b
    BY <1>1, SignBit
  <2>3. QED BY <2>1, <2>2
<1>3. HasBit(a - b, Width - 1) <=> (-Half <= a - b /\ a - b < 0) \/ Half <= a - b
  BY <1>1, SignBit
<1>4. /\ Signed(a) = IF Half <= a THEN a - Base ELSE a
      /\ Signed(b) = IF Half <= b THEN b - Base ELSE b
  BY SignedOf
<1>5. QED BY <1>1, <1>2, <1>3, <1>4

(* The order words.                                                        *)
LEMMA OrderWords ==
  ASSUME NEW s, s[1] \in Word, s[2] \in Word
  PROVE  /\ Lt(s)[1] = Flag(s[1] < s[2]) /\ Lte(s)[1] = Flag(s[1] <= s[2])
         /\ Gt(s)[1] = Flag(s[1] > s[2]) /\ Gte(s)[1] = Flag(s[1] >= s[2])
<1>1. /\ Less(s[1], s[2]) <=> s[1] < s[2]
      /\ Less(s[2], s[1]) <=> s[2] < s[1]
  BY Compared
<1>2. s[1] \in Int /\ s[2] \in Int
  BY BaseFacts DEF Word
<1>3. QED BY <1>1, <1>2 DEF Lt, Lte, Gt, Gte, Flag

(* Unsigned order is signed order between numbers of one sign, and its     *)
(* opposite between numbers of two.                                        *)
LEMMA SignedOrder ==
  ASSUME NEW a \in Word, NEW b \in Word
  PROVE  /\ ((a < b) <=> (Signed(a) < Signed(b))) <=> (Signed(a) < 0 <=> Signed(b) < 0)
         /\ ((a <= b) <=> (Signed(a) <= Signed(b))) <=> (Signed(a) < 0 <=> Signed(b) < 0)
<1>1. /\ a \in Nat /\ b \in Nat /\ a < Base /\ b < Base
      /\ Half \in Nat \ {0} /\ Base = 2 * Half
  BY BaseFacts DEF Word
<1>2. /\ Signed(a) = IF Half <= a THEN a - Base ELSE a
      /\ Signed(b) = IF Half <= b THEN b - Base ELSE b
  BY SignedOf
<1> DEFINE x == Signed(a)
           y == Signed(b)
<1>3. /\ Half <= a => x = a - Base /\ x < 0
      /\ ~(Half <= a) => x = a /\ ~(x < 0)
      /\ Half <= b => y = b - Base /\ y < 0
      /\ ~(Half <= b) => y = b /\ ~(y < 0)
  BY <1>1, <1>2
<1> HIDE DEF x, y
<1>4. CASE Half <= a /\ Half <= b
  BY <1>1, <1>3, <1>4 DEF x, y
<1>5. CASE ~(Half <= a) /\ ~(Half <= b)
  BY <1>1, <1>3, <1>5 DEF x, y
<1>6. CASE Half <= a /\ ~(Half <= b)
  <2>1. b < a /\ x < y /\ x < 0 /\ ~(y < 0)
    BY <1>1, <1>3, <1>6
  <2>2. QED BY <1>1, <1>3, <1>6, <2>1 DEF x, y
<1>7. CASE ~(Half <= a) /\ Half <= b
  <2>1. a < b /\ y < x /\ ~(x < 0) /\ y < 0
    BY <1>1, <1>3, <1>7
  <2>2. QED BY <1>1, <1>3, <1>7, <2>1 DEF x, y
<1>8. QED BY <1>4, <1>5, <1>6, <1>7

(* The range words.                                                        *)
LEMMA RangeOrder ==
  ASSUME NEW s, s[1] \in Word, s[2] \in Word, s[3] \in Word,
         Signed(s[1]) - Signed(s[3]) \in (-Half)..(Half - 1),
         Signed(s[2]) - Signed(s[1]) \in (-Half)..(Half - 1)
  PROVE  /\ Between(s)[1] = Flag(Signed(s[3]) <= Signed(s[1]) /\ Signed(s[1]) <= Signed(s[2]))
         /\ Within(s)[1] = Flag(Signed(s[3]) < Signed(s[1]) /\ Signed(s[1]) < Signed(s[2]))
<1>1. /\ Negative(s[1], s[3]) <=> Signed(s[1]) < Signed(s[3])
      /\ Negative(s[2], s[1]) <=> Signed(s[2]) < Signed(s[1])
      /\ s[1] = s[3] <=> Signed(s[1]) = Signed(s[3])
      /\ s[2] = s[1] <=> Signed(s[2]) = Signed(s[1])
  BY NegativeIsLess
<1>2. Signed(s[1]) \in Int /\ Signed(s[2]) \in Int /\ Signed(s[3]) \in Int
  BY SignedOf, BaseFacts
<1>3. QED BY <1>1, <1>2 DEF Between, Within, Flag

(* A double: its low word and its high word.                               *)
IsDouble(d) == d[1] \in Word /\ d[2] \in Word

(* A double stands for a number below the square of the base.              *)
LEMMA DoubleFacts ==
  ASSUME NEW d, IsDouble(d)
  PROVE  /\ d[1] \in Nat /\ d[2] \in Nat /\ d[1] < Base /\ d[2] < Base
         /\ Num(d) \in 0..(DoubleBase - 1) /\ Num(d) = d[1] + Base * d[2]
         /\ DoubleBase \in Nat \ {0} /\ DoubleBase = Base * Base
<1>1. d[1] \in Nat /\ d[2] \in Nat /\ d[1] < Base /\ d[2] < Base /\ Base \in Nat \ {0}
  BY BaseFacts DEF IsDouble, Word
<1>2. Base * d[2] <= Base * (Base - 1) /\ Base * (Base - 1) = Base * Base - Base
  BY <1>1
<1>3. Base * d[2] \in Nat /\ Base * Base \in Nat \ {0}
  BY <1>1
<1>4. QED BY <1>1, <1>2, <1>3 DEF Num, DoubleBase

(* The constants that the kernel's loops add and subtract fit in a word.   *)
LEMMA OneIsWord == 1 \in Word /\ 0 \in Word
BY BaseFacts DEF Word

(* D+: the carry enters the high words once.                               *)
LEMMA DAddNum ==
  ASSUME NEW s, s[1] \in Word, s[2] \in Word, s[3] \in Word, s[4] \in Word
  PROVE  /\ IsDouble(DAdd(s))
         /\ Num(DAdd(s)) = (Num(<<s[1], s[2]>>) + Num(<<s[3], s[4]>>)) % DoubleBase
<1> DEFINE low == Add(s[3], s[1])
           ah == IF low.flags.c THEN Add(s[4], 1).value ELSE s[4]
           high == Add(ah, s[2]).value
           carry == IF s[1] + s[3] >= Base THEN 1 ELSE 0
<1>1. /\ s[1] \in Nat /\ s[2] \in Nat /\ s[3] \in Nat /\ s[4] \in Nat /\ Base \in Nat \ {0}
      /\ s[1] < Base /\ s[2] < Base /\ s[3] < Base /\ s[4] < Base
  BY BaseFacts DEF Word
<1>2. DAdd(s) = <<low.value, high>>
  BY DEF DAdd
<1>3. low.value \in Word /\ low.value = s[1] + s[3] - carry * Base /\ (low.flags.c <=> carry = 1)
  BY <1>1, Added
<1>4. ah \in Word /\ high \in Word
  <2>1. ah \in Word
    BY <1>1, OneIsWord, Added
  <2> HIDE DEF ah
  <2>2. QED BY <2>1, Added
<1>5. \E k \in {0, 1} : high = s[4] + carry + s[2] - k * Base
  <2>1. \E j \in {0, 1} : ah = s[4] + carry - j * Base /\ (j = 1 => ah = 0)
    <3>1. CASE low.flags.c
      <4>1. carry = 1 /\ ah = Add(s[4], 1).value
        BY <1>3, <3>1
      <4>2. ah = IF s[4] + 1 >= Base THEN s[4] + 1 - Base ELSE s[4] + 1
        BY <4>1, OneIsWord, Added
      <4> HIDE DEF ah, carry
      <4>3. QED BY <1>1, <4>1, <4>2
    <3>2. CASE ~low.flags.c
      <4>1. carry = 0 /\ ah = s[4]
        BY <1>3, <3>2
      <4> HIDE DEF ah, carry
      <4>2. QED BY <1>1, <4>1
    <3>3. QED BY <3>1, <3>2
  <2> HIDE DEF ah
  <2>2. high = IF ah + s[2] >= Base THEN ah + s[2] - Base ELSE ah + s[2]
    BY <1>4, Added
  <2>3. ah \in Nat /\ carry \in Nat
    BY <1>4 DEF Word
  <2> HIDE DEF high, carry
  <2>4. PICK j \in {0, 1} : ah = s[4] + carry - j * Base /\ (j = 1 => ah = 0)
    BY <2>1
  <2>5. CASE j = 0
    BY <1>1, <2>2, <2>3, <2>4, <2>5
  <2>6. CASE j = 1
    BY <1>1, <2>2, <2>3, <2>4, <2>6
  <2>7. QED BY <2>4, <2>5, <2>6
<1>6. IsDouble(DAdd(s))
  BY <1>2, <1>3, <1>4 DEF IsDouble
<1>7. PICK k \in {0, 1} : high = s[4] + carry + s[2] - k * Base
  BY <1>5
<1>8. carry \in {0, 1}
  OBVIOUS
<1> HIDE DEF low, ah, high, carry
<1>9. Num(DAdd(s)) = (s[1] + s[3] - carry * Base) + Base * (s[4] + carry + s[2] - k * Base)
  BY <1>2, <1>3, <1>7 DEF Num
<1>10. @ = (s[1] + Base * s[2]) + (s[3] + Base * s[4]) - k * (Base * Base)
  <2>1. s[1] \in Int /\ s[2] \in Int /\ s[3] \in Int /\ s[4] \in Int /\ Base \in Int
    BY <1>1
  <2>2. carry \in Int /\ k \in Int
    BY <1>8
  <2>3. QED BY <2>1, <2>2
<1>11. Num(<<s[1], s[2]>>) + Num(<<s[3], s[4]>>) = DoubleBase * k + Num(DAdd(s))
  <2>1. Base * s[2] \in Nat /\ Base * s[4] \in Nat /\ Base * Base \in Nat
    BY <1>1
  <2>2. k * (Base * Base) = (Base * Base) * k /\ (Base * Base) * k \in Int
    BY <2>1
  <2>3. QED BY <1>1, <1>9, <1>10, <2>1, <2>2 DEF Num, DoubleBase
<1>12. QED BY <1>6, <1>11, DoubleFacts, DivisionUnique

(* D-: the borrow leaves the high words once.                              *)
LEMMA DSubNum ==
  ASSUME NEW s, s[1] \in Word, s[2] \in Word, s[3] \in Word, s[4] \in Word
  PROVE  /\ IsDouble(DSub(s))
         /\ Num(DSub(s)) = (Num(<<s[1], s[2]>>) - Num(<<s[3], s[4]>>)) % DoubleBase
<1> DEFINE low == Sub(s[1], s[3])
           bh == IF low.flags.c THEN Sub(s[2], 1).value ELSE s[2]
           high == Sub(bh, s[4]).value
           borrow == IF s[1] < s[3] THEN 1 ELSE 0
<1>1. /\ s[1] \in Nat /\ s[2] \in Nat /\ s[3] \in Nat /\ s[4] \in Nat /\ Base \in Nat \ {0}
      /\ s[1] < Base /\ s[2] < Base /\ s[3] < Base /\ s[4] < Base
  BY BaseFacts DEF Word
<1>2. DSub(s) = <<low.value, high>>
  BY DEF DSub
<1>3. low.value \in Word /\ low.value = s[1] - s[3] + borrow * Base /\ (low.flags.c <=> borrow = 1)
  BY <1>1, Compared
<1>4. bh \in Word /\ high \in Word
  <2>1. bh \in Word
    BY <1>1, OneIsWord, Compared
  <2> HIDE DEF bh
  <2>2. QED BY <2>1, Compared
<1>5. \E k \in {0, 1} : high = s[2] - borrow - s[4] + k * Base
  <2>1. \E j \in {0, 1} : bh = s[2] - borrow + j * Base /\ (j = 1 => bh = Base - 1)
    <3>1. CASE low.flags.c
      <4>1. borrow = 1 /\ bh = Sub(s[2], 1).value
        BY <1>3, <3>1
      <4>2. bh = IF s[2] < 1 THEN s[2] - 1 + Base ELSE s[2] - 1
        BY <4>1, OneIsWord, Compared
      <4> HIDE DEF bh, borrow
      <4>3. QED BY <1>1, <4>1, <4>2
    <3>2. CASE ~low.flags.c
      <4>1. borrow = 0 /\ bh = s[2]
        BY <1>3, <3>2
      <4> HIDE DEF bh, borrow
      <4>2. QED BY <1>1, <4>1
    <3>3. QED BY <3>1, <3>2
  <2> HIDE DEF bh
  <2>2. high = IF bh < s[4] THEN bh - s[4] + Base ELSE bh - s[4]
    BY <1>4, Compared
  <2>3. bh \in Nat /\ borrow \in Nat
    BY <1>4 DEF Word
  <2> HIDE DEF high, borrow
  <2>4. PICK j \in {0, 1} : bh = s[2] - borrow + j * Base /\ (j = 1 => bh = Base - 1)
    BY <2>1
  <2>5. CASE j = 0
    BY <1>1, <2>2, <2>3, <2>4, <2>5
  <2>6. CASE j = 1
    BY <1>1, <2>2, <2>3, <2>4, <2>6
  <2>7. QED BY <2>4, <2>5, <2>6
<1>6. IsDouble(DSub(s))
  BY <1>2, <1>3, <1>4 DEF IsDouble
<1>7. PICK k \in {0, 1} : high = s[2] - borrow - s[4] + k * Base
  BY <1>5
<1>8. borrow \in {0, 1}
  OBVIOUS
<1> HIDE DEF low, bh, high, borrow
<1>9. Num(DSub(s)) = (s[1] - s[3] + borrow * Base) + Base * (s[2] - borrow - s[4] + k * Base)
  BY <1>2, <1>3, <1>7 DEF Num
<1>10. (s[1] + Base * s[2]) - (s[3] + Base * s[4]) = (Base * Base) * (-k) + Num(DSub(s))
  <2>1. s[1] \in Int /\ s[2] \in Int /\ s[3] \in Int /\ s[4] \in Int /\ Base \in Int
    BY <1>1
  <2>2. borrow \in Int /\ k \in Int
    BY <1>8
  <2>3. (s[1] + Base * s[2]) - (s[3] + Base * s[4])
          = (Base * Base) * (-k) + ((s[1] - s[3] + borrow * Base) + Base * (s[2] - borrow - s[4] + k * Base))
    BY <2>1, <2>2
  <2>4. QED BY <1>9, <2>3
<1>11. Num(<<s[1], s[2]>>) - Num(<<s[3], s[4]>>) = DoubleBase * (-k) + Num(DSub(s))
  BY <1>10 DEF Num, DoubleBase
<1>12. -k \in Int
  OBVIOUS
<1>13. DoubleBase \in Nat \ {0} /\ Num(DSub(s)) \in 0..(DoubleBase - 1)
  BY <1>6, DoubleFacts
<1>14. (DoubleBase * (-k) + Num(DSub(s))) % DoubleBase = Num(DSub(s))
  BY <1>12, <1>13, DivisionUnique
<1>15. QED BY <1>6, <1>11, <1>14

(* D*: exact modulo a double while the low words' product fits in a word.  *)
LEMMA DMulNum ==
  ASSUME NEW s, s[1] \in Word, s[2] \in Word, s[3] \in Word, s[4] \in Word,
         s[1] * s[3] < Base
  PROVE  /\ IsDouble(DMul(s))
         /\ Num(DMul(s)) = (Num(<<s[1], s[2]>>) * Num(<<s[3], s[4]>>)) % DoubleBase
<1> DEFINE cross1 == Mul(s[4], s[1]).value
           cross2 == Mul(s[3], s[2]).value
           high == Add(cross1, cross2).value
           i == (s[4] * s[1]) \div Base
           j == (s[3] * s[2]) \div Base
<1>1. s[1] \in Nat /\ s[2] \in Nat /\ s[3] \in Nat /\ s[4] \in Nat /\ Base \in Nat \ {0}
  BY BaseFacts DEF Word
<1>2. s[1] * s[3] \in Nat /\ s[4] * s[1] \in Nat /\ s[3] * s[2] \in Nat
  BY <1>1
<1>3. cross1 \in Word /\ i \in Int /\ s[4] * s[1] = Base * i + cross1
  <2>1. cross1 = (s[4] * s[1]) % Base
    BY DEF Mul, Result
  <2>2. s[4] * s[1] \in Int
    BY <1>2
  <2> HIDE DEF cross1
  <2>3. cross1 \in 0..(Base - 1) /\ i \in Int /\ s[4] * s[1] = Base * i + cross1
    BY <1>1, <2>1, <2>2, DivisionFacts
  <2>4. QED BY <2>3 DEF Word
<1>4. cross2 \in Word /\ j \in Int /\ s[3] * s[2] = Base * j + cross2
  <2>1. cross2 = (s[3] * s[2]) % Base
    BY DEF Mul, Result
  <2>2. s[3] * s[2] \in Int
    BY <1>2
  <2> HIDE DEF cross2
  <2>3. cross2 \in 0..(Base - 1) /\ j \in Int /\ s[3] * s[2] = Base * j + cross2
    BY <1>1, <2>1, <2>2, DivisionFacts
  <2>4. QED BY <2>3 DEF Word
<1>5. Mul(s[3], s[1]).value = s[1] * s[3] /\ s[1] * s[3] \in Word
  <2>1. Mul(s[3], s[1]).value = (s[3] * s[1]) % Base
    BY DEF Mul, Result
  <2>2. s[3] * s[1] = s[1] * s[3]
    BY <1>1
  <2>3. s[1] * s[3] \in 0..(Base - 1)
    BY <1>1, <1>2
  <2>4. \A p \in 0..(Base - 1) : p % Base = p
    BY <1>1
  <2>5. QED BY <2>1, <2>2, <2>3, <2>4 DEF Word
<1> HIDE DEF cross1, cross2, i, j
<1>6. high \in Word /\ \E k \in {0, 1} : high = cross1 + cross2 - k * Base
  <2>1. high \in Word /\ high = IF cross1 + cross2 >= Base THEN cross1 + cross2 - Base ELSE cross1 + cross2
    BY <1>3, <1>4, Added
  <2>2. cross1 \in Int /\ cross2 \in Int
    BY <1>3, <1>4, BaseFacts DEF Word
  <2> HIDE DEF high
  <2>3. CASE cross1 + cross2 >= Base
    BY <1>1, <2>1, <2>2, <2>3
  <2>4. CASE cross1 + cross2 < Base
    BY <1>1, <2>1, <2>2, <2>4
  <2>5. QED BY <1>1, <2>1, <2>2, <2>3, <2>4
<1>7. PICK k \in {0, 1} : high = cross1 + cross2 - k * Base
  BY <1>6
<1>8. DMul(s) = <<s[1] * s[3], high>>
  BY <1>5 DEF DMul, cross1, cross2
<1> HIDE DEF high
<1>9. IsDouble(DMul(s))
  BY <1>5, <1>6, <1>8 DEF IsDouble
<1>10. Num(DMul(s)) = s[1] * s[3] + Base * (cross1 + cross2 - k * Base)
  BY <1>7, <1>8 DEF Num
<1> DEFINE over == i + j + k + s[2] * s[4]
<1>11. (s[1] + Base * s[2]) * (s[3] + Base * s[4]) = (Base * Base) * over + Num(DMul(s))
  <2>1. s[1] \in Int /\ s[2] \in Int /\ s[3] \in Int /\ s[4] \in Int /\ Base \in Int
    BY <1>1
  <2>2. cross1 \in Int /\ cross2 \in Int /\ k \in Int /\ i \in Int /\ j \in Int
    BY <1>3, <1>4, BaseFacts DEF Word
  <2>3. (s[1] + Base * s[2]) * (s[3] + Base * s[4])
          = s[1] * s[3] + Base * (s[4] * s[1]) + Base * (s[3] * s[2]) + (Base * Base) * (s[2] * s[4])
    BY <2>1
  <2>4. @ = s[1] * s[3] + Base * (Base * i + cross1) + Base * (Base * j + cross2)
              + (Base * Base) * (s[2] * s[4])
    BY <1>3, <1>4
  <2>5. @ = (Base * Base) * over + (s[1] * s[3] + Base * (cross1 + cross2 - k * Base))
    BY <2>1, <2>2
  <2>6. QED BY <1>10, <2>3, <2>4, <2>5
<1>12. Num(<<s[1], s[2]>>) * Num(<<s[3], s[4]>>) = DoubleBase * over + Num(DMul(s))
  BY <1>11 DEF Num, DoubleBase
<1>13. over \in Int
  BY <1>1, <1>3, <1>4
<1> HIDE DEF over
<1>14. QED BY <1>9, <1>12, <1>13, DoubleFacts, DivisionUnique

(* Bit i of a word that is not set can be set: what comes out is a word.   *)
LEMMA BitFits ==
  ASSUME NEW a \in Word, NEW i \in 0..(Width - 1), ~HasBit(a, i)
  PROVE  a + 2^i \in Word /\ a + 2^i < Base
<1> DEFINE p == 2^i
           n == 2^(Width - 1 - i)
           q == a \div p
<1>1. a \in Nat /\ a < Base /\ i \in Nat /\ Width - 1 - i \in Nat /\ Width \in Nat
  BY BaseFacts DEF Word
<1>2. p \in Nat \ {0} /\ n \in Nat \ {0}
  BY <1>1, PowerStep
<1>3. Half = p * n
  <2>1. i + (Width - 1 - i) = Width - 1
    BY <1>1
  <2>2. 2^(i + (Width - 1 - i)) = 2^i * 2^(Width - 1 - i)
    BY <1>1, PowerSum
  <2>3. QED BY <2>1, <2>2 DEF Half
<1>4. q \in Int /\ a % p \in 0..(p - 1) /\ a = p * q + (a % p) /\ q % 2 # 1
  <2>1. q % 2 # 1
    BY DEF HasBit
  <2> HIDE DEF p
  <2>2. q \in Int /\ a % p \in 0..(p - 1) /\ a = p * q + (a % p)
    BY <1>1, <1>2, DivisionFacts
  <2>3. QED BY <2>1, <2>2
<1> HIDE DEF p, n, q
<1>5. q < 2 * n
  <2>1. SUFFICES ASSUME q >= 2 * n PROVE FALSE
    BY <1>2, <1>4
  <2>2. p * q >= p * (2 * n)
    BY <1>2, <1>4, <2>1
  <2>3. p * (2 * n) = 2 * (p * n)
    BY <1>2
  <2>4. p * q \in Int /\ a % p \in Nat
    BY <1>2, <1>4
  <2>5. Base = 2 * (p * n)
    BY <1>3, BaseFacts
  <2>6. QED BY <1>1, <1>4, <2>2, <2>3, <2>4, <2>5
<1>6. q <= 2 * n - 2
  BY <1>2, <1>4, <1>5
<1>7. p * q <= p * (2 * n - 2)
  BY <1>2, <1>4, <1>6
<1>8. p * (2 * n - 2) = Base - 2 * p
  <2>1. p * (2 * n - 2) = 2 * (p * n) - 2 * p
    BY <1>2
  <2>2. QED BY <1>3, <2>1, BaseFacts
<1>9. p * q \in Int
  BY <1>2, <1>4
<1>10. a + p < Base /\ a + p \in Nat
  <2>1. p * q <= Base - 2 * p
    BY <1>7, <1>8
  <2>2. PICK r \in 0..(p - 1) : a = p * q + r
    BY <1>4
  <2>3. Base \in Int
    BY BaseFacts
  <2>4. QED BY <1>1, <1>2, <1>9, <2>1, <2>2, <2>3
<1>11. QED BY <1>10, BaseFacts DEF Word, p

(* SET adds the bit if it is clear and leaves the register if it is set.   *)
LEMMA SetBitOf ==
  ASSUME NEW a \in Word, NEW i \in 0..(Width - 1), NEW f
  PROVE  /\ SetBit(a, i, f).value = IF HasBit(a, i) THEN a ELSE a + 2^i
         /\ SetBit(a, i, f).value \in Word
<1>1. Width \in Nat /\ Width >= 2 /\ i \in Nat /\ i < Width /\ Base \in Nat \ {0}
  BY BaseFacts
<1>2. i % (2 * Width) = i
  BY <1>1
<1>3. SetBit(a, i, f).value = (IF HasBit(a, i) THEN a ELSE a + 2^i) % Base
  BY <1>1, <1>2 DEF SetBit, Amount, Result
<1>4. (IF HasBit(a, i) THEN a ELSE a + 2^i) \in Word
  BY BitFits
<1>5. \A w \in Word : w % Base = w
  BY <1>1 DEF Word
<1>6. QED BY <1>3, <1>4, <1>5

(* The lowest bit says whether a number is odd.                            *)
LEMMA LowestBit ==
  ASSUME NEW v \in Nat
  PROVE  HasBit(v, 0) <=> v % 2 = 1
<1>1. v \div 1 = v
  OBVIOUS
<1>2. QED BY <1>1, SmallPowers DEF HasBit

(* SL by one bit doubles modulo the word; its carry is the bit shifted     *)
(* out.                                                                    *)
LEMMA ShiftedLeft ==
  ASSUME NEW a \in Word
  PROVE  /\ Sl(a, 1).value = IF a < Half THEN 2 * a ELSE 2 * a - Base
         /\ Sl(a, 1).value \in Word /\ (Sl(a, 1).flags.c <=> a >= Half)
<1>1. /\ a \in Nat /\ a < Base /\ Half \in Nat \ {0} /\ Base = 2 * Half /\ Base \in Nat
      /\ Width \in Nat /\ Width >= 2
  BY BaseFacts DEF Word
<1>2. 1 % (2 * Width) = 1
  BY <1>1
<1>3. a * 2^Amount(1) = 2 * a
  <2>1. 2^Amount(1) = 2
    BY <1>2, SmallPowers DEF Amount
  <2>2. a * 2 = 2 * a
    BY <1>1
  <2>3. QED BY <2>1, <2>2
<1>4. (2 * a) % (Base * Base) = 2 * a
  <2>1. 2 * Base <= Base * Base
    BY <1>1
  <2>2. 2 * a \in Nat /\ 2 * a < Base * Base /\ Base * Base \in Nat
    BY <1>1, <2>1
  <2> DEFINE square == Base * Base
             double == 2 * a
  <2> HIDE DEF square, double
  <2>3. double % square = double
    BY <2>2 DEF square, double
  <2>4. QED BY <2>3 DEF square, double
<1>5. 2 * a \in (-Base)..(2 * Base - 1)
  BY <1>1
<1>6. Sl(a, 1).value = (2 * a) % Base /\ Sl(a, 1).flags.c = HasBit(2 * a, Width)
  BY <1>3, <1>4 DEF Sl, Result, BooleanFlags
<1>7. /\ (2 * a) % Base = IF 2 * a < Base THEN 2 * a ELSE 2 * a - Base
      /\ (2 * a) \div Base = IF 2 * a < Base THEN 0 ELSE 1
  <2> DEFINE v == 2 * a
  <2> HIDE DEF v
  <2>1. /\ v % Base = IF v < 0 THEN v + Base ELSE IF v < Base THEN v ELSE v - Base
        /\ v \div Base = IF v < 0 THEN -1 ELSE IF v < Base THEN 0 ELSE 1
    BY <1>5, WordOf DEF v
  <2>2. v \in Nat
    BY <1>1 DEF v
  <2>3. ~(v < 0)
    BY <2>2
  <2>4. QED BY <2>1, <2>3 DEF v
<1>8. HasBit(2 * a, Width) <=> a >= Half
  BY <1>1, <1>7 DEF HasBit, Base
<1>9. QED BY <1>1, <1>6, <1>7, <1>8 DEF Word

(* A turn of D<<.                                                          *)
LEMMA TwiceNum ==
  ASSUME NEW d, IsDouble(d)
  PROVE  /\ IsDouble(Twice(d))
         /\ Num(Twice(d)) = (2 * Num(d)) % DoubleBase
<1> DEFINE low == Sl(d[1], 1)
           high == Sl(d[2], 1).value
           carry == IF d[1] >= Half THEN 1 ELSE 0
           lost == IF d[2] >= Half THEN 1 ELSE 0
<1>1. /\ d[1] \in Nat /\ d[2] \in Nat /\ Half \in Nat \ {0} /\ Base = 2 * Half /\ Base \in Nat
      /\ d[1] \in Word /\ d[2] \in Word /\ Width \in Nat /\ Width >= 2
  BY BaseFacts DEF IsDouble, Word
<1>2. low.value \in Word /\ low.value = 2 * d[1] - carry * Base /\ (low.flags.c <=> carry = 1)
  <2>1. /\ low.value \in Word /\ (low.flags.c <=> d[1] >= Half)
        /\ low.value = IF d[1] < Half THEN 2 * d[1] ELSE 2 * d[1] - Base
    BY <1>1, ShiftedLeft
  <2> HIDE DEF low
  <2>2. CASE d[1] < Half
    BY <1>1, <2>1, <2>2
  <2>3. CASE d[1] >= Half
    BY <1>1, <2>1, <2>3
  <2>4. QED BY <1>1, <2>2, <2>3
<1>3. high \in Word /\ high = 2 * d[2] - lost * Base
  <2>1. /\ high \in Word
        /\ high = IF d[2] < Half THEN 2 * d[2] ELSE 2 * d[2] - Base
    BY <1>1, ShiftedLeft
  <2> HIDE DEF high
  <2>2. CASE d[2] < Half
    BY <1>1, <2>1, <2>2
  <2>3. CASE d[2] >= Half
    BY <1>1, <2>1, <2>3
  <2>4. QED BY <1>1, <2>2, <2>3
<1>4. carry \in {0, 1} /\ lost \in {0, 1}
  OBVIOUS
<1> HIDE DEF low, high, carry, lost
<1>5. high = 2 * (d[2] - lost * Half) /\ high \in Nat /\ d[2] - lost * Half \in Int
  BY <1>1, <1>3, <1>4 DEF Word
<1>6. ~HasBit(high, 0)
  <2>1. high % 2 # 1
    BY <1>5
  <2>2. QED BY <1>5, <2>1, LowestBit
<1>7. SetBit(high, 0, d).value = high + 1 /\ SetBit(high, 0, d).value \in Word
  <2>1. 0 \in 0..(Width - 1)
    BY <1>1
  <2>2. /\ SetBit(high, 0, d).value = IF HasBit(high, 0) THEN high ELSE high + 2^0
        /\ SetBit(high, 0, d).value \in Word
    BY <1>3, <2>1, SetBitOf
  <2>3. QED BY <1>6, <2>2, SmallPowers
<1>8. Twice(d)[1] = low.value /\ Twice(d)[2] = high + carry /\ high + carry \in Word
  <2>1. Twice(d) = <<low.value, IF low.flags.c THEN SetBit(high, 0, d).value ELSE high>>
    BY DEF Twice, low, high
  <2>2. QED BY <1>2, <1>3, <1>4, <1>5, <1>7, <2>1
<1>9. IsDouble(Twice(d))
  BY <1>2, <1>8 DEF IsDouble
<1>10. Num(Twice(d)) = (2 * d[1] - carry * Base) + Base * (2 * d[2] - lost * Base + carry)
  BY <1>2, <1>3, <1>8 DEF Num
<1>11. 2 * (d[1] + Base * d[2])
         = (Base * Base) * lost + ((2 * d[1] - carry * Base) + Base * (2 * d[2] - lost * Base + carry))
  <2>1. d[1] \in Int /\ d[2] \in Int /\ Base \in Int /\ carry \in Int /\ lost \in Int
    BY <1>1, <1>4
  <2>2. QED BY <2>1
<1>12. 2 * Num(d) = DoubleBase * lost + Num(Twice(d)) /\ lost \in Int
  BY <1>4, <1>10, <1>11 DEF Num, DoubleBase
<1>13. DoubleBase \in Nat \ {0} /\ Num(Twice(d)) \in 0..(DoubleBase - 1)
  BY <1>9, DoubleFacts
<1>14. (DoubleBase * lost + Num(Twice(d))) % DoubleBase = Num(Twice(d))
  BY <1>12, <1>13, DivisionUnique
<1>15. QED BY <1>9, <1>12, <1>14

(* A turn of D>>.                                                          *)
LEMMA HalveNum ==
  ASSUME NEW d, IsDouble(d)
  PROVE  /\ IsDouble(Halve(d))
         /\ Num(Halve(d)) = Num(d) \div 2
<1> DEFINE low == d[1] \div 2
           high == d[2] \div 2
           odd == d[1] % 2
           carry == d[2] % 2
<1>1. /\ d[1] \in Nat /\ d[2] \in Nat /\ Half \in Nat \ {0} /\ Base = 2 * Half /\ Base \in Nat
      /\ d[1] < Base /\ d[2] < Base /\ Width \in Nat /\ Width >= 2
  BY BaseFacts DEF IsDouble, Word
<1>2. /\ low \in Nat /\ high \in Nat /\ odd \in {0, 1} /\ carry \in {0, 1}
      /\ d[1] = 2 * low + odd /\ d[2] = 2 * high + carry /\ low < Half /\ high < Half
  <2>1. ASSUME NEW x \in Nat, x < 2 * Half
        PROVE  x \div 2 \in Nat /\ x % 2 \in {0, 1} /\ x = 2 * (x \div 2) + (x % 2) /\ x \div 2 < Half
    BY <1>1, <2>1
  <2>2. d[1] < 2 * Half /\ d[2] < 2 * Half
    BY <1>1
  <2>3. QED BY <1>1, <2>1, <2>2
<1>3. Sr(d[1], 1).value = low % Base /\ Sr(d[2], 1).value = high % Base
  <2>1. 2^Amount(1) = 2
    <3>1. 1 % (2 * Width) = 1
      BY <1>1
    <3>2. QED BY <3>1, SmallPowers DEF Amount
  <2>2. QED BY <2>1 DEF Sr, Result
<1>4. HasBit(d[2], 0) <=> carry = 1
  BY <1>1, LowestBit
<1> HIDE DEF low, high, odd, carry
<1>5. low % Base = low /\ high % Base = high /\ low \in Word /\ high \in Word
  BY <1>1, <1>2 DEF Word
<1>6. ~HasBit(low, Width - 1)
  BY <1>1, <1>2, SignBit
<1>7. SetBit(low, Width - 1, d).value = low + Half /\ SetBit(low, Width - 1, d).value \in Word
  BY <1>1, <1>5, <1>6, SetBitOf DEF Half
<1>8. Halve(d)[1] = low + carry * Half /\ Halve(d)[2] = high /\ low + carry * Half \in Word
  <2>1. Halve(d) = <<IF carry = 1 THEN SetBit(low, Width - 1, d).value ELSE low, high>>
    BY <1>3, <1>4, <1>5 DEF Halve
  <2>2. QED BY <1>1, <1>2, <1>5, <1>7, <2>1
<1>9. IsDouble(Halve(d))
  BY <1>5, <1>8 DEF IsDouble
<1>10. Num(Halve(d)) = low + carry * Half + Base * high
  BY <1>8 DEF Num
<1>11. Num(d) = 2 * Num(Halve(d)) + odd
  <2>1. (2 * low + odd) + (2 * Half) * (2 * high + carry) = 2 * (low + carry * Half + (2 * Half) * high) + odd
    <3>1. low \in Int /\ high \in Int /\ odd \in Int /\ carry \in Int /\ Half \in Int
      BY <1>1, <1>2
    <3>2. QED BY <3>1
  <2>2. Num(d) = (2 * low + odd) + (2 * Half) * (2 * high + carry)
    BY <1>1, <1>2 DEF Num
  <2>3. QED BY <1>1, <1>10, <2>1, <2>2
<1>12. Num(Halve(d)) \in Nat
  BY <1>9, DoubleFacts
<1>13. QED BY <1>2, <1>9, <1>11, <1>12

(* The states of a loop of n turns of F from d.                            *)
IsRun(g, S, F, d, n) ==
  g \in [0..n -> S] /\ \A k \in 0..n : g[k] = IF k = 0 THEN d ELSE F[g[k - 1]]

(* A loop of n turns of F from d has states, the last of which it ends in. *)
LEMMA TurnsExist ==
  ASSUME NEW S, NEW F \in [S -> S], NEW d \in S, NEW n \in Nat
  PROVE  \E g : IsRun(g, S, F, d, n)
<1> DEFINE Run(g, m) == IsRun(g, S, F, d, m)
           X == {m \in Nat : ~\E g : Run(g, m)}
<1>1. X = {}
  <2>1. SUFFICES ASSUME X # {} PROVE FALSE
    OBVIOUS
  <2>2. PICK m \in X : \A j \in X : m <= j
    BY <2>1, LeastExists
  <2>3. CASE m = 0
    <3> DEFINE g == [k \in 0..0 |-> d]
    <3>1. 0..0 = {0}
      OBVIOUS
    <3>2. Run(g, 0)
      BY <3>1 DEF IsRun
    <3>3. QED BY <2>2, <2>3, <3>2
  <2>4. CASE m # 0
    <3>1. m - 1 \in Nat /\ m - 1 \notin X /\ m \in Nat
      <4>1. m \in Nat
        BY <2>2
      <4> HIDE DEF X
      <4>2. QED BY <2>2, <2>4, <4>1
    <3>2. PICK g : Run(g, m - 1)
      BY <3>1
    <3> DEFINE h == [k \in 0..m |-> IF k = m THEN F[g[m - 1]] ELSE g[k]]
    <3>3. h \in [0..m -> S]
      <4>1. m - 1 \in 0..(m - 1) /\ g[m - 1] \in S
        BY <3>1, <3>2 DEF IsRun
      <4>2. F[g[m - 1]] \in S
        BY <4>1
      <4>3. \A k \in 0..m : k = m \/ k \in 0..(m - 1)
        BY <3>1
      <4>4. QED BY <3>2, <4>2, <4>3 DEF IsRun
    <3>4. ASSUME NEW k \in 0..m PROVE h[k] = IF k = 0 THEN d ELSE F[h[k - 1]]
      <4>1. CASE k = 0
        <5>1. 0 \in 0..(m - 1) /\ h[0] = g[0]
          BY <3>1, <2>4
        <5>2. QED BY <3>2, <4>1, <5>1 DEF IsRun
      <4>2. CASE k = m
        <5>1. h[m] = F[g[m - 1]] /\ h[m - 1] = g[m - 1]
          BY <3>1
        <5>2. QED BY <2>4, <4>2, <5>1
      <4>3. CASE k # 0 /\ k # m
        <5>1. k \in 0..(m - 1) /\ k - 1 \in 0..m /\ k - 1 # m /\ h[k] = g[k] /\ h[k - 1] = g[k - 1]
          BY <3>1, <4>3
        <5>2. g[k] = IF k = 0 THEN d ELSE F[g[k - 1]]
          BY <3>2, <5>1 DEF IsRun
        <5>3. QED BY <4>3, <5>1, <5>2
      <4>4. QED BY <4>1, <4>2, <4>3
    <3> HIDE DEF h
    <3>5. Run(h, m)
      BY <3>3, <3>4 DEF IsRun
    <3>6. QED BY <2>2, <3>5
  <2>5. QED BY <2>3, <2>4
<1>2. n \notin X
  BY <1>1
<1>3. QED BY <1>2

(* To halve what is left after k bits were dropped is to drop one more.    *)
LEMMA HalvedPower ==
  ASSUME NEW x \in Nat, NEW k \in Nat
  PROVE  (x \div 2^k) \div 2 = x \div 2^(k + 1)
<1> DEFINE p == 2^k
           q == x \div p
           h == q \div 2
           b == q % 2
           r == x % p
<1>1. p \in Nat \ {0} /\ 2^(k + 1) = 2 * p
  BY PowerStep
<1> HIDE DEF p
<1>2. q \in Int /\ r \in 0..(p - 1) /\ x = p * q + r
  BY <1>1, DivisionFacts
<1> HIDE DEF q, r
<1>3. h \in Int /\ b \in {0, 1} /\ q = 2 * h + b
  BY <1>2
<1> HIDE DEF h, b
<1>4. x = (2 * p) * h + (p * b + r)
  <2>1. p * (2 * h + b) = (2 * p) * h + p * b
    BY <1>1, <1>3
  <2>2. (2 * p) * h \in Int /\ p * b \in Int
    BY <1>1, <1>3
  <2>3. QED BY <1>2, <1>3, <2>1, <2>2
<1>5. p * b + r \in 0..(2 * p - 1)
  <2>1. CASE b = 0
    BY <1>1, <1>2, <2>1
  <2>2. CASE b = 1
    BY <1>1, <1>2, <2>2
  <2>3. QED BY <1>3, <2>1, <2>2
<1>6. 2 * p \in Nat \ {0}
  BY <1>1
<1>7. x \div (2 * p) = h
  <2> DEFINE low == p * b + r
             wide == 2 * p
  <2>1. low \in 0..(wide - 1) /\ wide \in Nat \ {0} /\ x = wide * h + low
    BY <1>4, <1>5, <1>6
  <2> HIDE DEF low, wide
  <2>2. x \div wide = h
    BY <1>3, <2>1, DivisionUnique
  <2>3. QED BY <2>2 DEF wide
<1>8. QED BY <1>1, <1>7 DEF h, q, p

(* D>> takes as many bits off as it is told, whatever their number.        *)
LEMMA DSrNum ==
  ASSUME NEW s, s[1] \in Word, s[2] \in Word, s[3] \in Nat
  PROVE  Num(DSr(s)) = Num(<<s[1], s[2]>>) \div 2^s[3]
<1> DEFINE d == <<s[1], s[2]>>
           n == s[3]
           S == Word \X Word
           F == [x \in S |-> Halve(x)]
           g == CHOOSE f : f = [k \in 0..n |-> IF k = 0 THEN d ELSE Halve(f[k - 1])]
<1>1. DSr(s) = g[n]
  BY DEF DSr, Shifted
<1>2. F \in [S -> S] /\ d \in S
  <2>1. ASSUME NEW x \in S PROVE Halve(x) \in S
    <3>1. IsDouble(Halve(x))
      BY HalveNum DEF IsDouble
    <3>2. QED BY <3>1 DEF IsDouble, Halve
  <2>2. QED BY <2>1
<1>3. g = [k \in 0..n |-> IF k = 0 THEN d ELSE Halve(g[k - 1])]
  <2>1. PICK f : IsRun(f, S, F, d, n)
    <3>1. n \in Nat
      OBVIOUS
    <3> HIDE DEF F, S, d, n
    <3>2. QED BY <1>2, <3>1, TurnsExist
  <2>2. \A k \in 0..n : k = 0 \/ F[f[k - 1]] = Halve(f[k - 1])
    <3>1. \A k \in 0..n : k = 0 \/ k - 1 \in 0..n
      OBVIOUS
    <3>2. f \in [0..n -> S]
      <4> HIDE DEF F, S, d, n
      <4>1. QED BY <2>1 DEF IsRun
    <3>3. QED BY <3>1, <3>2
  <2>3. f = [k \in 0..n |-> IF k = 0 THEN d ELSE Halve(f[k - 1])]
    <3> HIDE DEF F, S, d, n
    <3>1. QED BY <2>1, <2>2 DEF IsRun
  <2> HIDE DEF d
  <2>4. QED BY <2>3
<1> HIDE DEF g
<1> DEFINE X == {k \in Nat : k <= n /\ ~(IsDouble(g[k]) /\ Num(g[k]) = Num(d) \div 2^k)}
<1>4. IsDouble(d) /\ Num(d) \in Nat
  <2>1. IsDouble(d)
    BY DEF IsDouble
  <2>2. QED BY <2>1, DoubleFacts
<1>5. X = {}
  <2>1. SUFFICES ASSUME X # {} PROVE FALSE
    OBVIOUS
  <2>2. PICK k \in X : \A j \in X : k <= j
    BY <2>1, LeastExists
  <2> HIDE DEF d
  <2>3. k \in 0..n
    BY <2>2
  <2>4. CASE k = 0
    <3>1. g[0] = d /\ Num(d) \div 1 = Num(d)
      BY <1>3, <1>4, <2>3, <2>4
    <3>2. QED BY <1>4, <2>2, <2>4, <3>1, SmallPowers
  <2>5. CASE k # 0
    <3>1. k - 1 \in Nat /\ (k - 1) + 1 = k /\ k - 1 \notin X /\ k - 1 <= n
      BY <2>2, <2>3, <2>5
    <3>2. IsDouble(g[k - 1]) /\ Num(g[k - 1]) = Num(d) \div 2^(k - 1)
      BY <3>1
    <3>3. g[k] = Halve(g[k - 1])
      BY <1>3, <2>3, <2>5
    <3>4. IsDouble(g[k]) /\ Num(g[k]) = (Num(d) \div 2^(k - 1)) \div 2
      BY <3>2, <3>3, HalveNum
    <3>5. (Num(d) \div 2^(k - 1)) \div 2 = Num(d) \div 2^k
      BY <1>4, <3>1, HalvedPower
    <3>6. QED BY <2>2, <3>4, <3>5
  <2>6. QED BY <2>4, <2>5
<1>6. n \notin X
  BY <1>5
<1>7. QED BY <1>1, <1>6

(* Doubling modulo m may reduce before or only afterwards.                 *)
LEMMA DoubledModulo ==
  ASSUME NEW y \in Nat, NEW m \in Nat \ {0}
  PROVE  (2 * (y % m)) % m = (2 * y) % m
<1> DEFINE q == y \div m
           r == y % m
           p == (2 * r) \div m
           u == (2 * r) % m
<1>1. q \in Int /\ r \in 0..(m - 1) /\ y = m * q + r
  BY DivisionFacts
<1> HIDE DEF q, r
<1>2. p \in Int /\ u \in 0..(m - 1) /\ 2 * r = m * p + u
  <2>1. 2 * r \in Int
    BY <1>1
  <2>2. QED BY <2>1, DivisionFacts
<1> HIDE DEF p, u
<1>3. 2 * y = m * (2 * q + p) + u /\ 2 * q + p \in Int
  <2>1. 2 * (m * q + r) = m * (2 * q) + 2 * r /\ m * (2 * q) + (m * p + u) = m * (2 * q + p) + u
    BY <1>1, <1>2
  <2>2. QED BY <1>1, <1>2, <2>1
<1>4. (m * (2 * q + p) + u) % m = u
  BY <1>2, <1>3, DivisionUnique
<1>5. QED BY <1>3, <1>4 DEF u, r

(* D<< adds as many bits as it is told, and cuts what does not fit.        *)
LEMMA DSlNum ==
  ASSUME NEW s, s[1] \in Word, s[2] \in Word, s[3] \in Nat
  PROVE  Num(DSl(s)) = (Num(<<s[1], s[2]>>) * 2^s[3]) % DoubleBase
<1> DEFINE d == <<s[1], s[2]>>
           n == s[3]
           S == Word \X Word
           F == [x \in S |-> Twice(x)]
           g == CHOOSE f : f = [k \in 0..n |-> IF k = 0 THEN d ELSE Twice(f[k - 1])]
<1>1. DSl(s) = g[n]
  BY DEF DSl, Shifted
<1>2. F \in [S -> S] /\ d \in S
  <2>1. ASSUME NEW x \in S PROVE Twice(x) \in S
    <3>1. IsDouble(Twice(x))
      BY TwiceNum DEF IsDouble
    <3>2. QED BY <3>1 DEF IsDouble, Twice
  <2>2. QED BY <2>1
<1>3. g = [k \in 0..n |-> IF k = 0 THEN d ELSE Twice(g[k - 1])]
  <2>1. PICK f : IsRun(f, S, F, d, n)
    <3>1. n \in Nat
      OBVIOUS
    <3> HIDE DEF F, S, d, n
    <3>2. QED BY <1>2, <3>1, TurnsExist
  <2>2. \A k \in 0..n : k = 0 \/ F[f[k - 1]] = Twice(f[k - 1])
    <3>1. \A k \in 0..n : k = 0 \/ k - 1 \in 0..n
      OBVIOUS
    <3>2. f \in [0..n -> S]
      <4> HIDE DEF F, S, d, n
      <4>1. QED BY <2>1 DEF IsRun
    <3>3. QED BY <3>1, <3>2
  <2>3. f = [k \in 0..n |-> IF k = 0 THEN d ELSE Twice(f[k - 1])]
    <3> HIDE DEF F, S, d, n
    <3>1. QED BY <2>1, <2>2 DEF IsRun
  <2> HIDE DEF d
  <2>4. QED BY <2>3
<1> HIDE DEF g
<1> DEFINE X == {k \in Nat : k <= n /\ ~(IsDouble(g[k]) /\ Num(g[k]) = (Num(d) * 2^k) % DoubleBase)}
<1>4. IsDouble(d) /\ Num(d) \in 0..(DoubleBase - 1) /\ DoubleBase \in Nat \ {0}
  <2>1. IsDouble(d)
    BY DEF IsDouble
  <2>2. QED BY <2>1, DoubleFacts
<1>5. X = {}
  <2>1. SUFFICES ASSUME X # {} PROVE FALSE
    OBVIOUS
  <2>2. PICK k \in X : \A j \in X : k <= j
    BY <2>1, LeastExists
  <2> HIDE DEF d
  <2>3. k \in 0..n
    BY <2>2
  <2>4. CASE k = 0
    <3>1. g[0] = d
      BY <1>3, <2>3, <2>4
    <3>2. Num(d) * 1 = Num(d) /\ Num(d) % DoubleBase = Num(d)
      BY <1>4
    <3>3. QED BY <1>4, <2>2, <2>4, <3>1, <3>2, SmallPowers
  <2>5. CASE k # 0
    <3>1. k - 1 \in Nat /\ (k - 1) + 1 = k /\ k - 1 \notin X /\ k - 1 <= n
      BY <2>2, <2>3, <2>5
    <3>2. IsDouble(g[k - 1]) /\ Num(g[k - 1]) = (Num(d) * 2^(k - 1)) % DoubleBase
      BY <3>1
    <3>3. g[k] = Twice(g[k - 1])
      BY <1>3, <2>3, <2>5
    <3>4. IsDouble(g[k]) /\ Num(g[k]) = (2 * ((Num(d) * 2^(k - 1)) % DoubleBase)) % DoubleBase
      BY <3>2, <3>3, TwiceNum
    <3>5. Num(d) * 2^(k - 1) \in Nat /\ 2 * (Num(d) * 2^(k - 1)) = Num(d) * 2^k
      <4>1. 2^(k - 1) \in Nat /\ 2^k = 2 * 2^(k - 1)
        BY <3>1, PowerStep
      <4>2. Num(d) \in Nat
        BY <1>4
      <4>3. QED BY <4>1, <4>2
    <3>6. (2 * ((Num(d) * 2^(k - 1)) % DoubleBase)) % DoubleBase = (Num(d) * 2^k) % DoubleBase
      BY <1>4, <3>5, DoubledModulo
    <3>7. QED BY <2>2, <3>4, <3>6
  <2>6. QED BY <2>4, <2>5
<1>6. n \notin X
  BY <1>5
<1>7. QED BY <1>1, <1>6

(* A bit of a number is what it adds to the bits below it.                 *)
LEMMA BitsBelow ==
  ASSUME NEW a \in Nat, NEW i \in Nat
  PROVE  a % 2^(i + 1) = (a % 2^i) + (IF HasBit(a, i) THEN 2^i ELSE 0)
<1> DEFINE p == 2^i
           q == a \div p
           h == q \div 2
           b == q % 2
           r == a % p
<1>1. p \in Nat \ {0} /\ 2^(i + 1) = 2 * p
  BY PowerStep
<1>2. HasBit(a, i) <=> b = 1
  BY DEF HasBit
<1> HIDE DEF p
<1>3. q \in Int /\ r \in 0..(p - 1) /\ a = p * q + r
  BY <1>1, DivisionFacts
<1> HIDE DEF q, r
<1>4. h \in Int /\ b \in {0, 1} /\ q = 2 * h + b
  BY <1>3
<1> HIDE DEF h, b
<1> DEFINE low == p * b + r
           wide == 2 * p
<1>5. a = wide * h + low
  <2>1. p * (2 * h + b) = (2 * p) * h + p * b
    BY <1>1, <1>4
  <2>2. (2 * p) * h \in Int /\ p * b \in Int
    BY <1>1, <1>4
  <2>3. QED BY <1>3, <1>4, <2>1, <2>2
<1>6. low \in 0..(wide - 1) /\ wide \in Nat \ {0} /\ low = r + (IF b = 1 THEN p ELSE 0)
  <2>1. CASE b = 0
    BY <1>1, <1>3, <2>1
  <2>2. CASE b = 1
    BY <1>1, <1>3, <2>2
  <2>3. QED BY <1>4, <2>1, <2>2
<1>7. a % wide = low
  <2> HIDE DEF low, wide
  <2>1. QED BY <1>4, <1>5, <1>6, DivisionUnique
<1> HIDE DEF low
<1>8. QED BY <1>1, <1>2, <1>6, <1>7 DEF r, p

(* The largest word has every bit.                                         *)
LEMMA AllBits ==
  ASSUME NEW i \in Bits
  PROVE  HasBit(Base - 1, i)
<1> DEFINE p == 2^i
           n == 2^(Width - 1 - i)
<1>1. i \in Nat /\ Width - 1 - i \in Nat
  BY BaseFacts DEF Bits
<1>2. p \in Nat \ {0} /\ n \in Nat \ {0}
  BY <1>1, PowerStep
<1>3. Half = p * n
  <2>1. i + (Width - 1 - i) = Width - 1
    BY <1>1, BaseFacts
  <2>2. 2^(i + (Width - 1 - i)) = 2^i * 2^(Width - 1 - i)
    BY <1>1, PowerSum
  <2>3. QED BY <2>1, <2>2 DEF Half
<1> HIDE DEF p, n
<1>4. Base - 1 = p * (2 * n - 1) + (p - 1)
  <2>1. p * (2 * n - 1) = 2 * (p * n) - p
    BY <1>2
  <2>2. p * n \in Int
    BY <1>2
  <2>3. QED BY <1>2, <1>3, <2>1, <2>2, BaseFacts
<1>5. (Base - 1) \div p = 2 * n - 1
  <2> DEFINE q == 2 * n - 1
             u == p - 1
  <2>1. q \in Int /\ u \in 0..(p - 1) /\ Base - 1 = p * q + u
    BY <1>2, <1>4
  <2> HIDE DEF q, u
  <2>2. (Base - 1) \div p = q
    BY <1>2, <2>1, DivisionUnique
  <2>3. QED BY <2>2 DEF q
<1>6. (2 * n - 1) % 2 = 1
  BY <1>2
<1>7. QED BY <1>5, <1>6 DEF HasBit, p

(* XOR with a word of ones takes a word from it.                           *)
LEMMA Inverted ==
  ASSUME NEW a \in Word
  PROVE  Xor(a, Base - 1).value = Base - 1 - a /\ Base - 1 - a \in Word
<1> DEFINE bits == {i \in Bits : HasBit(a, i) # HasBit(Base - 1, i)}
           bit(i) == IF i \in bits THEN 2^i ELSE 0
           sum == CHOOSE f : f = [i \in 0..Width |-> IF i = 0 THEN 0 ELSE f[i - 1] + (IF i - 1 \in bits THEN 2^(i - 1) ELSE 0)]
           f == [i \in 0..Width |-> 2^i - 1 - (a % 2^i)]
<1>1. a \in Nat /\ a < Base /\ Width \in Nat /\ Base \in Nat
  BY BaseFacts DEF Word
<1>2. ASSUME NEW i \in Bits
      PROVE  /\ i \in Nat /\ 2^i \in Nat \ {0} /\ 2^(i + 1) = 2 * 2^i /\ a % 2^i \in Nat
             /\ 2^(i + 1) - 1 - (a % 2^(i + 1)) = (2^i - 1 - (a % 2^i)) + bit(i)
  <2>1. i \in Nat
    BY <1>1 DEF Bits
  <2>2. 2^i \in Nat \ {0} /\ 2^(i + 1) = 2 * 2^i
    BY <2>1, PowerStep
  <2>3. a % 2^(i + 1) = (a % 2^i) + (IF HasBit(a, i) THEN 2^i ELSE 0)
    BY <1>1, <2>1, BitsBelow
  <2>4. a % 2^i \in Nat
    BY <1>1, <2>2
  <2>5. i \in bits <=> ~HasBit(a, i)
    <3>1. HasBit(a, i) \in BOOLEAN
      BY DEF HasBit
    <3>2. QED BY <3>1, AllBits
  <2>6. bit(i) = IF HasBit(a, i) THEN 0 ELSE 2^i
    BY <2>5
  <2> HIDE DEF bits, bit
  <2>7. QED BY <2>1, <2>2, <2>3, <2>4, <2>6
<1>3. ASSUME NEW i \in 0..Width, i # 0 PROVE i - 1 \in Bits /\ (i - 1) + 1 = i /\ i - 1 \in 0..Width
  BY <1>1, <1>3 DEF Bits
<1>4. f[0] = 0
  <2>1. a % 1 = 0
    BY <1>1
  <2>2. QED BY <1>1, <2>1, SmallPowers
<1> HIDE DEF bits
<1>5. f = [i \in 0..Width |-> IF i = 0 THEN 0 ELSE f[i - 1] + (IF i - 1 \in bits THEN 2^(i - 1) ELSE 0)]
  <2>1. ASSUME NEW i \in 0..Width, i # 0 PROVE f[i] = f[i - 1] + bit(i - 1)
    <3>1. i - 1 \in Bits /\ (i - 1) + 1 = i /\ i - 1 \in 0..Width
      BY <1>3, <2>1
    <3>2. 2^((i - 1) + 1) - 1 - (a % 2^((i - 1) + 1)) = (2^(i - 1) - 1 - (a % 2^(i - 1))) + bit(i - 1)
      BY <1>2, <3>1
    <3>3. QED BY <3>1, <3>2
  <2>2. \A i \in 0..Width : f[i] = IF i = 0 THEN 0 ELSE f[i - 1] + bit(i - 1)
    BY <1>4, <2>1
  <2>3. f = [i \in 0..Width |-> f[i]]
    OBVIOUS
  <2> HIDE DEF f
  <2>4. QED BY <2>2, <2>3
<1>6. sum = [i \in 0..Width |-> IF i = 0 THEN 0 ELSE sum[i - 1] + (IF i - 1 \in bits THEN 2^(i - 1) ELSE 0)]
  <2> HIDE DEF f
  <2>1. QED BY <1>5
<1> HIDE DEF sum
<1> DEFINE X == {i \in Nat : i <= Width /\ sum[i] # f[i]}
<1>7. X = {}
  <2>1. SUFFICES ASSUME X # {} PROVE FALSE
    OBVIOUS
  <2>2. PICK k \in X : \A j \in X : k <= j
    BY <2>1, LeastExists
  <2>3. k \in 0..Width /\ sum[k] # f[k]
    BY <1>1, <2>2
  <2>4. CASE k = 0
    BY <1>4, <1>6, <2>3, <2>4
  <2>5. CASE k # 0
    <3>1. k - 1 \in Nat /\ k - 1 <= Width /\ k - 1 \in 0..Width /\ ~(k <= k - 1)
      BY <1>1, <2>3, <2>5
    <3>2. k - 1 \notin X
      <4> HIDE DEF X
      <4>1. QED BY <2>2, <3>1
    <3>3. sum[k - 1] = f[k - 1]
      <4> HIDE DEF f
      <4>1. QED BY <3>1, <3>2
    <3> HIDE DEF f
    <3>4. f[k] = f[k - 1] + (IF k - 1 \in bits THEN 2^(k - 1) ELSE 0)
      BY <1>5, <2>3, <2>5
    <3>5. sum[k] = sum[k - 1] + (IF k - 1 \in bits THEN 2^(k - 1) ELSE 0)
      BY <1>6, <2>3, <2>5
    <3>6. QED BY <2>3, <3>3, <3>4, <3>5
  <2>6. QED BY <2>4, <2>5
<1>8. sum[Width] = Base - 1 - a
  <2>1. Width \notin X
    BY <1>7
  <2>2. sum[Width] = f[Width]
    <3> HIDE DEF f
    <3>1. QED BY <1>1, <2>1
  <2>3. a % Base = a
    BY <1>1
  <2>4. f[Width] = 2^Width - 1 - (a % 2^Width)
    BY <1>1
  <2>5. QED BY <2>2, <2>3, <2>4 DEF Base
<1>9. FromBits(bits) = sum[Width]
  BY DEF FromBits, sum
<1>10. Base - 1 - a \in Word /\ (Base - 1 - a) % Base = Base - 1 - a
  BY <1>1 DEF Word
<1>11. Xor(a, Base - 1).value = FromBits(bits) % Base
  BY DEF Xor, Logic, Result, bits
<1>12. QED BY <1>8, <1>9, <1>10, <1>11

(* DINVERT leaves the complement of its double.                            *)
LEMMA DInvertNum ==
  ASSUME NEW s, s[1] \in Word, s[2] \in Word
  PROVE  Num(DInvert(s)) = DoubleBase - 1 - Num(<<s[1], s[2]>>)
<1> DEFINE l == Base - 1 - s[1]
           h == Base - 1 - s[2]
<1>1. DInvert(s) = <<l, h>>
  BY Inverted DEF DInvert
<1>2. s[1] \in Int /\ s[2] \in Int /\ Base \in Int
  BY BaseFacts DEF Word
<1>3. l \in Int /\ h \in Int /\ l + s[1] + 1 = Base /\ h + s[2] + 1 = Base
  BY <1>2
<1> HIDE DEF l, h
<1>4. Base * (h + s[2] + 1) = Base * h + Base * s[2] + Base
  BY <1>2, <1>3
<1>5. Base * h \in Int /\ Base * s[2] \in Int /\ Base * Base \in Int
  BY <1>2, <1>3
<1>6. Base * Base = Base * h + Base * s[2] + Base
  BY <1>3, <1>4
<1>7. l + Base * h = Base * Base - 1 - (s[1] + Base * s[2])
  <2> DEFINE bh == Base * h
             bs == Base * s[2]
             bb == Base * Base
  <2>1. l \in Int /\ s[1] \in Int /\ Base \in Int /\ l + s[1] + 1 = Base
    BY <1>2, <1>3
  <2>2. bh \in Int /\ bs \in Int /\ bb \in Int /\ bb = bh + bs + Base
    BY <1>5, <1>6
  <2> HIDE DEF bh, bs, bb
  <2>3. l + bh = bb - 1 - (s[1] + bs)
    BY <2>1, <2>2
  <2>4. QED BY <2>3 DEF bh, bs, bb
<1>8. QED BY <1>1, <1>7 DEF Num, DoubleBase

(* Where "/" is after k turns: the k highest bits of n have been divided   *)
(* by d, and below the quotient r[2] holds the bits that are left.         *)
DividedTo(n, d, k, r) ==
  \E hi, lo, q \in Nat :
    /\ n = 2^(Width - k) * hi + lo /\ lo < 2^(Width - k)
    /\ hi = d * q + r[1] /\ r[1] \in 0..(d - 1)
    /\ r[2] = lo * 2^k + q

(* A turn of the loop of "/" leaves words in its registers.                *)
LEMMA TurnIsDouble ==
  ASSUME NEW d \in Word, NEW r \in Word \X Word
  PROVE  DivTurn(d, r) \in Word \X Word
<1> DEFINE r0 == Add(r[2], r[2])
           twice == Add(r[1], r[1]).value
           carry == Flag(r0.flags.c)
           r1 == Add(twice, carry).value
           rest == Sub(r1, d).value
<1>1. r0.value \in Word /\ twice \in Word /\ carry \in Word
  BY Added, OneIsWord DEF Flag
<1> HIDE DEF r0, twice, carry
<1>2. r1 \in Word
  BY <1>1, Added
<1> HIDE DEF r1
<1>3. rest \in Word
  BY <1>2, Compared
<1> HIDE DEF rest
<1>4. Add(rest, d).value \in Word /\ Add(r0.value, 1).value \in Word
  BY <1>1, <1>3, Added, OneIsWord
<1>5. DivTurn(d, r) = IF Sub(r1, d).flags.s THEN <<Add(rest, d).value, r0.value>>
                      ELSE <<rest, Add(r0.value, 1).value>>
  BY DEF DivTurn, rest, r1, r0, twice, carry
<1>6. QED BY <1>1, <1>3, <1>4, <1>5

(* What a turn computes when nothing but the top bit of R0 leaves.         *)
LEMMA TurnDivides ==
  ASSUME NEW d \in Nat, 1 <= d, d <= Half, NEW r \in Word \X Word, r[1] < d,
         NEW b \in {0, 1}, NEW low \in Nat, low + 1 < Base, 2 * r[2] = Base * b + low
  PROVE  DivTurn(d, r) = IF 2 * r[1] + b < d THEN <<2 * r[1] + b, low>>
                         ELSE <<2 * r[1] + b - d, low + 1>>
<1> DEFINE r0 == Add(r[2], r[2])
           twice == Add(r[1], r[1]).value
           carry == Flag(r0.flags.c)
           r1 == Add(twice, carry).value
           rest == Sub(r1, d).value
<1>1. /\ r[1] \in Word /\ r[2] \in Word /\ r[1] \in Nat /\ r[2] \in Nat /\ Half \in Nat \ {0}
      /\ Base = 2 * Half /\ Base \in Nat /\ d \in Word
  BY BaseFacts DEF Word
<1>2. r0.value = low /\ carry = b
  <2>1. /\ r0.value = IF r[2] + r[2] >= Base THEN r[2] + r[2] - Base ELSE r[2] + r[2]
        /\ r0.flags.c <=> r[2] + r[2] >= Base
    BY <1>1, Added
  <2> HIDE DEF r0
  <2>2. CASE b = 0
    <3>1. r[2] + r[2] = low /\ low < Base
      BY <1>1, <2>2
    <3>2. QED BY <1>1, <2>1, <2>2, <3>1 DEF Flag
  <2>3. CASE b = 1
    <3>1. r[2] + r[2] = low + Base
      BY <1>1, <2>3
    <3>2. QED BY <1>1, <2>1, <2>3, <3>1 DEF Flag
  <2>4. QED BY <2>2, <2>3
<1>3. twice = 2 * r[1] /\ twice \in Word
  <2>1. r[1] + r[1] < Base
    BY <1>1
  <2>2. QED BY <1>1, <2>1, Added
<1>4. r1 = 2 * r[1] + b /\ r1 \in Word
  <2>1. b \in Word /\ 2 * r[1] + b < Base
    BY <1>1, OneIsWord
  <2> HIDE DEF twice, carry
  <2>2. r1 = IF twice + b >= Base THEN twice + b - Base ELSE twice + b
    BY <1>2, <1>3, <2>1, Added
  <2>3. r1 \in Word
    BY <1>2, <1>3, <2>1, Added
  <2> HIDE DEF r1
  <2>4. QED BY <1>1, <1>3, <2>1, <2>2, <2>3
<1>5. DivTurn(d, r) = IF Sub(r1, d).flags.s THEN <<Add(rest, d).value, r0.value>>
                      ELSE <<rest, Add(r0.value, 1).value>>
  BY DEF DivTurn, rest, r1, r0, twice, carry
<1>6. r1 - d \in (-Base)..(Base - 1) /\ -Half <= r1 - d /\ r1 - d < Half
  <2> HIDE DEF r1
  <2>1. QED BY <1>1, <1>4
<1> HIDE DEF r1
<1>7. Sub(r1, d).flags.s <=> r1 < d
  <2>1. Sub(r1, d).flags.s = HasBit(r1 - d, Width - 1)
    BY DEF Sub, Result, ArithmeticFlags
  <2>2. HasBit(r1 - d, Width - 1) <=> r1 - d < 0
    BY <1>1, <1>6, SignBit
  <2>3. r1 \in Int
    BY <1>1, <1>4 DEF Word
  <2>4. QED BY <1>1, <2>1, <2>2, <2>3
<1>8. rest = (IF r1 < d THEN r1 - d + Base ELSE r1 - d) /\ rest \in Word
  BY <1>1, <1>4, Compared
<1> HIDE DEF rest, r0
<1>9. CASE r1 < d
  <2>1. Add(rest, d).value = r1
    <3>1. Add(rest, d).value = IF rest + d >= Base THEN rest + d - Base ELSE rest + d
      BY <1>1, <1>8, Added
    <3>2. r1 \in Nat /\ rest = r1 - d + Base
      BY <1>1, <1>4, <1>8, <1>9 DEF Word
    <3>3. QED BY <1>1, <3>1, <3>2
  <2>2. DivTurn(d, r) = <<r1, low>>
    BY <1>2, <1>5, <1>7, <1>9, <2>1
  <2>3. QED BY <1>4, <1>9, <2>2
<1>10. CASE ~(r1 < d)
  <2>1. Add(low, 1).value = low + 1
    <3>1. low \in Word
      BY <1>1 DEF Word
    <3>2. Add(low, 1).value = IF low + 1 >= Base THEN low + 1 - Base ELSE low + 1
      BY <3>1, OneIsWord, Added
    <3>3. QED BY <1>1, <3>2
  <2>2. DivTurn(d, r) = <<r1 - d, low + 1>>
    BY <1>2, <1>5, <1>7, <1>8, <1>10, <2>1
  <2>3. ~(2 * r[1] + b < d) /\ r1 - d = 2 * r[1] + b - d
    BY <1>1, <1>4, <1>10
  <2>4. QED BY <2>2, <2>3
<1>11. QED BY <1>9, <1>10

(* A turn divides one more bit.                                            *)
LEMMA DividedOn ==
  ASSUME NEW n \in Word, NEW d \in Nat, 1 <= d, d <= Half, NEW k \in 0..(Width - 1),
         NEW r \in Word \X Word, DividedTo(n, d, k, r)
  PROVE  DividedTo(n, d, k + 1, DivTurn(d, r))
<1> DEFINE p == 2^(Width - k - 1)
           m == 2^k
<1>1. /\ k \in Nat /\ Width - k - 1 \in Nat /\ Base \in Nat \ {0} /\ n \in Nat /\ n < Base
      /\ Base = 2 * Half /\ Half \in Nat /\ Width \in Nat
  BY BaseFacts DEF Word
<1>2. /\ p \in Nat \ {0} /\ m \in Nat \ {0} /\ 2^(Width - k) = 2 * p /\ 2^(k + 1) = 2 * m
      /\ Base = (2 * p) * m /\ Width - (k + 1) = Width - k - 1
  <2>1. (Width - k - 1) + 1 = Width - k /\ (Width - k) + k = Width /\ Width - k \in Nat
        /\ Width - (k + 1) = Width - k - 1
    BY <1>1
  <2>2. p \in Nat \ {0} /\ 2^((Width - k - 1) + 1) = 2 * p /\ m \in Nat \ {0} /\ 2^(k + 1) = 2 * m
    BY <1>1, PowerStep
  <2>3. 2^((Width - k) + k) = 2^(Width - k) * 2^k
    BY <1>1, <2>1, PowerSum
  <2>4. QED BY <2>1, <2>2, <2>3 DEF Base
<1>3. PICK hi \in Nat, lo \in Nat, q \in Nat :
        /\ n = 2^(Width - k) * hi + lo /\ lo < 2^(Width - k)
        /\ hi = d * q + r[1] /\ r[1] \in 0..(d - 1)
        /\ r[2] = lo * 2^k + q
  BY DEF DividedTo
<1> DEFINE b == IF lo < p THEN 0 ELSE 1
           rest == IF lo < p THEN lo ELSE lo - p
           low == 2 * (rest * m) + 2 * q
<1>4. n = (2 * p) * hi + lo /\ lo < 2 * p /\ r[2] = lo * m + q
  BY <1>2, <1>3
<1> HIDE DEF p, m
<1>5. b \in {0, 1} /\ rest \in Nat /\ rest < p /\ lo = p * b + rest
  <2>1. CASE lo < p
    BY <1>2, <1>3, <1>4, <2>1
  <2>2. CASE ~(lo < p)
    BY <1>2, <1>3, <1>4, <2>2
  <2>3. QED BY <2>1, <2>2
<1> HIDE DEF b, rest
<1>6. hi < m
  <2>1. SUFFICES ASSUME hi >= m PROVE FALSE
    BY <1>2, <1>3
  <2>2. (2 * p) * hi >= (2 * p) * m
    BY <1>2, <1>3, <2>1
  <2>3. (2 * p) * hi \in Nat
    BY <1>2, <1>3
  <2>4. QED BY <1>1, <1>2, <1>3, <1>4, <2>2, <2>3
<1>7. q <= hi
  <2>1. d * q >= q
    BY <1>3
  <2>2. d * q \in Nat /\ r[1] \in Nat
    BY <1>3
  <2>3. QED BY <1>3, <2>1, <2>2
<1>8. low \in Nat /\ low + 1 < Base
  <2>1. rest * m <= (p - 1) * m
    BY <1>2, <1>5
  <2>2. (p - 1) * m = p * m - m /\ (2 * p) * m = 2 * (p * m)
    BY <1>2
  <2>3. rest * m \in Nat /\ p * m \in Nat
    BY <1>2, <1>5
  <2>4. q < m
    BY <1>2, <1>3, <1>6, <1>7
  <2> DEFINE x == rest * m
             y == p * m
  <2>5. x \in Nat /\ y \in Nat /\ x <= y - m /\ Base = 2 * y
    BY <1>2, <2>1, <2>2, <2>3
  <2> HIDE DEF x, y
  <2>6. 2 * x + 2 * q + 1 < Base /\ 2 * x + 2 * q \in Nat
    BY <1>2, <1>3, <2>4, <2>5
  <2>7. QED BY <2>6 DEF x
<1>9. 2 * r[2] = Base * b + low
  <2>1. CASE b = 0
    <3>1. lo * m = rest * m /\ rest * m \in Nat
      BY <1>2, <1>5, <2>1
    <3>2. Base * b = 0
      BY <1>1, <2>1
    <3>3. r[2] = rest * m + q
      BY <1>4, <3>1
    <3>4. QED BY <1>3, <3>1, <3>2, <3>3
  <2>2. CASE b = 1
    <3>1. lo * m = p * m + rest * m /\ rest * m \in Nat /\ p * m \in Nat
      BY <1>2, <1>5, <2>2
    <3>2. (2 * p) * m = 2 * (p * m)
      BY <1>2
    <3>3. Base * b = 2 * (p * m)
      BY <1>1, <1>2, <2>2, <3>2
    <3>4. QED BY <1>3, <1>4, <3>1, <3>3
  <2>3. QED BY <1>5, <2>1, <2>2
<1>10. r[1] < d /\ r[1] \in Nat
  BY <1>3
<1> HIDE DEF low
<1>11. DivTurn(d, r) = IF 2 * r[1] + b < d THEN <<2 * r[1] + b, low>>
                       ELSE <<2 * r[1] + b - d, low + 1>>
  BY <1>5, <1>8, <1>9, <1>10, TurnDivides
<1> DEFINE more == IF 2 * r[1] + b < d THEN 0 ELSE 1
           t == DivTurn(d, r)
<1>12. /\ t[1] = 2 * r[1] + b - d * more /\ t[1] \in 0..(d - 1)
       /\ t[2] = low + more /\ more \in {0, 1}
  <2>1. CASE 2 * r[1] + b < d
    BY <1>5, <1>10, <1>11, <2>1, <1>8
  <2>2. CASE ~(2 * r[1] + b < d)
    BY <1>5, <1>10, <1>11, <2>2, <1>8
  <2>3. QED BY <2>1, <2>2
<1> HIDE DEF more, t
<1>13. /\ n = p * (2 * hi + b) + rest /\ 2 * hi + b \in Nat
  <2>1. p * (2 * hi + b) = (2 * p) * hi + p * b
    BY <1>2, <1>3, <1>5
  <2>2. (2 * p) * hi \in Nat /\ p * b \in Nat
    BY <1>2, <1>3, <1>5
  <2>3. QED BY <1>3, <1>4, <1>5, <2>1, <2>2
<1>14. 2 * hi + b = d * (2 * q + more) + t[1] /\ 2 * q + more \in Nat
  <2>1. 2 * (d * q + r[1]) + b = d * (2 * q + more) + (2 * r[1] + b - d * more)
    BY <1>3, <1>5, <1>10, <1>12
  <2>2. QED BY <1>3, <1>12, <2>1
<1>15. t[2] = rest * (2 * m) + (2 * q + more)
  <2>1. rest * (2 * m) = 2 * (rest * m) /\ rest * m \in Nat
    BY <1>2, <1>5
  <2>2. QED BY <1>3, <1>12, <2>1 DEF low
<1>16. rest < 2^(Width - (k + 1)) /\ n = 2^(Width - (k + 1)) * (2 * hi + b) + rest
       /\ t[2] = rest * 2^(k + 1) + (2 * q + more)
  BY <1>2, <1>5, <1>13, <1>15 DEF p
<1>17. \E h2, l2, q2 \in Nat :
         /\ n = 2^(Width - (k + 1)) * h2 + l2 /\ l2 < 2^(Width - (k + 1))
         /\ h2 = d * q2 + t[1] /\ t[1] \in 0..(d - 1)
         /\ t[2] = l2 * 2^(k + 1) + q2
  BY <1>5, <1>12, <1>13, <1>14, <1>16
<1>18. QED BY <1>17 DEF DividedTo, t

(* "/" divides by everything up to half of what a word holds.              *)
LEMMA DivideQuotient ==
  ASSUME NEW s, s[1] \in Word, s[2] \in Word, 1 <= s[2], s[2] <= Half
  PROVE  Divide(s) = <<s[1] \div s[2]>>
<1> DEFINE n == s[1]
           d == s[2]
           start == <<0, n>>
           S == Word \X Word
           F == [x \in S |-> DivTurn(d, x)]
           g == CHOOSE f : f = [k \in 0..Width |-> IF k = 0 THEN start ELSE DivTurn(d, f[k - 1])]
<1>1. Divide(s) = <<g[Width][2]>>
  BY DEF Divide, Shifted
<1>2. /\ n \in Nat /\ n < Base /\ d \in Nat /\ 1 <= d /\ d <= Half /\ d \in Word /\ n \in Word
      /\ Width \in Nat /\ Half \in Nat
  BY BaseFacts DEF Word
<1>3. start \in S
  BY OneIsWord
<1> HIDE DEF n, d, start
<1>4. F \in [S -> S]
  BY <1>2, TurnIsDouble
<1>5. g = [k \in 0..Width |-> IF k = 0 THEN start ELSE DivTurn(d, g[k - 1])]
  <2>1. PICK f : IsRun(f, S, F, start, Width)
    <3> HIDE DEF F, S
    <3>1. QED BY <1>2, <1>3, <1>4, TurnsExist
  <2>2. \A k \in 0..Width : k = 0 \/ F[f[k - 1]] = DivTurn(d, f[k - 1])
    <3>1. \A k \in 0..Width : k = 0 \/ k - 1 \in 0..Width
      BY <1>2
    <3>2. f \in [0..Width -> S]
      <4> HIDE DEF F, S
      <4>1. QED BY <2>1 DEF IsRun
    <3>3. QED BY <3>1, <3>2
  <2>3. f = [k \in 0..Width |-> IF k = 0 THEN start ELSE DivTurn(d, f[k - 1])]
    <3> HIDE DEF F, S
    <3>1. QED BY <2>1, <2>2 DEF IsRun
  <2>4. QED BY <2>3
<1> HIDE DEF g, F
<1> DEFINE Good(k) == g[k] \in S /\ DividedTo(n, d, k, g[k])
           X == {k \in Nat : k <= Width /\ ~Good(k)}
<1>6. X = {}
  <2>1. SUFFICES ASSUME X # {} PROVE FALSE
    OBVIOUS
  <2>2. PICK k \in X : \A j \in X : k <= j
    BY <2>1, LeastExists
  <2>3. k \in 0..Width /\ ~Good(k)
    BY <1>2, <2>2
  <2>4. CASE k = 0
    <3>1. g[0] = start
      BY <1>2, <1>5
    <3>2. n = 2^(Width - 0) * 0 + n /\ n < 2^(Width - 0) /\ 0 = d * 0 + 0 /\ n = n * 2^0 + 0
      <4>1. Width - 0 = Width /\ Base * 0 = 0 /\ d * 0 = 0 /\ n * 1 = n
        BY <1>2, BaseFacts
      <4>2. QED BY <1>2, <4>1, SmallPowers DEF Base
    <3>3. DividedTo(n, d, 0, <<0, n>>)
      <4>1. 0 \in 0..(d - 1) /\ 0 \in Nat
        BY <1>2
      <4>2. QED BY <1>2, <3>2, <4>1 DEF DividedTo
    <3>4. QED BY <1>3, <2>3, <2>4, <3>1, <3>3 DEF start
  <2>5. CASE k # 0
    <3>1. k - 1 \in Nat /\ (k - 1) + 1 = k /\ k - 1 \in 0..(Width - 1) /\ k - 1 <= Width /\ ~(k <= k - 1)
      BY <1>2, <2>3, <2>5
    <3>2. k - 1 \notin X
      <4> HIDE DEF X
      <4>1. QED BY <2>2, <3>1
    <3>3. Good(k - 1)
      <4> HIDE DEF Good
      <4>1. QED BY <3>1, <3>2
    <3>4. g[k] = DivTurn(d, g[k - 1])
      BY <1>5, <2>3, <2>5
    <3>5. DividedTo(n, d, (k - 1) + 1, DivTurn(d, g[k - 1]))
      BY <1>2, <3>1, <3>3, DividedOn
    <3>6. DivTurn(d, g[k - 1]) \in S
      BY <1>2, <3>3, TurnIsDouble
    <3>7. QED BY <2>3, <3>1, <3>4, <3>5, <3>6
  <2>6. QED BY <2>4, <2>5
<1>7. DividedTo(n, d, Width, g[Width])
  <2>1. Width \notin X
    BY <1>6
  <2>2. Good(Width)
    <3> HIDE DEF Good
    <3>1. QED BY <1>2, <2>1
  <2>3. QED BY <2>2
<1>8. PICK hi \in Nat, lo \in Nat, q \in Nat :
        /\ n = 2^(Width - Width) * hi + lo /\ lo < 2^(Width - Width)
        /\ hi = d * q + g[Width][1] /\ g[Width][1] \in 0..(d - 1)
        /\ g[Width][2] = lo * 2^Width + q
  BY <1>7 DEF DividedTo
<1>9. lo = 0 /\ n = d * q + g[Width][1] /\ g[Width][2] = q
  <2>1. Width - Width = 0 /\ Base \in Nat /\ 0 * Base = 0
    BY <1>2, BaseFacts
  <2>2. lo = 0 /\ n = hi
    <3>1. 2^(Width - Width) = 1
      BY <2>1, SmallPowers
    <3>2. lo < 1 /\ n = 1 * hi + lo
      BY <1>8, <3>1
    <3>3. QED BY <3>2
  <2>3. QED BY <1>8, <2>1, <2>2 DEF Base
<1>10. (d * q + g[Width][1]) \div d = q
  <2> DEFINE u == g[Width][1]
  <2>1. u \in 0..(d - 1) /\ d \in Nat \ {0} /\ q \in Int
    BY <1>2, <1>8
  <2> HIDE DEF u
  <2>2. (d * q + u) \div d = q
    BY <2>1, DivisionUnique
  <2>3. QED BY <2>2 DEF u
<1>11. QED BY <1>1, <1>9, <1>10 DEF n, d
----------------------------------------------------------------------------
(* What a word finds on the stack, and what it leaves when it is done.     *)
ArgumentsAreWords ==
  /\ word \in SingleWords \cup {"DINVERT"} => args[1] \in Word /\ args[2] \in Word
  /\ word \in RangeWords => args[1] \in Word /\ args[2] \in Word /\ args[3] \in Word
  /\ word \in DoubleWords \cup {"D/"} =>
       args[1] \in Word /\ args[2] \in Word /\ args[3] \in Word /\ args[4] \in Word
  /\ word \in ShiftWords => args[1] \in Word /\ args[2] \in Word /\ args[3] \in Nat

(* Every word but D/ computes its results in one step.                     *)
ResultsAreLeft == done /\ word # "D/" => stack = Results(word, args)

(* The inductive invariant of the words that run in one step.              *)
WordsInv == word \in Words /\ ArgumentsAreWords /\ ResultsAreLeft

(* The operands that are tried are words, the shift amounts numbers.       *)
LEMMA ArgumentsFound == word \in Words /\ args \in Arguments(word) => ArgumentsAreWords
<1> SUFFICES ASSUME word \in Words, args \in Arguments(word) PROVE ArgumentsAreWords
  OBVIOUS
<1>1. /\ Single \subseteq Word /\ Double \subseteq Word
  BY ArithmeticAssumption DEF ArithmeticAssumption
<1>2. word \in SingleWords => args[1] \in Word /\ args[2] \in Word
  <2>1. word \in SingleWords => args \in Single \X Single
    BY DEF Arguments, SingleWords, RangeWords, DoubleWords, ShiftWords
  <2>2. QED BY <1>1, <2>1
<1>3. word \in RangeWords => args[1] \in Word /\ args[2] \in Word /\ args[3] \in Word
  <2>1. word \in RangeWords => args \in Single \X Single \X Single
    BY DEF Arguments, SingleWords, RangeWords, DoubleWords, ShiftWords
  <2>2. QED BY <1>1, <2>1
<1>4. word \in DoubleWords \cup {"D/"} =>
        args[1] \in Word /\ args[2] \in Word /\ args[3] \in Word /\ args[4] \in Word
  <2>1. word \in DoubleWords \cup {"D/"} => args \in Double \X Double \X Double \X Double
    BY DEF Arguments, SingleWords, RangeWords, DoubleWords, ShiftWords
  <2>2. QED BY <1>1, <2>1
<1>5. word \in ShiftWords => args[1] \in Word /\ args[2] \in Word /\ args[3] \in Nat
  <2>1. word \in ShiftWords => args \in Single \X Single \X (0..(2 * Width + 1))
    BY DEF Arguments, SingleWords, RangeWords, DoubleWords, ShiftWords
  <2>2. 0..(2 * Width + 1) \subseteq Nat
    BY BaseFacts
  <2>3. QED BY <1>1, <2>1, <2>2
<1>6. word = "DINVERT" => args[1] \in Word /\ args[2] \in Word
  <2>1. word = "DINVERT" => args \in Single \X Single
    BY DEF Arguments, SingleWords, RangeWords, DoubleWords, ShiftWords
  <2>2. QED BY <1>1, <2>1
<1>7. QED BY <1>2, <1>3, <1>4, <1>5, <1>6 DEF ArgumentsAreWords

(* No word has left anything at the start.                                 *)
LEMMA WordsInvInit == Init => WordsInv
<1>1. Init => word \in Words /\ args \in Arguments(word) /\ ~done
  BY DEF Init
<1>2. QED BY <1>1, ArgumentsFound DEF WordsInv, ResultsAreLeft

(* The operands stay, and a word that is done does not run again.          *)
LEMMA WordsInvStep == WordsInv /\ [Next]_avars => WordsInv'
<1> SUFFICES ASSUME WordsInv, [Next]_avars PROVE WordsInv'
  OBVIOUS
<1>1. CASE Execute
  BY <1>1 DEF WordsInv, Execute, ArgumentsAreWords, ResultsAreLeft
<1>2. CASE DivLoop
  BY <1>2 DEF WordsInv, DivLoop, ArgumentsAreWords, ResultsAreLeft
<1>3. CASE UNCHANGED avars
  BY <1>3 DEF WordsInv, avars, ArgumentsAreWords, ResultsAreLeft
<1>4. QED BY <1>1, <1>2, <1>3 DEF Next

(* The invariant holds in every state.                                     *)
LEMMA WordsInvAlways == Spec => []WordsInv
BY WordsInvInit, WordsInvStep, PTL DEF Spec

(* What the doubles' words leave is right: neither the carry nor the       *)
(* borrow between the words is lost or applied twice, for every width of   *)
(* a word and all operands.                                                *)
THEOREM ArithmeticDoubles == Spec => []DoublesCorrect
<1>1. WordsInv => DoublesCorrect
  <2> SUFFICES ASSUME WordsInv, done PROVE DoublesCorrect
    BY DEF DoublesCorrect
  <2>1. word # "D/" => stack = Results(word, args)
    BY DEF WordsInv, ResultsAreLeft
  <2>2. CASE word = "D+"
    <3>1. stack = DAdd(args)
      BY <2>1, <2>2 DEF Results
    <3>2. args[1] \in Word /\ args[2] \in Word /\ args[3] \in Word /\ args[4] \in Word
      BY <2>2 DEF WordsInv, ArgumentsAreWords, DoubleWords
    <3>3. QED BY <2>2, <3>1, <3>2, DAddNum DEF DoublesCorrect, First, Second
  <2>3. CASE word = "D-"
    <3>1. stack = DSub(args)
      BY <2>1, <2>3 DEF Results
    <3>2. args[1] \in Word /\ args[2] \in Word /\ args[3] \in Word /\ args[4] \in Word
      BY <2>3 DEF WordsInv, ArgumentsAreWords, DoubleWords
    <3>3. QED BY <2>3, <3>1, <3>2, DSubNum DEF DoublesCorrect, First, Second
  <2>4. CASE word = "D*"
    <3>1. stack = DMul(args)
      BY <2>1, <2>4 DEF Results
    <3>2. args[1] \in Word /\ args[2] \in Word /\ args[3] \in Word /\ args[4] \in Word
      BY <2>4 DEF WordsInv, ArgumentsAreWords, DoubleWords
    <3>3. args[1] * args[3] < Base => Num(DMul(args)) = (First * Second) % DoubleBase
      BY <3>2, DMulNum DEF First, Second
    <3>4. QED BY <2>4, <3>1, <3>3 DEF DoublesCorrect
  <2>5. CASE word = "D>>"
    <3>1. stack = DSr(args)
      BY <2>1, <2>5 DEF Results
    <3>2. args[1] \in Word /\ args[2] \in Word /\ args[3] \in Nat
      BY <2>5 DEF WordsInv, ArgumentsAreWords, ShiftWords
    <3>3. Num(DSr(args)) = First \div 2^args[3]
      BY <3>2, DSrNum DEF First
    <3>4. QED BY <2>5, <3>1, <3>3 DEF DoublesCorrect
  <2>6. CASE word = "D<<"
    <3>1. stack = DSl(args)
      BY <2>1, <2>6 DEF Results
    <3>2. args[1] \in Word /\ args[2] \in Word /\ args[3] \in Nat
      BY <2>6 DEF WordsInv, ArgumentsAreWords, ShiftWords
    <3>3. Num(DSl(args)) = (First * 2^args[3]) % DoubleBase
      BY <3>2, DSlNum DEF First
    <3>4. QED BY <2>6, <3>1, <3>3 DEF DoublesCorrect
  <2>7. CASE word = "DINVERT"
    <3>1. stack = DInvert(args)
      BY <2>1, <2>7 DEF Results
    <3>2. args[1] \in Word /\ args[2] \in Word
      BY <2>7 DEF WordsInv, ArgumentsAreWords
    <3>3. Num(DInvert(args)) = DoubleBase - 1 - First
      BY <3>2, DInvertNum DEF First
    <3>4. QED BY <2>7, <3>1, <3>3 DEF DoublesCorrect
  <2>8. CASE word \notin {"D+", "D-", "D*", "D>>", "D<<", "DINVERT"}
    BY <2>8 DEF DoublesCorrect
  <2>9. QED BY <2>2, <2>3, <2>4, <2>5, <2>6, <2>7, <2>8
<1>2. QED BY <1>1, WordsInvAlways, PTL

(* U< and U> give the unsigned order, and <, <=, > and >= give the signed  *)
(* one exactly when both operands have the same sign, for every width of a *)
(* word; the range words give the signed one while no difference overflows.*)
THEOREM ArithmeticOrders == Spec => []OrderCorrect
<1>1. WordsInv => OrderCorrect
  <2> SUFFICES ASSUME WordsInv, done PROVE OrderCorrect
    BY DEF OrderCorrect
  <2>1. word # "D/" => stack = Results(word, args)
    BY DEF WordsInv, ResultsAreLeft
  <2>2. ASSUME word \in {"<", "U<", "<=", ">", "U>", ">="}
        PROVE  /\ Lt(args)[1] = Flag(args[1] < args[2]) /\ Lte(args)[1] = Flag(args[1] <= args[2])
               /\ Gt(args)[1] = Flag(args[1] > args[2]) /\ Gte(args)[1] = Flag(args[1] >= args[2])
               /\ args[1] \in Word /\ args[2] \in Word
    <3>1. args[1] \in Word /\ args[2] \in Word
      BY <2>2 DEF WordsInv, ArgumentsAreWords, SingleWords
    <3>2. QED BY <3>1, OrderWords
  <2> DEFINE a == args[1]
             b == args[2]
             x == Signed(a)
             y == Signed(b)
             same == x < 0 <=> y < 0
  <2>3. ASSUME a \in Word, b \in Word
        PROVE  /\ Flag(a < b) = Flag(x < y) <=> same
               /\ Flag(a <= b) = Flag(x <= y) <=> same
               /\ Flag(a > b) = Flag(x > y) <=> same
               /\ Flag(a >= b) = Flag(x >= y) <=> same
    <3>1. a \in Int /\ b \in Int /\ x \in Int /\ y \in Int
      BY <2>3, SignedOf, BaseFacts DEF Word
    <3>2. /\ ((a < b) <=> (x < y)) <=> same
          /\ ((a <= b) <=> (x <= y)) <=> same
      BY <2>3, SignedOrder
    <3>3. /\ ((b < a) <=> (y < x)) <=> same
          /\ ((b <= a) <=> (y <= x)) <=> same
      <4>1. /\ ((b < a) <=> (y < x)) <=> (y < 0 <=> x < 0)
            /\ ((b <= a) <=> (y <= x)) <=> (y < 0 <=> x < 0)
        BY <2>3, SignedOrder
      <4>2. QED BY <4>1
    <3> HIDE DEF a, b, x, y
    <3>4. QED BY <3>1, <3>2, <3>3 DEF Flag
  <2>4. Flag(a < b) \in {0, 1} /\ Flag(a <= b) \in {0, 1} /\ Flag(a > b) \in {0, 1} /\ Flag(a >= b) \in {0, 1}
    BY DEF Flag
  <2>5. CASE word = "U<"
    <3>1. stack = Lt(args)
      BY <2>1, <2>5 DEF Results
    <3>2. QED BY <2>2, <2>5, <3>1 DEF OrderCorrect, RangeWords
  <2>6. CASE word = "U>"
    <3>1. stack = Gt(args)
      BY <2>1, <2>6 DEF Results
    <3>2. QED BY <2>2, <2>6, <3>1 DEF OrderCorrect, RangeWords
  <2>7. CASE word = "<"
    <3>1. stack[1] = Flag(a < b)
      BY <2>1, <2>2, <2>7 DEF Results
    <3>2. a \in Word /\ b \in Word
      BY <2>2, <2>7
    <3>3. stack[1] = Flag(x < y) <=> same
      BY <2>3, <3>1, <3>2
    <3>4. SignedIffSameSign(x < y)
      BY <2>4, <3>1, <3>3 DEF SignedIffSameSign
    <3>5. QED BY <2>7, <3>4 DEF OrderCorrect, RangeWords
  <2>8. CASE word = "<="
    <3>1. stack[1] = Flag(a <= b)
      BY <2>1, <2>2, <2>8 DEF Results
    <3>2. a \in Word /\ b \in Word
      BY <2>2, <2>8
    <3>3. stack[1] = Flag(x <= y) <=> same
      BY <2>3, <3>1, <3>2
    <3>4. SignedIffSameSign(x <= y)
      BY <2>4, <3>1, <3>3 DEF SignedIffSameSign
    <3>5. QED BY <2>8, <3>4 DEF OrderCorrect, RangeWords
  <2>9. CASE word = ">"
    <3>1. stack[1] = Flag(a > b)
      BY <2>1, <2>2, <2>9 DEF Results
    <3>2. a \in Word /\ b \in Word
      BY <2>2, <2>9
    <3>3. stack[1] = Flag(x > y) <=> same
      BY <2>3, <3>1, <3>2
    <3>4. SignedIffSameSign(x > y)
      BY <2>4, <3>1, <3>3 DEF SignedIffSameSign
    <3>5. QED BY <2>9, <3>4 DEF OrderCorrect, RangeWords
  <2>10. CASE word = ">="
    <3>1. stack[1] = Flag(a >= b)
      BY <2>1, <2>2, <2>10 DEF Results
    <3>2. a \in Word /\ b \in Word
      BY <2>2, <2>10
    <3>3. stack[1] = Flag(x >= y) <=> same
      BY <2>3, <3>1, <3>2
    <3>4. SignedIffSameSign(x >= y)
      BY <2>4, <3>1, <3>3 DEF SignedIffSameSign
    <3>5. QED BY <2>10, <3>4 DEF OrderCorrect, RangeWords
  <2>11. CASE word \in RangeWords
    <3>1. args[1] \in Word /\ args[2] \in Word /\ args[3] \in Word
      BY <2>11 DEF WordsInv, ArgumentsAreWords
    <3>2. Base \div 2 = Half
      BY BaseFacts
    <3>3. word = ">=<" => stack = Between(args)
      BY <2>1 DEF Results
    <3>4. word = ">|<" => stack = Within(args)
      BY <2>1 DEF Results
    <3>5. SUFFICES ASSUME Signed(args[1]) - Signed(args[3]) \in -Half..(Half - 1),
                          Signed(args[2]) - Signed(args[1]) \in -Half..(Half - 1)
                   PROVE  stack[1] = Flag(IF word = ">=<"
                            THEN Signed(args[3]) <= Signed(args[1]) /\ Signed(args[1]) <= Signed(args[2])
                            ELSE Signed(args[3]) < Signed(args[1]) /\ Signed(args[1]) < Signed(args[2]))
      BY <2>11, <3>2 DEF OrderCorrect, RangeWords
    <3>6. /\ Between(args)[1] = Flag(Signed(args[3]) <= Signed(args[1]) /\ Signed(args[1]) <= Signed(args[2]))
          /\ Within(args)[1] = Flag(Signed(args[3]) < Signed(args[1]) /\ Signed(args[1]) < Signed(args[2]))
      BY <3>1, <3>5, RangeOrder
    <3>7. QED BY <2>11, <3>3, <3>4, <3>6 DEF RangeWords
  <2>12. CASE word \notin {"<", "U<", "<=", ">", "U>", ">="} \cup RangeWords
    BY <2>12 DEF OrderCorrect
  <2>13. QED BY <2>5, <2>6, <2>11, <2>12, <2>7, <2>8, <2>9, <2>10
<1>2. QED BY <1>1, WordsInvAlways, PTL

(* "/" leaves the quotient of every dividend by every divisor up to half   *)
(* of what a word holds.                                                   *)
THEOREM ArithmeticDivides == Spec => []DivideCorrect
<1>1. WordsInv => DivideCorrect
  <2> SUFFICES ASSUME WordsInv, done, word = "/", args[2] \in 1..(Base \div 2)
               PROVE  stack = <<args[1] \div args[2]>>
    BY DEF DivideCorrect
  <2>1. stack = Divide(args)
    BY DEF WordsInv, ResultsAreLeft, Results
  <2>2. args[1] \in Word /\ args[2] \in Word
    BY DEF WordsInv, ArgumentsAreWords, SingleWords
  <2>3. 1 <= args[2] /\ args[2] <= Half
    <3>1. Base \div 2 = Half
      BY BaseFacts
    <3>2. QED BY <3>1
  <2>4. QED BY <2>1, <2>2, <2>3, DivideQuotient
<1>2. QED BY <1>1, WordsInvAlways, PTL
----------------------------------------------------------------------------
(* The bits of a double are those of its words.                            *)
LEMMA DoubleBit ==
  ASSUME NEW d, IsDouble(d), NEW i \in 0..(2 * Width - 1)
  PROVE  HasBit(Num(d), i) <=> IF i < Width THEN HasBit(d[1], i) ELSE HasBit(d[2], i - Width)
<1>1. /\ d[1] \in Nat /\ d[2] \in Nat /\ d[1] < Base /\ Base \in Nat \ {0} /\ i \in Nat
      /\ Num(d) = d[1] + Base * d[2] /\ Width \in Nat
  BY DoubleFacts, BaseFacts
<1>2. CASE i < Width
  <2> DEFINE p == 2^i
             t == 2^(Width - 1 - i)
             q == d[1] \div p
             r == d[1] % p
  <2>1. p \in Nat \ {0} /\ t \in Nat \ {0} /\ Base = p * (2 * t)
    <3>1. Width - 1 - i \in Nat /\ i + (Width - 1 - i) = Width - 1 /\ (Width - 1) + 1 = Width /\ Width - 1 \in Nat
      BY <1>1, <1>2
    <3>2. p \in Nat \ {0} /\ t \in Nat \ {0} /\ 2^(i + (Width - 1 - i)) = p * t /\ 2^((Width - 1) + 1) = 2 * 2^(Width - 1)
      BY <1>1, <3>1, PowerStep, PowerSum
    <3> HIDE DEF p, t
    <3>3. Base = 2 * (p * t)
      BY <3>1, <3>2 DEF Base
    <3>4. QED BY <3>2, <3>3
  <2> HIDE DEF p, t
  <2>2. q \in Int /\ r \in 0..(p - 1) /\ d[1] = p * q + r
    <3>1. d[1] \in Int /\ p \in Nat \ {0}
      BY <1>1, <2>1
    <3>2. QED BY <3>1, DivisionFacts
  <2> HIDE DEF q, r
  <2>3. Num(d) = p * (q + 2 * (t * d[2])) + r
    <3>1. (p * (2 * t)) * d[2] + p * q = p * (q + 2 * (t * d[2]))
      BY <1>1, <2>1, <2>2
    <3>2. p * q \in Int /\ (p * (2 * t)) * d[2] \in Int
      BY <1>1, <2>1, <2>2
    <3>3. Num(d) = (p * q + r) + (p * (2 * t)) * d[2]
      BY <1>1, <2>1, <2>2
    <3>4. QED BY <2>2, <3>1, <3>2, <3>3
  <2>4. Num(d) \div p = q + 2 * (t * d[2])
    <3> DEFINE u == q + 2 * (t * d[2])
    <3>1. u \in Int
      BY <1>1, <2>1, <2>2
    <3> HIDE DEF u
    <3>2. (p * u + r) \div p = u
      BY <2>1, <2>2, <3>1, DivisionUnique
    <3>3. QED BY <2>3, <3>2 DEF u
  <2>5. (q + 2 * (t * d[2])) % 2 = q % 2
    <3> DEFINE u == t * d[2]
    <3>1. u \in Int
      BY <1>1, <2>1
    <3> HIDE DEF u
    <3>2. (q + 2 * u) % 2 = q % 2
      BY <2>2, <3>1
    <3>3. QED BY <3>2 DEF u
  <2>6. QED BY <1>2, <2>4, <2>5 DEF HasBit, p, q
<1>3. CASE ~(i < Width)
  <2> DEFINE p == 2^(i - Width)
             q == d[2] \div p
             r == d[2] % p
             wide == Base * p
             low == Base * r + d[1]
  <2>1. p \in Nat \ {0} /\ 2^i = wide
    <3>1. i - Width \in Nat /\ Width + (i - Width) = i
      BY <1>1, <1>3
    <3>2. p \in Nat \ {0} /\ 2^(Width + (i - Width)) = 2^Width * p
      BY <1>1, <3>1, PowerStep, PowerSum
    <3>3. QED BY <3>1, <3>2 DEF Base
  <2> HIDE DEF p
  <2>2. q \in Int /\ r \in 0..(p - 1) /\ d[2] = p * q + r
    <3>1. d[2] \in Int /\ p \in Nat \ {0}
      BY <1>1, <2>1
    <3>2. QED BY <3>1, DivisionFacts
  <2> HIDE DEF q, r
  <2>3. wide \in Nat \ {0} /\ low \in 0..(wide - 1)
    <3>1. Base * r <= Base * (p - 1) /\ Base * (p - 1) = Base * p - Base
      BY <1>1, <2>1, <2>2
    <3>2. Base * r \in Nat /\ Base * p \in Nat /\ Base * p # 0
      BY <1>1, <2>1, <2>2
    <3>3. QED BY <1>1, <3>1, <3>2
  <2>4. Num(d) = wide * q + low
    <3>1. Base * (p * q + r) = (Base * p) * q + Base * r
      BY <1>1, <2>1, <2>2
    <3>2. (Base * p) * q \in Int /\ Base * r \in Int
      BY <1>1, <2>1, <2>2
    <3>3. QED BY <1>1, <2>2, <3>1, <3>2
  <2> HIDE DEF wide, low
  <2>5. Num(d) \div wide = q
    BY <2>2, <2>3, <2>4, DivisionUnique
  <2>6. QED BY <1>3, <2>1, <2>5 DEF HasBit, q, p
<1>4. QED BY <1>2, <1>3

(* The index of a bit of a double is compared, cut to its word and counted *)
(* down as a number is.                                                    *)
LEMMA IndexIsWord ==
  ASSUME NEW i \in 0..(2 * Width - 1)
  PROVE  /\ i \in Word /\ (Cmp(i, Width).flags.c <=> i < Width)
         /\ ~(i < Width) => Sub(i, Width).value = i - Width /\ i - Width \in 0..(Width - 1)
         /\ i # 0 => Sub(i, 1).value = i - 1
<1>1. i \in Nat /\ i \in Word /\ Width \in Word /\ Width \in Nat
  BY BaseFacts DEF Word
<1>2. Cmp(i, Width).flags.c <=> i < Width
  BY <1>1, Compared DEF Less
<1>3. Sub(i, Width).value = IF i < Width THEN i - Width + Base ELSE i - Width
  BY <1>1, Compared
<1>4. Sub(i, 1).value = IF i < 1 THEN i - 1 + Base ELSE i - 1
  BY <1>1, OneIsWord, Compared
<1>5. QED BY <1>1, <1>2, <1>3, <1>4

(* Setting a bit of a double that is not set adds it.                      *)
LEMMA WithBitNum ==
  ASSUME NEW d, IsDouble(d), NEW i \in 0..(2 * Width - 1), ~HasBit(Num(d), i)
  PROVE  IsDouble(WithBit(d, i)) /\ Num(WithBit(d, i)) = Num(d) + 2^i
<1>1. /\ d[1] \in Word /\ d[2] \in Word /\ d[1] \in Nat /\ d[2] \in Nat /\ Base \in Nat
      /\ i \in Nat /\ Width \in Nat
  BY DoubleFacts, BaseFacts DEF IsDouble
<1>2. 2^i \in Nat
  BY <1>1, PowerStep
<1>3. CASE i < Width
  <2>1. SetBit(d[1], i, <<>>).value = d[1] + 2^i /\ SetBit(d[1], i, <<>>).value \in Word
    <3>1. i \in 0..(Width - 1) /\ ~HasBit(d[1], i)
      BY <1>1, <1>3, DoubleBit
    <3>2. QED BY <1>1, <3>1, SetBitOf
  <2>2. WithBit(d, i) = <<d[1] + 2^i, d[2]>>
    BY <1>3, <2>1, IndexIsWord DEF WithBit
  <2>3. Num(WithBit(d, i)) = (d[1] + 2^i) + Base * d[2] /\ Base * d[2] \in Nat
    BY <1>1, <2>2 DEF Num
  <2>4. QED BY <1>1, <1>2, <2>1, <2>2, <2>3 DEF IsDouble, Num
<1>4. CASE ~(i < Width)
  <2> DEFINE j == i - Width
  <2>1. j \in 0..(Width - 1) /\ Sub(i, Width).value = j /\ Width + j = i /\ j \in Nat
    BY <1>1, <1>4, IndexIsWord
  <2>2. SetBit(d[2], j, <<>>).value = d[2] + 2^j /\ SetBit(d[2], j, <<>>).value \in Word
    <3>1. ~HasBit(d[2], j)
      BY <1>4, DoubleBit
    <3> HIDE DEF j
    <3>2. QED BY <1>1, <2>1, <3>1, SetBitOf
  <2> HIDE DEF j
  <2>3. WithBit(d, i) = <<d[1], d[2] + 2^j>>
    BY <1>4, <2>1, <2>2, IndexIsWord DEF WithBit
  <2>4. 2^j \in Nat /\ Base * 2^j = 2^i
    <3>1. 2^(Width + j) = 2^Width * 2^j /\ 2^j \in Nat
      BY <1>1, <2>1, PowerSum, PowerStep
    <3>2. QED BY <2>1, <3>1 DEF Base
  <2>5. Base * (d[2] + 2^j) = Base * d[2] + Base * 2^j /\ Base * d[2] \in Nat
    BY <1>1, <2>4
  <2>6. Num(WithBit(d, i)) = d[1] + Base * (d[2] + 2^j)
    BY <2>3 DEF Num
  <2>7. Num(WithBit(d, i)) = Num(d) + 2^i
    <3>1. Num(WithBit(d, i)) = d[1] + (Base * d[2] + 2^i)
      BY <2>4, <2>5, <2>6
    <3>2. QED BY <1>1, <1>2, <2>5, <3>1 DEF Num
  <2>8. IsDouble(WithBit(d, i))
    BY <1>1, <2>2, <2>3 DEF IsDouble
  <2>9. QED BY <2>7, <2>8
<1>5. QED BY <1>3, <1>4

(* The order of doubles is that of their high words first.                 *)
LEMMA AtLeastNum ==
  ASSUME NEW r, IsDouble(r), NEW d, IsDouble(d)
  PROVE  AtLeast(r, d) <=> Num(r) >= Num(d)
<1>1. /\ r[1] \in Nat /\ r[2] \in Nat /\ d[1] \in Nat /\ d[2] \in Nat /\ Base \in Nat
      /\ r[1] < Base /\ d[1] < Base
      /\ Num(r) = r[1] + Base * r[2] /\ Num(d) = d[1] + Base * d[2]
      /\ r[1] \in Word /\ r[2] \in Word /\ d[1] \in Word /\ d[2] \in Word
  BY DoubleFacts, BaseFacts DEF IsDouble
<1>2. /\ Less(d[2], r[2]) <=> d[2] < r[2]
      /\ Less(d[1], r[1]) <=> d[1] < r[1]
  BY <1>1, Compared
<1>3. ASSUME NEW x \in Nat, NEW y \in Nat, x < y
      PROVE  Base * x + Base <= Base * y
  <2>1. Base * (x + 1) <= Base * y
    BY <1>1, <1>3
  <2>2. Base * (x + 1) = Base * x + Base
    BY <1>1, <1>3
  <2>3. QED BY <2>1, <2>2
<1>4. Base * r[2] \in Nat /\ Base * d[2] \in Nat
  BY <1>1
<1>5. CASE d[2] < r[2]
  <2>1. Base * d[2] + Base <= Base * r[2]
    BY <1>1, <1>3, <1>5
  <2>2. Num(r) >= Num(d)
    BY <1>1, <1>4, <2>1
  <2>3. QED BY <1>2, <1>5, <2>2 DEF AtLeast
<1>6. CASE r[2] < d[2]
  <2>1. Base * r[2] + Base <= Base * d[2]
    BY <1>1, <1>3, <1>6
  <2>2. ~(Num(r) >= Num(d))
    BY <1>1, <1>4, <2>1
  <2>3. ~(d[2] < r[2]) /\ d[2] # r[2]
    BY <1>1, <1>6
  <2>4. QED BY <1>2, <2>2, <2>3 DEF AtLeast
<1>7. CASE r[2] = d[2]
  <2>1. Num(r) >= Num(d) <=> r[1] >= d[1]
    BY <1>1, <1>4, <1>7
  <2>2. r[1] >= d[1] <=> d[1] < r[1] \/ d[1] = r[1]
    BY <1>1
  <2>3. ~(d[2] < r[2])
    BY <1>1, <1>7
  <2>4. QED BY <1>2, <1>7, <2>1, <2>2, <2>3 DEF AtLeast
<1>8. QED BY <1>1, <1>5, <1>6, <1>7

(* Taking a double from one that is not smaller borrows nothing.           *)
LEMMA MinusNum ==
  ASSUME NEW r, IsDouble(r), NEW d, IsDouble(d), Num(r) >= Num(d)
  PROVE  IsDouble(Minus(r, d)) /\ Num(Minus(r, d)) = Num(r) - Num(d)
<1> DEFINE s == <<r[1], r[2], d[1], d[2]>>
<1>1. s[1] \in Word /\ s[2] \in Word /\ s[3] \in Word /\ s[4] \in Word
  BY DEF IsDouble
<1>2. Num(<<s[1], s[2]>>) = Num(r) /\ Num(<<s[3], s[4]>>) = Num(d)
  BY DEF Num
<1>3. Num(r) - Num(d) \in 0..(DoubleBase - 1) /\ DoubleBase \in Nat \ {0}
  BY DoubleFacts
<1>4. (Num(r) - Num(d)) % DoubleBase = Num(r) - Num(d)
  BY <1>3
<1> HIDE DEF s
<1>5. IsDouble(DSub(s)) /\ Num(DSub(s)) = (Num(r) - Num(d)) % DoubleBase
  BY <1>1, <1>2, DSubNum
<1>6. QED BY <1>4, <1>5 DEF Minus, s
----------------------------------------------------------------------------
(* n divided by d gives q, and r is left.                                  *)
Divided(n, d, q, r) ==
  /\ d \in Nat \ {0} /\ q \in Nat /\ r \in Nat
  /\ r < d /\ n = q * d + r

(* Bit b is brought down to the remainder.                                 *)
Brought(d, b, q, r, q2, r2) ==
  LET s == 2 * r + b
  IN  \/ s >= d /\ r2 = s - d /\ q2 = 2 * q + 1
      \/ s < d /\ r2 = s /\ q2 = 2 * q

(* A turn of long division.  Bringing a bit down doubles both sides of the *)
(* division and adds the bit; what the subtraction takes from the          *)
(* remainder it gives the quotient.                                        *)
LEMMA LongTurn ==
  ASSUME NEW high \in Nat, NEW more \in Nat, more = 2 * high \/ more = 2 * high + 1,
         NEW d, NEW q, NEW r, NEW q2, NEW r2,
         Divided(high, d, q, r), Brought(d, more - 2 * high, q, r, q2, r2)
  PROVE  Divided(more, d, q2, r2)
<1> DEFINE b == more - 2 * high
<1>1. d \in Nat \ {0} /\ q \in Nat /\ r \in Nat /\ r < d /\ high = q * d + r
  BY DEF Divided
<1>2. b \in {0, 1} /\ more = 2 * high + b
  OBVIOUS
<1>3. q * d \in Nat
  BY <1>1
<1>4. \/ 2 * r + b >= d /\ r2 = 2 * r + b - d /\ q2 = 2 * q + 1
      \/ 2 * r + b < d /\ r2 = 2 * r + b /\ q2 = 2 * q
  BY <1>1, <1>2 DEF Brought
<1> HIDE DEF b
<1>5. CASE 2 * r + b >= d /\ r2 = 2 * r + b - d /\ q2 = 2 * q + 1
  <2>1. (2 * q + 1) * d = 2 * (q * d) + d
    BY <1>1
  <2>2. QED BY <1>1, <1>2, <1>3, <1>5, <2>1 DEF Divided
<1>6. CASE 2 * r + b < d /\ r2 = 2 * r + b /\ q2 = 2 * q
  <2>1. (2 * q) * d = 2 * (q * d)
    BY <1>1
  <2>2. QED BY <1>1, <1>2, <1>3, <1>6, <2>1 DEF Divided
<1>7. QED BY <1>4, <1>5, <1>6

(* The prefixes on both sides of the bit that is next.                     *)
LEMMA PrefixesAround ==
  ASSUME NEW n \in Nat, NEW f \in [0..n -> Nat], NEW k \in 1..n,
         \A j \in 0..(n - 1) : f[j] = 2 * f[j + 1] \/ f[j] = 2 * f[j + 1] + 1
  PROVE  /\ f[k] \in Nat /\ f[k - 1] \in Nat
         /\ f[k - 1] = 2 * f[k] \/ f[k - 1] = 2 * f[k] + 1
<1>1. k - 1 \in 0..(n - 1) /\ (k - 1) + 1 = k /\ k \in 0..n /\ k - 1 \in 0..n
  OBVIOUS
<1>2. QED BY <1>1

LEMMA DividedSoFarInit == LongInit => DividedSoFar
BY DEF LongInit, DividedSoFar, IsNumerator

LEMMA DividedSoFarStep == DividedSoFar /\ [BringDown]_longVars => DividedSoFar'
<1> SUFFICES ASSUME DividedSoFar, BringDown PROVE DividedSoFar'
  BY DEF DividedSoFar, longVars, IsNumerator
<1>1. left \in 1..NumeratorBits /\ left - 1 \in 0..NumeratorBits /\ left' = left - 1
  BY DEF DividedSoFar, BringDown, IsNumerator
<1>2. prefix' = prefix /\ denominator' = denominator
  BY DEF BringDown
<1>3. /\ prefix[left] \in Nat /\ prefix[left - 1] \in Nat
      /\ prefix[left - 1] = 2 * prefix[left] \/ prefix[left - 1] = 2 * prefix[left] + 1
  BY <1>1, PrefixesAround DEF DividedSoFar, IsNumerator
<1>4. Divided(prefix[left - 1], denominator, quotient', remainder')
  <2>1. Divided(prefix[left], denominator, quotient, remainder)
    BY DEF DividedSoFar, Divided
  <2>2. Brought(denominator, NextDown, quotient, remainder, quotient', remainder')
    BY DEF BringDown, Brought
  <2>3. NextDown = prefix[left - 1] - 2 * prefix[left]
    BY DEF NextDown
  <2>4. QED BY <1>3, <2>1, <2>2, <2>3, LongTurn
<1>5. QED BY <1>1, <1>2, <1>4 DEF DividedSoFar, Divided

(* The loop invariant of the division that D/'s comment describes.         *)
THEOREM LoopInvariant == LongSpec => []DividedSoFar
BY DividedSoFarInit, DividedSoFarStep, PTL DEF LongSpec

(* When the loop ends the quotient times the denominator, plus a remainder *)
(* smaller than the denominator, is the numerator: for numerators of any   *)
(* length and every denominator but 0.                                     *)
THEOREM DivisionDivides == LongSpec => []Divides
<1>1. DividedSoFar => Divides
  BY DEF DividedSoFar, Divides
<1>2. QED BY <1>1, LoopInvariant, PTL
----------------------------------------------------------------------------
(* The same of the registers of D/: long division starts with nothing      *)
(* divided.                                                                *)
LEMMA LongStart == Long!LongInit => Long!DividedSoFar
<1> DEFINE d == IF Dividing THEN Second ELSE 1
<1> SUFFICES ASSUME Long!LongInit PROVE Long!DividedSoFar
  OBVIOUS
<1>1. d \in Nat \ {0} /\ Left = 2 * Width /\ 2 * Width \in Nat
  BY DEF Long!LongInit, Long!IsNumerator
<1>2. 0 = 0 * d + 0 /\ 0 < d /\ 0 \in Nat /\ Left \in 0..(2 * Width)
  BY <1>1
<1> DEFINE f == [k \in 0..(2 * Width) |-> IF Dividing THEN First \div 2^k ELSE 0]
           q == IF Dividing THEN Num(quo) \div 2^Left ELSE 0
           r == IF Dividing THEN Num(rem) ELSE 0
<1>3. Long!IsNumerator(f) /\ q = 0 /\ r = 0
  BY DEF Long!LongInit
<1>4. f[Left] = 0
  BY <1>1, <1>3 DEF Long!IsNumerator
<1>5. f[Left] = q * d + r /\ q \in Nat /\ r \in Nat /\ r < d
  <2> HIDE DEF f, q, r, d
  <2>1. QED BY <1>2, <1>3, <1>4
<1>6. QED BY <1>1, <1>2, <1>3, <1>5 DEF Long!DividedSoFar

(* What is divided so far stays so when a bit is brought down.             *)
LEMMA LongStep == Long!DividedSoFar /\ [Long!BringDown]_(Long!longVars) => Long!DividedSoFar'
<1> SUFFICES ASSUME Long!DividedSoFar, Long!BringDown PROVE Long!DividedSoFar'
  BY DEF Long!DividedSoFar, Long!longVars, Long!IsNumerator
<1> DEFINE n == 2 * Width
           f == [k \in 0..(2 * Width) |-> IF Dividing THEN First \div 2^k ELSE 0]
           d == IF Dividing THEN Second ELSE 1
           q == IF Dividing THEN Num(quo) \div 2^Left ELSE 0
           r == IF Dividing THEN Num(rem) ELSE 0
<1>1. /\ n \in Nat /\ f \in [0..n -> Nat] /\ f[n] = 0
      /\ \A k \in 0..(n - 1) : f[k] = 2 * f[k + 1] \/ f[k] = 2 * f[k + 1] + 1
      /\ Left \in 0..n
  BY DEF Long!DividedSoFar, Long!IsNumerator
<1>2. Divided(f[Left], d, q, r)
  BY DEF Long!DividedSoFar, Divided
<1>3. Left > 0 /\ Left' = Left - 1 /\ f' = f /\ d' = d
  BY DEF Long!BringDown
<1>4. Brought(d, Long!NextDown, q, r, q', r') /\ Long!NextDown = f[Left - 1] - 2 * f[Left]
  <2>1. Brought(d, Long!NextDown, q, r, q', r')
    BY DEF Long!BringDown, Brought
  <2>2. Long!NextDown = f[Left - 1] - 2 * f[Left]
    BY DEF Long!NextDown
  <2>3. QED BY <2>1, <2>2
<1>5. /\ f[Left] \in Nat /\ f[Left - 1] \in Nat
      /\ f[Left - 1] = 2 * f[Left] \/ f[Left - 1] = 2 * f[Left] + 1
  <2>1. Left \in 1..n
    BY <1>1, <1>3
  <2> HIDE DEF f, d, q, r, n
  <2>2. QED BY <1>1, <2>1, PrefixesAround
<1>6. Divided(f[Left'], d, q', r') /\ Left' \in 0..n
  <2> HIDE DEF f, d, q, r, n
  <2>1. Divided(f[Left - 1], d, q', r')
    BY <1>2, <1>4, <1>5, LongTurn
  <2>2. QED BY <1>1, <1>3, <2>1
<1>7. Divided(f[Left]', d', q', r')
  <2> HIDE DEF f, d, q, r, n
  <2>1. QED BY <1>3, <1>6
<1>8. n \in Nat /\ (f \in [0..n -> Nat])' /\ (f[n] = 0)'
      /\ (\A k \in 0..(n - 1) : f[k] = 2 * f[k + 1] \/ f[k] = 2 * f[k + 1] + 1)'
      /\ (Left \in 0..n)'
  <2> HIDE DEF f, d, q, r, n
  <2>1. QED BY <1>1, <1>3, <1>6
<1>9. Long!IsNumerator(f)'
  BY <1>8 DEF Long!IsNumerator
<1>10. QED BY <1>7, <1>8, <1>9 DEF Long!DividedSoFar, Divided
----------------------------------------------------------------------------
(* The registers of D/ between two turns of its loop.                      *)
LoopInv ==
  Dividing =>
    /\ idx \in 0..(2 * Width - 1) /\ done \in BOOLEAN
    /\ IsDouble(quo) /\ IsDouble(rem)
    /\ \E c \in Nat : Num(quo) = c * 2^Left
    /\ done => stack = quo
    /\ Long!DividedSoFar

(* The prefixes of a double make up a numerator of long division.          *)
LEMMA Numerators ==
  ASSUME NEW x \in 0..(DoubleBase - 1)
  PROVE  LET f == [k \in 0..(2 * Width) |-> x \div 2^k]
         IN  /\ f \in [0..(2 * Width) -> Nat] /\ f[2 * Width] = 0
             /\ \A k \in 0..(2 * Width - 1) : f[k] = 2 * f[k + 1] \/ f[k] = 2 * f[k + 1] + 1
<1> DEFINE f == [k \in 0..(2 * Width) |-> x \div 2^k]
<1>1. x \in Nat /\ Width \in Nat /\ 2 * Width \in Nat
  BY BaseFacts
<1>2. f \in [0..(2 * Width) -> Nat]
  <2>1. ASSUME NEW k \in 0..(2 * Width) PROVE x \div 2^k \in Nat
    <3>1. k \in Nat
      BY <1>1
    <3>2. 2^k \in Nat \ {0}
      BY <3>1, PowerStep
    <3>3. QED BY <1>1, <3>2
  <2>2. QED BY <2>1
<1>3. f[2 * Width] = 0
  <2>1. 2^(Width + Width) = 2^Width * 2^Width /\ Width + Width = 2 * Width
    BY <1>1, PowerSum
  <2>2. 2^(2 * Width) = DoubleBase
    BY <2>1 DEF DoubleBase, Base
  <2>3. x \div DoubleBase = 0
    <3>1. DoubleBase \in Nat \ {0} \/ DoubleBase = 0
      <4>1. Base \in Nat
        BY BaseFacts
      <4>2. QED BY <4>1 DEF DoubleBase
    <3>2. x < DoubleBase
      BY <3>1
    <3>3. QED BY <1>1, <3>1, <3>2
  <2>4. QED BY <1>1, <2>2, <2>3
<1>4. ASSUME NEW k \in 0..(2 * Width - 1)
      PROVE  f[k] = 2 * f[k + 1] \/ f[k] = 2 * f[k + 1] + 1
  <2>1. k \in Nat /\ k \in 0..(2 * Width) /\ k + 1 \in 0..(2 * Width)
    BY <1>1
  <2>2. f[k] \in Nat /\ f[k + 1] = f[k] \div 2
    <3>1. f[k] = x \div 2^k /\ f[k + 1] = x \div 2^(k + 1)
      BY <2>1
    <3>2. (x \div 2^k) \div 2 = x \div 2^(k + 1)
      BY <1>1, <2>1, HalvedPower
    <3>3. QED BY <1>2, <2>1, <3>1, <3>2
  <2> HIDE DEF f
  <2>3. QED BY <2>2
<1>5. QED BY <1>2, <1>3, <1>4

(* The operands of D/ are doubles.                                         *)
LEMMA OperandsOfDivision ==
  ASSUME WordsInv, word = "D/"
  PROVE  /\ IsDouble(<<args[1], args[2]>>) /\ IsDouble(<<args[3], args[4]>>)
         /\ First \in 0..(DoubleBase - 1) /\ Second \in 0..(DoubleBase - 1)
<1>1. args[1] \in Word /\ args[2] \in Word /\ args[3] \in Word /\ args[4] \in Word
  BY DEF WordsInv, ArgumentsAreWords
<1>2. IsDouble(<<args[1], args[2]>>) /\ IsDouble(<<args[3], args[4]>>)
  BY <1>1 DEF IsDouble
<1>3. QED BY <1>2, DoubleFacts DEF First, Second

(* D/ starts as long division does.                                        *)
LEMMA DivisionInit == Init => Long!LongInit
<1> SUFFICES ASSUME Init PROVE Long!LongInit
  OBVIOUS
<1>1. WordsInv
  BY WordsInvInit
<1>2. Width \in Nat /\ Width >= 2 /\ 2 * Width \in Nat
  BY BaseFacts
<1>3. Left = 2 * Width
  BY <1>2 DEF Init, Left
<1>4. CASE Dividing
  <2>1. word = "D/" /\ Second # 0
    BY <1>4 DEF Dividing
  <2>2. First \in 0..(DoubleBase - 1) /\ Second \in Nat \ {0}
    BY <1>1, <2>1, OperandsOfDivision
  <2> DEFINE f == [k \in 0..(2 * Width) |-> First \div 2^k]
  <2>3. /\ f \in [0..(2 * Width) -> Nat] /\ f[2 * Width] = 0
        /\ \A k \in 0..(2 * Width - 1) : f[k] = 2 * f[k + 1] \/ f[k] = 2 * f[k + 1] + 1
    BY <2>2, Numerators
  <2>4. [k \in 0..(2 * Width) |-> IF Dividing THEN First \div 2^k ELSE 0] = f
    BY <1>4
  <2>5. Num(rem) = 0 /\ Num(quo) = 0
    <3>1. quo = <<0, 0>> /\ rem = <<0, 0>> /\ Base * 0 = 0
      BY BaseFacts DEF Init
    <3>2. QED BY <3>1 DEF Num
  <2>6. 0 \div 2^Left = 0
    <3>1. 2^Left \in Nat \ {0}
      BY <1>2, <1>3, PowerStep
    <3>2. QED BY <3>1
  <2> HIDE DEF f
  <2>7. QED BY <1>2, <1>3, <1>4, <2>2, <2>3, <2>4, <2>5, <2>6 DEF Long!LongInit, Long!IsNumerator
<1>5. CASE ~Dividing
  BY <1>2, <1>3, <1>5 DEF Long!LongInit, Long!IsNumerator
<1>6. QED BY <1>4, <1>5

(* The loop of D/ starts with clear registers and the highest bit.         *)
LEMMA LoopInvInit == Init => LoopInv
<1> SUFFICES ASSUME Init, Dividing PROVE LoopInv
  BY DEF LoopInv
<1>1. Long!DividedSoFar
  BY DivisionInit, LongStart
<1>2. IsDouble(<<0, 0>>) /\ quo = <<0, 0>> /\ rem = <<0, 0>> /\ done = FALSE /\ idx = 2 * Width - 1
  BY OneIsWord DEF Init, IsDouble
<1>3. 2 * Width - 1 \in 0..(2 * Width - 1) /\ 2 * Width \in Nat /\ (2 * Width - 1) + 1 = 2 * Width
  BY BaseFacts
<1>4. Num(quo) = 0 * 2^Left
  <2>1. Left = 2 * Width
    BY <1>2, <1>3 DEF Left
  <2>2. 2^Left \in Nat
    BY <1>3, <2>1, PowerStep
  <2>3. Base * 0 = 0
    BY BaseFacts
  <2>4. QED BY <1>2, <2>2, <2>3 DEF Num
<1>5. QED BY <1>1, <1>2, <1>3, <1>4 DEF LoopInv

(* The bit of the numerator that a turn of D/ looks at.                    *)
LEMMA NumBitIs ==
  ASSUME NEW i \in 0..(2 * Width - 1), IsDouble(<<args[1], args[2]>>)
  PROVE  NumBit(i) <=> HasBit(First, i)
<1> DEFINE d == <<args[1], args[2]>>
<1>1. Width \in Nat /\ Width >= 2 /\ i \in Nat
  BY BaseFacts
<1>2. HasBit(First, i) <=> IF i < Width THEN HasBit(args[1], i) ELSE HasBit(args[2], i - Width)
  BY DoubleBit DEF First
<1>3. ASSUME NEW a, NEW j \in 0..(Width - 1)
      PROVE  ~BitTest(a, j, [z |-> FALSE]).flags.z <=> HasBit(a, j)
  <2>1. Amount(j) = j /\ j < Width
    BY <1>1 DEF Amount
  <2>2. BitTest(a, j, [z |-> FALSE]).flags.z = ~(Amount(j) < Width /\ HasBit(a, Amount(j)))
    BY DEF BitTest, Result
  <2>3. QED BY <2>1, <2>2
<1>4. CASE i < Width
  <2>1. i \in 0..(Width - 1)
    BY <1>1, <1>4
  <2>2. QED BY <1>2, <1>3, <1>4, <2>1, IndexIsWord DEF NumBit
<1>5. CASE ~(i < Width)
  BY <1>2, <1>3, <1>5, IndexIsWord DEF NumBit
<1>6. QED BY <1>4, <1>5

(* Bringing the next bit of the numerator down into a remainder that is    *)
(* small enough doubles it and adds the bit, and no bit is lost.           *)
LEMMA BroughtDown ==
  ASSUME NEW r, IsDouble(r), NEW b \in {0, 1}, 2 * Num(r) + b < DoubleBase
  PROVE  LET next == IF b = 1 THEN WithBit(Twice(r), 0) ELSE Twice(r)
         IN  IsDouble(next) /\ Num(next) = 2 * Num(r) + b
<1>1. Num(r) \in Nat /\ DoubleBase \in Nat \ {0}
  BY DoubleFacts
<1>2. IsDouble(Twice(r)) /\ Num(Twice(r)) = (2 * Num(r)) % DoubleBase
  BY TwiceNum
<1>3. (2 * Num(r)) % DoubleBase = 2 * Num(r)
  BY <1>1
<1>4. Num(Twice(r)) = 2 * Num(r)
  BY <1>2, <1>3
<1>5. CASE b = 1
  <2>1. ~HasBit(Num(Twice(r)), 0)
    <3>1. (2 * Num(r)) % 2 # 1 /\ 2 * Num(r) \in Nat
      BY <1>1
    <3>2. QED BY <1>4, <3>1, LowestBit
  <2>2. 0 \in 0..(2 * Width - 1)
    BY BaseFacts
  <2>3. /\ IsDouble(WithBit(Twice(r), 0))
        /\ Num(WithBit(Twice(r), 0)) = Num(Twice(r)) + 1
    BY <1>2, <2>1, <2>2, WithBitNum, SmallPowers
  <2>4. QED BY <1>4, <1>5, <2>3
<1>6. CASE b = 0
  BY <1>1, <1>2, <1>4, <1>6
<1>7. QED BY <1>5, <1>6

(* Bit i of a number is what its prefix from bit i has over twice the      *)
(* prefix from the next bit.                                               *)
LEMMA NextBit ==
  ASSUME NEW x \in Nat, NEW i \in Nat
  PROVE  /\ x \div 2^i \in Nat /\ x \div 2^(i + 1) \in Nat /\ x \div 2^i <= x
         /\ x \div 2^i - 2 * (x \div 2^(i + 1)) = IF HasBit(x, i) THEN 1 ELSE 0
<1> DEFINE p == 2^i
           y == x \div p
<1>1. p \in Nat \ {0}
  BY PowerStep
<1> HIDE DEF p
<1>2. y \in Nat /\ y <= x
  BY <1>1
<1>3. x \div 2^(i + 1) = y \div 2
  BY HalvedPower DEF p
<1>4. HasBit(x, i) <=> y % 2 = 1
  BY DEF HasBit, p
<1> HIDE DEF y
<1>5. y \div 2 \in Nat /\ y - 2 * (y \div 2) = IF y % 2 = 1 THEN 1 ELSE 0
  BY <1>2
<1>6. QED BY <1>2, <1>3, <1>4, <1>5 DEF y, p

(* A multiple of a power of two: the bit below is clear, and without its   *)
(* lowest bits it is the factor.                                           *)
LEMMA MultipleOfPower ==
  ASSUME NEW c \in Nat, NEW i \in Nat
  PROVE  /\ (c * 2^i) \div 2^i = c /\ c * 2^i \in Nat
         /\ c * 2^(i + 1) = (2 * c) * 2^i
         /\ ~HasBit(c * 2^(i + 1), i)
<1> DEFINE p == 2^i
<1>1. p \in Nat \ {0} /\ 2^(i + 1) = 2 * p
  BY PowerStep
<1> HIDE DEF p
<1>2. ASSUME NEW n \in Nat PROVE (n * p) \div p = n /\ n * p \in Nat
  <2>1. 0 \in 0..(p - 1) /\ n \in Int
    BY <1>1
  <2>2. (p * n + 0) \div p = n
    BY <1>1, <2>1, DivisionUnique
  <2>3. p * n + 0 = n * p /\ n * p \in Nat
    BY <1>1
  <2>4. QED BY <2>2, <2>3
<1>3. c * (2 * p) = (2 * c) * p
  BY <1>1
<1>4. ((2 * c) * p) \div p = 2 * c
  BY <1>2
<1>5. (2 * c) % 2 # 1
  OBVIOUS
<1>6. QED BY <1>1, <1>2, <1>3, <1>4, <1>5 DEF HasBit, p

(* A turn of the loop brings one bit down and keeps the registers as the   *)
(* loop needs them.                                                        *)
LEMMA TurnBringsDown ==
  ASSUME WordsInv, LoopInv, Dividing, DivLoop
  PROVE  Long!BringDown /\ LoopInv'
<1> DEFINE den == <<args[3], args[4]>>
           b == IF HasBit(First, idx) THEN 1 ELSE 0
           r == IF NumBit(idx) THEN WithBit(Twice(rem), 0) ELSE Twice(rem)
           high == First \div 2^(idx + 1)
           more == First \div 2^idx
           goes == AtLeast(r, den)
           bit == IF goes THEN 1 ELSE 0
<1>1. word = "D/" /\ Second # 0 /\ ~done /\ done = FALSE
  BY DEF Dividing, DivLoop, LoopInv
<1>2. /\ IsDouble(<<args[1], args[2]>>) /\ IsDouble(den) /\ Num(den) = Second
      /\ First \in Nat /\ First < DoubleBase /\ Second \in Nat \ {0}
  <2>1. DoubleBase \in Nat \ {0}
    BY <1>1, OperandsOfDivision, DoubleFacts
  <2>2. QED BY <1>1, <2>1, OperandsOfDivision DEF Second
<1>3. /\ idx \in 0..(2 * Width - 1) /\ idx \in Nat /\ Width \in Nat
      /\ IsDouble(quo) /\ IsDouble(rem) /\ Num(quo) \in Nat /\ Num(rem) \in Nat
  BY BaseFacts, DoubleFacts DEF LoopInv
<1>4. Left = idx + 1
  BY <1>1 DEF Left
<1>5. PICK c \in Nat : Num(quo) = c * 2^(idx + 1)
  BY <1>4 DEF LoopInv
<1>6. Num(quo) \div 2^(idx + 1) = c
  BY <1>3, <1>5, MultipleOfPower
<1>7. Num(rem) < Second /\ high = c * Second + Num(rem)
  <2>1. Long!DividedSoFar
    BY DEF LoopInv
  <2>2. idx + 1 \in 0..(2 * Width)
    BY <1>3
  <2>3. QED BY <1>4, <1>6, <2>1, <2>2 DEF Long!DividedSoFar
<1>8. /\ high \in Nat /\ more \in Nat /\ more <= First /\ more = 2 * high + b
  <2>1. /\ more \in Nat /\ high \in Nat /\ more <= First
        /\ more - 2 * high = b
    BY <1>2, <1>3, NextBit
  <2> HIDE DEF high, more, b
  <2>2. b \in {0, 1}
    BY DEF b
  <2>3. QED BY <2>1, <2>2
<1>9. b \in {0, 1}
  OBVIOUS
<1>10. 2 * Num(rem) + b < DoubleBase
  <2> HIDE DEF high, more, b
  <2>1. c * Second \in Nat
    BY <1>2
  <2>2. DoubleBase \in Nat
    BY <1>3, DoubleFacts
  <2>3. QED BY <1>2, <1>3, <1>7, <1>8, <1>9, <2>1, <2>2
<1>11. IsDouble(r) /\ Num(r) = 2 * Num(rem) + b
  <2>1. r = IF b = 1 THEN WithBit(Twice(rem), 0) ELSE Twice(rem)
    BY <1>2, <1>3, NumBitIs
  <2> HIDE DEF r, b
  <2>2. QED BY <1>3, <1>9, <1>10, <2>1, BroughtDown
<1>12. goes <=> Num(r) >= Second
  <2> HIDE DEF r, den
  <2>1. QED BY <1>2, <1>11, AtLeastNum DEF goes
<1>13. /\ goes => rem' = Minus(r, den) /\ quo' = WithBit(quo, idx)
       /\ ~goes => rem' = r /\ quo' = quo
  BY DEF DivLoop
<1>14. /\ word' = word /\ args' = args
       /\ idx = 0 => done' = TRUE /\ stack' = quo' /\ idx' = idx
       /\ idx # 0 => idx' = idx - 1 /\ done' = done
  BY <1>3, IndexIsWord DEF DivLoop
<1> HIDE DEF b, r, high, more, goes, den
<1>15. IsDouble(rem') /\ Num(rem') = IF goes THEN Num(r) - Second ELSE Num(r)
  <2>1. CASE goes
    <3>1. Num(r) >= Num(den)
      BY <1>2, <1>12, <2>1
    <3>2. IsDouble(Minus(r, den)) /\ Num(Minus(r, den)) = Num(r) - Num(den)
      BY <1>2, <1>11, <3>1, MinusNum
    <3>3. QED BY <1>2, <1>13, <2>1, <3>2
  <2>2. CASE ~goes
    BY <1>11, <1>13, <2>2
  <2>3. QED BY <2>1, <2>2
<1>16. /\ Num(quo) = (2 * c) * 2^idx /\ ~HasBit(Num(quo), idx) /\ 2^idx \in Nat
  BY <1>3, <1>5, MultipleOfPower, PowerStep
<1>17. IsDouble(quo') /\ Num(quo') = (2 * c + bit) * 2^idx
  <2>1. CASE goes
    <3>1. IsDouble(WithBit(quo, idx)) /\ Num(WithBit(quo, idx)) = Num(quo) + 2^idx
      BY <1>3, <1>16, WithBitNum
    <3>2. (2 * c + 1) * 2^idx = (2 * c) * 2^idx + 2^idx
      BY <1>16
    <3>3. QED BY <1>13, <1>16, <2>1, <3>1, <3>2
  <2>2. CASE ~goes
    <3>1. 2 * c + 0 = 2 * c
      OBVIOUS
    <3>2. QED BY <1>3, <1>13, <1>16, <2>2, <3>1
  <2>3. QED BY <2>1, <2>2
<1>18. Num(quo') \div 2^idx = 2 * c + bit
  <2>1. 2 * c + bit \in Nat
    OBVIOUS
  <2> HIDE DEF bit
  <2>2. QED BY <1>3, <1>17, <2>1, MultipleOfPower
<1>19. /\ idx = 0 => done' = TRUE /\ idx' = 0
       /\ idx # 0 => done' = FALSE /\ idx' + 1 = idx
       /\ idx' \in 0..(2 * Width - 1)
  BY <1>1, <1>3, <1>14
<1>20. Left' = idx
  <2>1. Dividing'
    BY <1>1, <1>14 DEF Dividing, Second
  <2>2. QED BY <1>19, <2>1 DEF Left
<1>21. Dividing' /\ First' = First /\ Second' = Second
  BY <1>1, <1>14 DEF Dividing, First, Second
<1>22. Long!BringDown
  <2>1. /\ Left > 0 /\ Left' = Left - 1 /\ Left - 1 = idx
    BY <1>3, <1>4, <1>20
  <2>2. idx \in 0..(2 * Width) /\ idx + 1 \in 0..(2 * Width)
    BY <1>3
  <2>3. Long!NextDown = b
    <3>1. Long!NextDown = more - 2 * high
      BY <1>4, <2>1, <2>2 DEF Long!NextDown, more, high
    <3>2. QED BY <1>8, <1>9, <3>1
  <2>4. /\ Num(quo) \div 2^Left = c /\ Num(quo)' \div 2^(Left') = 2 * c + bit
        /\ Num(quo)' = Num(quo')
    BY <1>4, <1>6, <1>18, <1>20 DEF Num
  <2>5. Num(rem)' = Num(rem')
    BY DEF Num
  <2>6. \/ /\ Num(r) >= Second /\ Num(rem') = Num(r) - Second /\ bit = 1
        \/ /\ Num(r) < Second /\ Num(rem') = Num(r) /\ bit = 0
    <3>1. Num(r) \in Nat
      BY <1>3, <1>9, <1>11
    <3>2. QED BY <1>2, <1>12, <1>15, <3>1
  <2> HIDE DEF bit
  <2>7. QED BY <1>11, <1>21, <2>1, <2>3, <2>4, <2>5, <2>6 DEF Long!BringDown
<1>23. LoopInv'
  <2>1. Long!DividedSoFar'
    <3>1. Long!DividedSoFar
      BY DEF LoopInv
    <3>2. QED BY <1>22, <3>1, LongStep
  <2>2. \E n \in Nat : Num(quo') = n * 2^idx
    <3>1. 2 * c + bit \in Nat
      OBVIOUS
    <3> HIDE DEF bit
    <3>2. QED BY <1>17, <3>1
  <2>3. (\E n \in Nat : Num(quo) = n * 2^Left)'
    BY <1>20, <2>2 DEF Num
  <2>4. done' => stack' = quo'
    BY <1>14, <1>19
  <2>5. IsDouble(quo)' /\ IsDouble(rem)'
    BY <1>15, <1>17 DEF IsDouble, Word, Base
  <2>6. QED BY <1>19, <2>1, <2>3, <2>4, <2>5 DEF LoopInv
<1>24. QED BY <1>22, <1>23

(* A step of the kernel's words is a step of long division or leaves what  *)
(* it maps to as it was.                                                   *)
LEMMA StepIsLong ==
  WordsInv /\ LoopInv /\ [Next]_avars => [Long!BringDown]_(Long!longVars) /\ LoopInv'
<1> SUFFICES ASSUME WordsInv, LoopInv, [Next]_avars
             PROVE  [Long!BringDown]_(Long!longVars) /\ LoopInv'
  OBVIOUS
<1>1. CASE Dividing /\ DivLoop
  BY <1>1, TurnBringsDown
<1>2. CASE ~(Dividing /\ DivLoop)
  <2>1. /\ Dividing' = Dividing /\ First' = First /\ Second' = Second
        /\ Dividing => UNCHANGED <<stack, done, idx, quo, rem>>
    <3>1. word' = word /\ args' = args
      BY DEF Next, Execute, DivLoop, avars
    <3>2. Dividing => UNCHANGED <<stack, done, idx, quo, rem>>
      BY <1>2 DEF Next, Execute, avars, Dividing
    <3>3. QED BY <3>1, <3>2 DEF Dividing, First, Second
  <2>2. /\ Left' = Left /\ (Dividing => Num(quo)' = Num(quo) /\ Num(rem)' = Num(rem))
    BY <2>1 DEF Left, Num
  <2>3. UNCHANGED Long!longVars
    <3>1. CASE Dividing
      BY <2>1, <2>2, <3>1 DEF Long!longVars
    <3>2. CASE ~Dividing
      BY <2>1, <2>2, <3>2 DEF Long!longVars
    <3>3. QED BY <3>1, <3>2
  <2>4. LoopInv'
    <3>1. SUFFICES ASSUME Dividing' PROVE LoopInv'
      BY DEF LoopInv
    <3>2. Dividing /\ UNCHANGED <<stack, done, idx, quo, rem>>
      BY <2>1, <3>1
    <3>3. Long!DividedSoFar'
      BY <2>3, <3>2, LongStep DEF LoopInv
    <3>4. IsDouble(quo)' /\ IsDouble(rem)' /\ (\E c \in Nat : Num(quo) = c * 2^Left)'
      BY <2>2, <3>2 DEF LoopInv, IsDouble, Word, Base
    <3>5. QED BY <3>2, <3>3, <3>4 DEF LoopInv
  <2>5. QED BY <2>3, <2>4
<1>3. QED BY <1>1, <1>2

(* D/ implements the long division of the comment above it, with words of  *)
(* any width and any denominator but 0.                                    *)
THEOREM ArithmeticDivisionIsLong == Spec => DivisionIsLong
<1>1. Init => LoopInv /\ Long!LongInit
  BY LoopInvInit, DivisionInit
<1>2. WordsInv /\ LoopInv /\ [Next]_avars => [Long!BringDown]_(Long!longVars) /\ LoopInv'
  BY StepIsLong
<1>3. QED BY <1>1, <1>2, WordsInvAlways, PTL DEF Spec, DivisionIsLong, Long!LongSpec

(* What D/ leaves is the quotient of its operands, and what it has not     *)
(* divided is smaller than the denominator.                                *)
Quotient ==
  done /\ Dividing =>
    /\ Num(stack) = First \div Second
    /\ Num(rem) = First % Second

(* With any denominator but 0, D/ leaves the quotient, and the remainder   *)
(* stays in its registers.                                                 *)
THEOREM ArithmeticLongQuotient == Spec => []Quotient
<1>1. ASSUME WordsInv, LoopInv PROVE Quotient
  <2> SUFFICES ASSUME done, Dividing PROVE Num(stack) = First \div Second /\ Num(rem) = First % Second
    BY DEF Quotient
  <2>1. Left = 0 /\ 2^Left = 1
    BY SmallPowers DEF Left
  <2>2. /\ stack = quo /\ IsDouble(quo) /\ IsDouble(rem) /\ Long!DividedSoFar
    BY <1>1 DEF LoopInv
  <2>3. Num(quo) \in Nat /\ Num(rem) \in Nat
    BY <2>2, DoubleFacts
  <2>4. Num(quo) \div 2^Left = Num(quo)
    BY <2>1, <2>3
  <2>5. First \in Nat /\ First \div 2^0 = First /\ Second \in Nat \ {0}
    <3>1. word = "D/" /\ Second # 0
      BY DEF Dividing
    <3>2. First \in 0..(DoubleBase - 1) /\ Second \in 0..(DoubleBase - 1)
      BY <1>1, <3>1, OperandsOfDivision
    <3>3. First \in Nat /\ Second \in Nat \ {0}
      BY <3>1, <3>2
    <3>4. QED BY <3>3, SmallPowers
  <2>6. First = Num(quo) * Second + Num(rem) /\ Num(rem) < Second
    <3>1. 0 \in 0..(2 * Width)
      BY BaseFacts
    <3>2. QED BY <2>1, <2>2, <2>4, <2>5, <3>1 DEF Long!DividedSoFar
  <2> DEFINE q == Num(quo)
             d == Second
             r == Num(rem)
  <2> HIDE DEF q, d, r
  <2>7. (d * q + r) \div d = q /\ (d * q + r) % d = r
    <3>1. d \in Nat \ {0} /\ q \in Int /\ r \in 0..(d - 1)
      BY <2>3, <2>5, <2>6 DEF q, d, r
    <3>2. QED BY <3>1, DivisionUnique
  <2>8. First = d * q + r
    <3>1. q \in Int /\ d \in Int
      BY <2>3, <2>5 DEF q, d
    <3>2. q * d = d * q
      BY <3>1
    <3>3. QED BY <2>6, <3>2 DEF q, d, r
  <2>9. QED BY <2>2, <2>7, <2>8 DEF q, d, r
<1>2. Init => LoopInv
  BY LoopInvInit
<1>3. WordsInv /\ LoopInv /\ [Next]_avars => LoopInv'
  BY StepIsLong
<1>4. QED BY <1>1, <1>2, <1>3, WordsInvAlways, PTL DEF Spec
=============================================================================
