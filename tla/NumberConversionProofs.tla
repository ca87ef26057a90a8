---------------------- MODULE NumberConversionProofs -----------------------
(* The kernel reads every token that its notations allow, as the number    *)
(* written, and no other; and it reads back every word that it prints.     *)
EXTENDS NumberConversion, LeastNumber

(* C_TO_I knows the digits of every base.                                  *)
LEMMA DigitRead ==
  ASSUME NEW c \in Byte, NEW b \in {2, 10, 16}
  PROVE  /\ C_TO_I(c) \in -1..15 /\ Digit(c) \in Int
         /\ (C_TO_I(c) # -1 /\ C_TO_I(c) < b) <=> c \in Digits(b)
         /\ c \in Digits(b) => C_TO_I(c) = Digit(c)
<1> DEFINE d == W(c - 48)
           u == W(d - 7)
           l == W(u - 32)
<1>1. CASE c < 48
  BY <1>1 DEF C_TO_I, Byte, Zero, Digits, Digit
<1>2. CASE c \in 48..57
  <2>1. d = c - 48
    BY <1>2 DEF W, Size
  <2>2. C_TO_I(c) = c - 48
    BY <1>2, <2>1 DEF C_TO_I, Zero
  <2>3. QED BY <1>2, <2>2 DEF Digits, Digit
<1>3. CASE c \in 58..255
  <2>1. d = c - 48
    BY <1>3 DEF W, Size
  <2>2. u = c - 55
    BY <1>3, <2>1 DEF W, Size
  <2>3. l = IF c < 87 THEN c - 87 + Size ELSE c - 87
    BY <1>3, <2>2 DEF W, Size
  <2> HIDE DEF d, u, l
  <2>4. C_TO_I(c) = IF c < 48 THEN -1 ELSE IF d < 10 THEN d ELSE IF u < 10 THEN -1
                      ELSE IF u < 16 THEN u ELSE IF l \in 10..15 THEN l ELSE -1
    BY DEF C_TO_I, Zero, d, u, l
  <2>5. C_TO_I(c) = IF c \in 65..70 THEN c - 55 ELSE IF c \in 97..102 THEN c - 87 ELSE -1
    <3>1. CASE c \in 58..64
      <4>1. ~(c < 48) /\ ~(d < 10) /\ u < 10
        BY <2>1, <2>2, <3>1
      <4>2. QED BY <2>4, <3>1, <4>1
    <3>2. CASE c \in 65..70
      <4>1. ~(c < 48) /\ ~(d < 10) /\ ~(u < 10) /\ u < 16
        BY <2>1, <2>2, <3>2
      <4>2. QED BY <2>2, <2>4, <3>2, <4>1
    <3>3. CASE c \in 71..86
      BY <2>1, <2>2, <2>3, <2>4, <3>3 DEF Size
    <3>4. CASE c \in 87..96
      BY <2>1, <2>2, <2>3, <2>4, <3>4
    <3>5. CASE c \in 97..102
      BY <2>1, <2>2, <2>3, <2>4, <3>5
    <3>6. CASE c \in 103..255
      BY <2>1, <2>2, <2>3, <2>4, <3>6
    <3>7. QED BY <1>3, <3>1, <3>2, <3>3, <3>4, <3>5, <3>6
  <2>6. Digit(c) = ((c - 65) % 32) + 10 /\ Digit(c) \in Int
    BY <1>3 DEF Digit
  <2>7. /\ c \in 65..70 => Digit(c) = c - 55
        /\ c \in 97..102 => Digit(c) = c - 87
    BY <2>6
  <2>8. QED BY <1>3, <2>5, <2>6, <2>7 DEF Digits
<1>4. QED BY <1>1, <1>2, <1>3 DEF Byte

(* The number that the characters of t from the k-th to the i-th denote,   *)
(* for every i up to m.                                                    *)
IsUpto(f, t, k, b, m) ==
  f = [i \in (k - 1)..m |-> IF i = k - 1 THEN 0 ELSE W(f[i - 1] * b + Digit(t[i]))]

(* Characters denote a number however many they are.                       *)
LEMMA UptoExists ==
  ASSUME NEW t, NEW k \in Nat \ {0}, NEW b, NEW m \in Nat, m >= k - 1
  PROVE  \E f : IsUpto(f, t, k, b, m)
<1> DEFINE X == {j \in Nat : j >= k - 1 /\ ~\E f : IsUpto(f, t, k, b, j)}
<1>1. X = {}
  <2>1. SUFFICES ASSUME X # {} PROVE FALSE
    OBVIOUS
  <2>2. PICK j \in X : \A i \in X : j <= i
    BY <2>1, LeastExists
  <2>3. j \in Nat /\ j >= k - 1 /\ ~\E f : IsUpto(f, t, k, b, j)
    OBVIOUS
  <2>4. CASE j = k - 1
    <3> DEFINE f == [i \in (k - 1)..j |-> 0]
    <3>1. (k - 1)..j = {k - 1}
      BY <2>4
    <3>2. IsUpto(f, t, k, b, j)
      BY <3>1 DEF IsUpto
    <3>3. QED BY <2>3, <3>2
  <2>5. CASE j # k - 1
    <3>1. j - 1 \in Nat /\ j - 1 >= k - 1 /\ j - 1 \notin X
      <4> HIDE DEF X
      <4>1. j - 1 \in Nat /\ j - 1 >= k - 1
        BY <2>3, <2>5
      <4>2. QED BY <2>2, <2>3, <4>1
    <3>2. PICK f : IsUpto(f, t, k, b, j - 1)
      BY <3>1
    <3> DEFINE g == [i \in (k - 1)..j |-> IF i = j THEN W(f[j - 1] * b + Digit(t[j])) ELSE f[i]]
    <3>3. IsUpto(g, t, k, b, j)
      <4>1. ASSUME NEW i \in (k - 1)..j
            PROVE  g[i] = IF i = k - 1 THEN 0 ELSE W(g[i - 1] * b + Digit(t[i]))
        <5>1. CASE i = j
          <6>1. j - 1 \in (k - 1)..j /\ j - 1 # j /\ g[j - 1] = f[j - 1]
            BY <2>3, <3>1
          <6>2. QED BY <2>5, <5>1, <6>1
        <5>2. CASE i = k - 1
          <6>1. k - 1 \in (k - 1)..(j - 1) /\ g[k - 1] = f[k - 1]
            BY <2>3, <2>5, <3>1
          <6>2. f[k - 1] = 0
            BY <3>2, <6>1 DEF IsUpto
          <6>3. QED BY <5>2, <6>1, <6>2
        <5>3. CASE i # j /\ i # k - 1
          <6>1. i \in (k - 1)..(j - 1) /\ i - 1 \in (k - 1)..j /\ i - 1 # j
            BY <2>3, <5>3
          <6>2. g[i] = f[i] /\ g[i - 1] = f[i - 1]
            BY <5>3, <6>1
          <6>3. f[i] = W(f[i - 1] * b + Digit(t[i]))
            BY <3>2, <5>3, <6>1 DEF IsUpto
          <6>4. QED BY <5>3, <6>2, <6>3
        <5>4. QED BY <5>1, <5>2, <5>3
      <4>2. g = [i \in (k - 1)..j |-> g[i]]
        OBVIOUS
      <4> HIDE DEF g
      <4>3. QED BY <4>1, <4>2 DEF IsUpto
    <3>4. QED BY <2>3, <3>3
  <2>6. QED BY <2>4, <2>5
<1>2. m \notin X
  BY <1>1
<1>3. QED BY <1>2

(* The characters of t from the k-th to the i-th, as a number.             *)
Upto(t, k, b) == CHOOSE f : IsUpto(f, t, k, b, Len(t))

(* A number is read digit by digit.                                        *)
LEMMA UptoStep ==
  ASSUME NEW t \in Seq(Byte), NEW k \in Nat \ {0}, NEW b, Len(t) >= k - 1
  PROVE  /\ Denotes(t, k, b) = Upto(t, k, b)[Len(t)]
         /\ Upto(t, k, b)[k - 1] = 0
         /\ \A i \in k..Len(t) : Upto(t, k, b)[i] = W(Upto(t, k, b)[i - 1] * b + Digit(t[i]))
<1>1. Len(t) \in Nat
  OBVIOUS
<1>2. \E f : IsUpto(f, t, k, b, Len(t))
  BY <1>1, UptoExists
<1>3. IsUpto(Upto(t, k, b), t, k, b, Len(t))
  BY <1>2 DEF Upto
<1>4. Denotes(t, k, b) = Upto(t, k, b)[Len(t)]
  BY DEF Denotes, Upto, IsUpto
<1> DEFINE f == Upto(t, k, b)
<1>5. f = [i \in (k - 1)..Len(t) |-> IF i = k - 1 THEN 0 ELSE W(f[i - 1] * b + Digit(t[i]))]
  BY <1>3 DEF IsUpto
<1> HIDE DEF f
<1>6. f[k - 1] = 0
  BY <1>1, <1>5
<1>7. ASSUME NEW i \in k..Len(t) PROVE f[i] = W(f[i - 1] * b + Digit(t[i]))
  <2>1. i \in (k - 1)..Len(t) /\ i # k - 1
    BY <1>1
  <2>2. QED BY <1>5, <2>1
<1>8. QED BY <1>4, <1>6, <1>7 DEF f
----------------------------------------------------------------------------
(* What a register holds.                                                  *)
Words == 0..(Size - 1)

(* A register has 16 bits: what the proofs use of its size.                *)
LEMMA SizeNat == Size \in Nat \ {0}
BY DEF Size

LEMMA SizeFacts ==
  /\ Size > 1000 /\ Size = 16 * 4096
  /\ Size \div 2 \in Nat /\ Size = 2 * (Size \div 2)
BY DEF Size

(* Integer division leaves a remainder smaller than the divisor, and with  *)
(* it gives the number back.                                               *)
LEMMA DivisionLeaves ==
  ASSUME NEW x \in Int, NEW d \in Nat \ {0}
  PROVE  /\ x \div d \in Int /\ x % d \in 0..(d - 1)
         /\ x = d * (x \div d) + (x % d)
OBVIOUS

(* Only one quotient has a remainder smaller than the divisor.             *)
LEMMA DivisionOnly ==
  ASSUME NEW d \in Nat \ {0}, NEW q \in Int, NEW r \in 0..(d - 1)
  PROVE  (d * q + r) \div d = q /\ (d * q + r) % d = r
OBVIOUS

(* Cutting to a word leaves a word, and leaves words alone.                *)
LEMMA Wrapped ==
  ASSUME NEW n \in Int
  PROVE  W(n) \in Words /\ (n \in Words => W(n) = n)
<1>1. Size \in Nat \ {0}
  BY SizeNat
<1>2. n % Size \in 0..(Size - 1)
  BY <1>1, DivisionLeaves
<1>3. ASSUME n \in 0..(Size - 1) PROVE n % Size = n
  <2>1. (Size * 0 + n) % Size = n
    BY <1>1, <1>3, DivisionOnly
  <2>2. Size * 0 + n = n
    BY <1>1
  <2>3. QED BY <2>1, <2>2
<1>4. QED BY <1>2, <1>3 DEF W, Words

(* A decimal digit is taken off a word.                                    *)
LEMMA DigitOff ==
  ASSUME NEW v \in Words
  PROVE  v \div 10 \in Words /\ v % 10 \in 0..9 /\ v = 10 * (v \div 10) + (v % 10)
<1>1. v \in Int /\ 0 <= v /\ v < Size
  BY SizeNat DEF Words
<1> DEFINE q == v \div 10
           r == v % 10
<1>2. q \in Int /\ r \in 0..9 /\ v = 10 * q + r
  BY <1>1
<1> HIDE DEF q, r
<1>3. q >= 0 /\ q < Size
  BY <1>1, <1>2, SizeNat
<1>4. q \in Words
  BY <1>2, <1>3, SizeNat DEF Words
<1>5. QED BY <1>2, <1>4 DEF q, r

(* The character of a digit.                                               *)
CharOf(d) == IF d < 10 THEN Zero + d ELSE 97 + d - 10

(* A digit is printed as a character that stands for it.                   *)
LEMMA CharOfDigit ==
  ASSUME NEW d \in 0..15
  PROVE  /\ CharOf(d) \in Byte /\ CharOf(d) \in Digits(16) /\ Digit(CharOf(d)) = d
         /\ (d < 10 => CharOf(d) \in Digits(10)) /\ (d < 2 => CharOf(d) \in Digits(2))
<1>1. CASE d < 10
  <2>1. CharOf(d) = 48 + d
    BY <1>1 DEF CharOf, Zero
  <2> DEFINE c == CharOf(d)
  <2>2. c \in 48..57 /\ c - 48 = d /\ c < 58
    BY <1>1, <2>1
  <2> HIDE DEF c
  <2>3. Digit(c) = d
    BY <2>2 DEF Digit
  <2>4. c \in Byte
    BY <2>2 DEF Byte
  <2>5. QED BY <1>1, <2>2, <2>3, <2>4 DEF Digits, c
<1>2. CASE d >= 10
  <2>1. CharOf(d) = 87 + d
    BY <1>2 DEF CharOf
  <2> DEFINE c == CharOf(d)
  <2>2. c \in 97..102 /\ ((c - 65) % 32) + 10 = d /\ ~(c < 58)
    BY <1>2, <2>1
  <2> HIDE DEF c
  <2>3. Digit(c) = d
    BY <2>2 DEF Digit
  <2>4. c \in Byte
    BY <2>2 DEF Byte
  <2>5. QED BY <1>2, <2>2, <2>3, <2>4 DEF Digits, c
<1>3. QED BY <1>1, <1>2

(* The highest hexadecimal digit is taken off a word: the rest moves up.   *)
LEMMA NibbleOff ==
  ASSUME NEW v \in Words
  PROVE  v \div 4096 \in 0..15 /\ W(v * 16) \in Words /\ v * 16 = Size * (v \div 4096) + W(v * 16)
<1>1. v \in Int /\ 0 <= v /\ v < Size
  BY SizeNat DEF Words
<1>2. PICK k \in Nat \ {0} : k = 4096 /\ Size = 16 * k
  BY SizeFacts
<1> DEFINE q == v \div k
           r == v % k
<1>3. q \in Int /\ r \in 0..(k - 1) /\ v = k * q + r
  BY <1>1, <1>2, DivisionLeaves
<1> HIDE DEF q, r
<1>4. q \in 0..15
  <2>1. k * q < k * 16 /\ k * q > k * (-1)
    BY <1>1, <1>2, <1>3
  <2>2. q < 16 /\ q > -1
    BY <2>1, <1>3
  <2>3. QED BY <2>2, <1>3
<1>5. v * 16 = Size * q + 16 * r /\ 16 * r \in 0..(Size - 1)
  <2>1. (16 * k) * q = 16 * (k * q) /\ k * q \in Int
    BY <1>2, <1>3
  <2>2. v * 16 = 16 * (k * q) + 16 * r
    BY <1>1, <1>3, <2>1
  <2>3. 16 * r >= 0 /\ 16 * r < 16 * k
    BY <1>2, <1>3
  <2>4. 16 * k = Size
    BY <1>2
  <2>5. 16 * r >= 0 /\ 16 * r < Size
    BY <2>3, <2>4
  <2>6. Size * q = 16 * (k * q)
    BY <1>2, <2>1
  <2>7. 16 * r \in Int /\ Size \in Int
    BY <1>3, SizeNat
  <2> DEFINE s == 16 * r
  <2> HIDE DEF s
  <2>8. s \in 0..(Size - 1)
    BY <2>5, <2>7 DEF s
  <2>9. QED BY <2>2, <2>6, <2>8 DEF s
<1>6. W(v * 16) = 16 * r
  <2>1. Size \in Nat \ {0}
    BY SizeNat
  <2>2. (Size * q + 16 * r) % Size = 16 * r
    BY <1>3, <1>5, <2>1, DivisionOnly
  <2>3. QED BY <1>5, <2>2 DEF W
<1>7. W(v * 16) \in Words /\ v * 16 = Size * q + W(v * 16)
  BY <1>5, <1>6 DEF Words
<1>8. q = v \div 4096
  BY <1>2 DEF q
<1>9. QED BY <1>4, <1>7, <1>8
----------------------------------------------------------------------------
(* The characters of s, in base b, lead from one number to another.        *)
Leads(s, b, from, to) ==
  \E p \in Seq(Words) :
    /\ Len(p) = Len(s) + 1 /\ p[1] = from /\ p[Len(p)] = to
    /\ \A i \in 1..Len(s) : s[i] \in Digits(b) /\ p[i + 1] = b * p[i] + Digit(s[i])

(* No characters leave the number as it is, and only they.                 *)
LEMMA LeadsNowhere ==
  ASSUME NEW b
  PROVE  /\ \A x \in Words : Leads(<<>>, b, x, x)
         /\ \A x, y : Leads(<<>>, b, x, y) => x = y
<1>1. ASSUME NEW x \in Words PROVE Leads(<<>>, b, x, x)
  <2>1. <<x>> \in Seq(Words) /\ Len(<<x>>) = Len(<<>>) + 1 /\ <<x>>[1] = x /\ <<x>>[Len(<<x>>)] = x
    OBVIOUS
  <2>2. \A i \in 1..Len(<<>>) : FALSE
    OBVIOUS
  <2>3. QED BY <2>1, <2>2 DEF Leads
<1>2. ASSUME NEW x, NEW y, Leads(<<>>, b, x, y) PROVE x = y
  <2>1. PICK p \in Seq(Words) : Len(p) = Len(<<>>) + 1 /\ p[1] = x /\ p[Len(p)] = y
    BY <1>2 DEF Leads
  <2>2. Len(p) = 1
    BY <2>1
  <2>3. QED BY <2>1, <2>2
<1>3. QED BY <1>1, <1>2

(* A digit behind the others.                                              *)
LEMMA LeadsOn ==
  ASSUME NEW s \in Seq(Byte), NEW b, NEW x, NEW y, Leads(s, b, x, y),
         NEW c \in Digits(b), b * y + Digit(c) \in Words
  PROVE  Leads(Append(s, c), b, x, b * y + Digit(c))
<1> DEFINE z == b * y + Digit(c)
           t == Append(s, c)
<1>1. PICK p \in Seq(Words) :
        /\ Len(p) = Len(s) + 1 /\ p[1] = x /\ p[Len(p)] = y
        /\ \A i \in 1..Len(s) : s[i] \in Digits(b) /\ p[i + 1] = b * p[i] + Digit(s[i])
  BY DEF Leads
<1> DEFINE q == Append(p, z)
<1>2. /\ q \in Seq(Words) /\ Len(q) = Len(p) + 1 /\ q[Len(q)] = z
      /\ \A i \in 1..Len(p) : q[i] = p[i]
  OBVIOUS
<1>3. Len(t) = Len(s) + 1 /\ t[Len(s) + 1] = c /\ \A i \in 1..Len(s) : t[i] = s[i]
  OBVIOUS
<1>4. Len(s) \in Nat
  OBVIOUS
<1> HIDE DEF q, t
<1>5. ASSUME NEW i \in 1..Len(t) PROVE t[i] \in Digits(b) /\ q[i + 1] = b * q[i] + Digit(t[i])
  <2>1. CASE i = Len(t)
    <3>1. q[i + 1] = z /\ t[i] = c /\ q[i] = y
      <4>1. i = Len(p) /\ i \in 1..Len(p)
        BY <1>1, <1>3, <1>4, <2>1
      <4>2. QED BY <1>1, <1>2, <1>3, <2>1, <4>1
    <3>2. QED BY <3>1
  <2>2. CASE i # Len(t)
    <3>1. i \in 1..Len(s) /\ i \in 1..Len(p) /\ i + 1 \in 1..Len(p)
      BY <1>1, <1>3, <1>4, <2>2
    <3>2. t[i] = s[i] /\ q[i] = p[i] /\ q[i + 1] = p[i + 1]
      BY <1>2, <1>3, <3>1
    <3>3. QED BY <1>1, <3>1, <3>2
  <2>3. QED BY <2>1, <2>2
<1>6. q[1] = x
  <2>1. 1 \in 1..Len(p)
    BY <1>1, <1>4
  <2>2. QED BY <1>1, <1>2, <2>1
<1>7. Len(q) = Len(t) + 1
  BY <1>1, <1>2, <1>3
<1>8. QED BY <1>2, <1>5, <1>6, <1>7 DEF Leads, t

(* A digit before the others.                                              *)
LEMMA LeadsFrom ==
  ASSUME NEW s \in Seq(Byte), NEW b, NEW x \in Words, NEW y, NEW c \in Digits(b),
         c \in Byte, Leads(s, b, b * x + Digit(c), y)
  PROVE  Leads(<<c>> \o s, b, x, y)
<1> DEFINE t == <<c>> \o s
<1>1. PICK p \in Seq(Words) :
        /\ Len(p) = Len(s) + 1 /\ p[1] = b * x + Digit(c) /\ p[Len(p)] = y
        /\ \A i \in 1..Len(s) : s[i] \in Digits(b) /\ p[i + 1] = b * p[i] + Digit(s[i])
  BY DEF Leads
<1> DEFINE q == <<x>> \o p
<1>2. /\ q \in Seq(Words) /\ Len(q) = Len(p) + 1 /\ q[1] = x
      /\ \A i \in 2..(Len(p) + 1) : q[i] = p[i - 1]
  OBVIOUS
<1>3. /\ Len(t) = Len(s) + 1 /\ t[1] = c
      /\ \A i \in 2..(Len(s) + 1) : t[i] = s[i - 1]
  OBVIOUS
<1>4. Len(s) \in Nat
  OBVIOUS
<1> HIDE DEF q, t
<1>5. ASSUME NEW i \in 1..Len(t) PROVE t[i] \in Digits(b) /\ q[i + 1] = b * q[i] + Digit(t[i])
  <2>1. CASE i = 1
    <3>1. q[2] = p[1]
      BY <1>1, <1>2, <1>4
    <3>2. QED BY <1>1, <1>2, <1>3, <2>1, <3>1
  <2>2. CASE i # 1
    <3>1. i - 1 \in 1..Len(s) /\ i \in 2..(Len(s) + 1) /\ i \in 2..(Len(p) + 1) /\ i + 1 \in 2..(Len(p) + 1)
      BY <1>1, <1>3, <1>4, <2>2
    <3>2. t[i] = s[i - 1] /\ q[i] = p[i - 1] /\ q[i + 1] = p[(i - 1) + 1]
      BY <1>2, <1>3, <3>1
    <3>3. QED BY <1>1, <3>1, <3>2
  <2>3. QED BY <2>1, <2>2
<1>6. Len(q) = Len(t) + 1 /\ q[Len(q)] = y
  BY <1>1, <1>2, <1>3, <1>4
<1>7. QED BY <1>2, <1>5, <1>6 DEF Leads, t

(* The first digit is taken off.                                           *)
LEMMA LeadsAfter ==
  ASSUME NEW s \in Seq(Byte), s # <<>>, NEW b, NEW x, NEW y, Leads(s, b, x, y)
  PROVE  /\ x \in Words /\ Head(s) \in Digits(b) /\ b * x + Digit(Head(s)) \in Words
         /\ Leads(Tail(s), b, b * x + Digit(Head(s)), y)
<1> DEFINE t == Tail(s)
<1>1. PICK p \in Seq(Words) :
        /\ Len(p) = Len(s) + 1 /\ p[1] = x /\ p[Len(p)] = y
        /\ \A i \in 1..Len(s) : s[i] \in Digits(b) /\ p[i + 1] = b * p[i] + Digit(s[i])
  BY DEF Leads
<1> DEFINE q == Tail(p)
<1>2. Len(s) \in Nat \ {0} /\ Head(s) = s[1] /\ p # <<>>
  BY <1>1
<1>3. q \in Seq(Words) /\ Len(q) = Len(p) - 1 /\ \A i \in 1..(Len(p) - 1) : q[i] = p[i + 1]
  BY <1>2
<1>4. Len(t) = Len(s) - 1 /\ \A i \in 1..(Len(s) - 1) : t[i] = s[i + 1]
  BY <1>2
<1> HIDE DEF q, t
<1>5. ASSUME NEW i \in 1..Len(t) PROVE t[i] \in Digits(b) /\ q[i + 1] = b * q[i] + Digit(t[i])
  <2>1. i + 1 \in 1..Len(s) /\ i \in 1..(Len(s) - 1) /\ i \in 1..(Len(p) - 1) /\ i + 1 \in 1..(Len(p) - 1)
    BY <1>1, <1>2, <1>4
  <2>2. t[i] = s[i + 1] /\ q[i] = p[i + 1] /\ q[i + 1] = p[(i + 1) + 1]
    BY <1>3, <1>4, <2>1
  <2>3. QED BY <1>1, <2>1, <2>2
<1>6. Len(q) = Len(t) + 1 /\ q[Len(q)] = y /\ q[1] = p[2]
  BY <1>1, <1>2, <1>3, <1>4
<1>7. 1 \in 1..Len(s) /\ 2 \in 1..Len(p) /\ 1 \in 1..Len(p)
  BY <1>1, <1>2
<1>8. s[1] \in Digits(b) /\ p[2] = b * x + Digit(s[1]) /\ p[2] \in Words /\ x \in Words
  BY <1>1, <1>7
<1>9. Leads(t, b, p[2], y)
  BY <1>3, <1>5, <1>6 DEF Leads
<1>10. QED BY <1>2, <1>8, <1>9 DEF t

(* The first of some characters moves to the end of those before them.     *)
LEMMA OneMoves ==
  ASSUME NEW r \in Seq(Byte), NEW s \in Seq(Byte), s # <<>>
  PROVE  /\ Head(s) \in Byte /\ Tail(s) \in Seq(Byte) /\ Len(Tail(s)) = Len(s) - 1
         /\ Append(r, Head(s)) \in Seq(Byte) /\ Len(Append(r, Head(s))) = Len(r) + 1
         /\ Append(r, Head(s)) \o Tail(s) = r \o s
         /\ (r \o s)[Len(r) + 1] = Head(s) /\ Len(r) + 1 <= Len(r \o s)
<1>1. Head(s) \in Byte /\ Tail(s) \in Seq(Byte) /\ Len(Tail(s)) = Len(s) - 1 /\ Len(s) \in Nat \ {0}
  OBVIOUS
<1>2. Append(r, Head(s)) \in Seq(Byte) /\ Len(Append(r, Head(s))) = Len(r) + 1
  BY <1>1
<1>3. (r \o s)[Len(r) + 1] = Head(s) /\ Len(r) + 1 <= Len(r \o s)
  BY <1>1
<1>4. Append(r, Head(s)) \o Tail(s) = r \o s
  <2> DEFINE u == Append(r, Head(s)) \o Tail(s)
             v == r \o s
  <2>1. u \in Seq(Byte) /\ v \in Seq(Byte) /\ Len(u) = Len(v)
    BY <1>1, <1>2
  <2>2. ASSUME NEW i \in 1..Len(u) PROVE u[i] = v[i]
    BY <1>1, <1>2, <2>1
  <2> HIDE DEF u, v
  <2>3. QED BY <2>1, <2>2 DEF u, v
<1>5. QED BY <1>1, <1>2, <1>3, <1>4
----------------------------------------------------------------------------
(* What the base of DOT makes of it, the sign it prints and the number     *)
(* whose digits it prints; and all that stands before the digits when they *)
(* are typed back.                                                         *)
TheBase == IF asked.base \in {2, 16} THEN asked.base ELSE 10
Negative  == asked.base \notin {2, 16} /\ asked.signed /\ asked.val >= Size \div 2
Shown   == IF Negative THEN Size - asked.val ELSE asked.val
Before  == IF Negative THEN <<Minus>> ELSE <<>>
Lead    == IF asked.base = 2 THEN <<Zero, LowerB>> ELSE IF asked.base = 16 THEN <<Zero, LowerX>> ELSE Before

(* By how much the digits printed so far have moved the rest of the value  *)
(* up, and the least that a value other than 0 has become.                 *)
Moved == [i \in 0..4 |-> IF i = 4 THEN 1 ELSE IF i = 3 THEN 16 ELSE IF i = 2 THEN 256 ELSE IF i = 1 THEN 4096 ELSE Size]
Least == [i \in 0..16 |-> <<Size, 32768, 16384, 8192, 4096, 2048, 1024, 512, 256, 128, 64, 32, 16, 8, 4, 2, 1>>[i + 1]]

Types ==
  /\ asked \in [val : Words, base : {2, 8, 10, 16}, signed : BOOLEAN]
  /\ val \in Words
  /\ digits \in Seq(Byte) /\ out \in Seq(Byte) /\ token \in Seq(Byte) /\ beyond \in Seq(Byte)

(* Digits that were printed are those of the number, and not too many.     *)
Spelled(s) == s # <<>> /\ Len(s) < Size - 10 /\ Leads(s, TheBase, 0, Shown)

(* DOT, from what it was asked to what it has printed: the digits taken    *)
(* off lead from the value that is left to the number asked for.           *)
Printing ==
  /\ at = "dot" => val = asked.val /\ digits = <<>> /\ out = <<>>
  /\ at = "divide" =>
       /\ TheBase = 10 /\ out = Before /\ Leads(digits, 10, val, Shown)
       /\ digits = <<>> \/ (val # 0 /\ Len(digits) + val < Size - 10)
  /\ at = "print" =>
       /\ TheBase = 10 /\ digits # <<>>
       /\ \E s \in Seq(Byte) : out = Before \o s /\ Spelled(s \o digits)
  /\ at = "hex" =>
       /\ TheBase = 16 /\ idx \in 1..4 /\ Len(out) = 4 - idx
       /\ \E x \in Words : Leads(out, 16, 0, x) /\ Shown * Moved[idx] = Size * x + val
  /\ at = "bits" =>
       /\ TheBase = 2 /\ idx \in 1..16 /\ Len(out) = 16 - idx
       /\ Leads(out, 2, 0, 0) /\ (Shown = 0 \/ val >= Least[idx])
  /\ at = "printed" => \E s \in Seq(Byte) : out = Before \o s /\ Spelled(s)

(* NUMBER, when it reads what was printed: the digits that are left lead   *)
(* from the number read to the number printed.                             *)
ReadingBack ==
  out # <<>> =>
    /\ at = "number" => \E s \in Seq(Byte) : token = Lead \o s /\ Spelled(s)
    /\ at = "convert" =>
         /\ base = TheBase /\ (sign <=> Negative)
         /\ \E r \in Seq(Byte), s \in Seq(Byte) :
              /\ token = r \o s /\ dp = Len(r) + 1 /\ len = Len(s)
              /\ s # <<>> /\ Len(s) < Size /\ Leads(s, base, num, Shown)
    /\ at # "literal" /\ at # "failed"
    /\ at = "done" => num = asked.val

PrintInv == Types /\ Printing /\ ReadingBack

(* What the invariant says of the characters and numbers about.            *)
LEMMA AskedFacts ==
  ASSUME Types
  PROVE  /\ TheBase \in {2, 10, 16} /\ Shown \in Words /\ Before \in Seq(Byte) /\ Lead \in Seq(Byte)
         /\ TheBase # 10 => Before = <<>> /\ Shown = asked.val /\ ~Negative
         /\ Negative => Shown = W(-asked.val) /\ W(-Shown) = asked.val
         /\ <<>> \in Seq(Byte)
<1>1. asked.val \in Words /\ asked.base \in {2, 8, 10, 16}
  BY DEF Types
<1>2. Zero \in Byte /\ Minus \in Byte /\ LowerB \in Byte /\ LowerX \in Byte
  BY DEF Zero, Minus, LowerB, LowerX, Byte
<1>3. Before \in Seq(Byte) /\ Lead \in Seq(Byte) /\ <<>> \in Seq(Byte)
  BY <1>2 DEF Before, Lead
<1>4. TheBase \in {2, 10, 16} /\ (TheBase # 10 => ~Negative)
  BY <1>1 DEF TheBase, Negative
<1>5. asked.val \in Int /\ 0 <= asked.val /\ asked.val < Size
  BY <1>1, SizeNat DEF Words
<1>6. ASSUME Negative
      PROVE  Shown \in Words /\ Shown = W(-asked.val) /\ W(-Shown) = asked.val
  <2> DEFINE v == asked.val
  <2>1. Size \div 2 > 0
    BY SizeFacts
  <2>2. v \in Int /\ 0 < v /\ v < Size
    BY <1>5, <1>6, <2>1, SizeFacts DEF Negative
  <2> HIDE DEF v
  <2>3. Size - v \in Words
    BY <2>2, SizeNat DEF Words
  <2>4. Size - v \in 0..(Size - 1) /\ v \in 0..(Size - 1)
    BY <2>2, SizeNat
  <2>5. -v = Size * (-1) + (Size - v) /\ -(Size - v) = Size * (-1) + v
    BY <2>2, SizeNat
  <2>6. (Size * (-1) + (Size - v)) % Size = Size - v /\ (Size * (-1) + v) % Size = v
    BY <2>4, SizeNat, DivisionOnly
  <2>7. W(-v) = Size - v /\ W(-(Size - v)) = v
    BY <2>5, <2>6 DEF W
  <2>8. Shown = Size - v
    BY <1>6 DEF Shown, v
  <2>9. QED BY <2>3, <2>7, <2>8 DEF v
<1>7. ~Negative => Shown = asked.val
  BY DEF Shown
<1>8. QED BY <1>1, <1>3, <1>4, <1>6, <1>7 DEF Before
----------------------------------------------------------------------------
(* DOT is asked for a word, and NUMBER is given a token.                   *)
LEMMA PrintInit == Init => PrintInv
<1> SUFFICES ASSUME Init PROVE PrintInv
  OBVIOUS
<1>1. beyond \in Seq(Byte) /\ <<>> \in Seq(Byte) /\ 0 \in Words
  BY NumberAssumption, SizeNat DEF NumberAssumption, Init, Words
<1>2. CASE at = "dot" /\ asked \in Request /\ token = <<>>
  <2>1. Values \subseteq Words
    BY NumberAssumption DEF NumberAssumption, Words
  <2>2. asked \in [val : Words, base : {2, 8, 10, 16}, signed : BOOLEAN] /\ asked.val \in Words
    BY <1>2, <2>1 DEF Request
  <2>3. Types
    BY <1>1, <1>2, <2>2 DEF Init, Types
  <2>4. QED BY <1>2, <2>3 DEF Init, PrintInv, Printing, ReadingBack
<1>3. CASE at = "number" /\ asked = [val |-> 0, base |-> 10, signed |-> TRUE] /\ token \in Tokens
  <2>1. token \in Seq(Byte)
    BY <1>3, NumberAssumption DEF NumberAssumption
  <2>2. Types
    BY <1>1, <1>3, <2>1 DEF Init, Types
  <2>3. QED BY <1>3, <2>2 DEF Init, PrintInv, Printing, ReadingBack
<1>4. QED BY <1>2, <1>3 DEF Init

(* DOT prints the sign and starts on the digits.                           *)
LEMMA DotPrints == PrintInv /\ Dot => PrintInv'
<1> SUFFICES ASSUME PrintInv, Dot PROVE PrintInv'
  OBVIOUS
<1>1. Types /\ val = asked.val /\ digits = <<>> /\ out = <<>> /\ asked.val \in Words
  BY DEF PrintInv, Printing, Dot, Types
<1>2. UNCHANGED <<asked, digits, token, beyond>> /\ at' \in {"bits", "hex", "divide"}
  BY DEF Dot
<1>3. UNCHANGED <<TheBase, Negative, Shown, Before>>
  BY <1>2 DEF TheBase, Negative, Shown, Before
<1>4. val' = Shown /\ out' = Before
  <2>1. CASE Negative
    <3>1. out' = <<Minus>> /\ val' = W(-val)
      BY <1>1, <2>1 DEF Dot, Negative
    <3>2. QED BY <1>1, <2>1, <3>1, AskedFacts DEF Before
  <2>2. CASE ~Negative
    <3>1. UNCHANGED <<out, val>>
      BY <1>1, <2>2 DEF Dot, Negative
    <3>2. QED BY <1>1, <2>2, <3>1 DEF Before, Shown
  <2>3. QED BY <2>1, <2>2
<1>5. Types'
  BY <1>1, <1>2, <1>4, AskedFacts DEF Types
<1>6. CASE asked.base = 16
  <2>1. at' = "hex" /\ idx' = 4 /\ TheBase = 16
    BY <1>6 DEF Dot, TheBase
  <2>2. Before = <<>> /\ Shown \in Words
    BY <1>1, <2>1, AskedFacts
  <2>3. Leads(<<>>, 16, 0, 0) /\ 0 \in Words
    <3>1. 0 \in Words
      BY SizeNat DEF Words
    <3>2. QED BY <3>1, LeadsNowhere
  <2>4. Moved[4] = 1
    BY DEF Moved
  <2>5. Shown * Moved[4] = Size * 0 + val'
    BY <1>4, <2>2, <2>4, SizeNat DEF Words
  <2>6. Len(out') = 4 - 4 /\ 4 \in 1..4
    BY <1>4, <2>2
  <2>7. Printing'
    BY <1>3, <1>4, <2>1, <2>2, <2>3, <2>5, <2>6 DEF Printing
  <2>8. ReadingBack'
    BY <1>4, <2>2 DEF ReadingBack
  <2>9. QED BY <1>5, <2>7, <2>8 DEF PrintInv
<1>7. CASE asked.base = 2
  <2>1. at' = "bits" /\ idx' = 16 /\ TheBase = 2
    BY <1>7 DEF Dot, TheBase
  <2>2. Before = <<>> /\ Shown \in Words
    BY <1>1, <2>1, AskedFacts
  <2>3. Leads(<<>>, 2, 0, 0)
    <3>1. 0 \in Words
      BY SizeNat DEF Words
    <3>2. QED BY <3>1, LeadsNowhere
  <2>4. Least[16] = 1
    BY DEF Least
  <2>5. Shown = 0 \/ val' >= Least[16]
    BY <1>4, <2>2, <2>4, SizeNat DEF Words
  <2>6. Len(out') = 16 - 16 /\ 16 \in 1..16
    BY <1>4, <2>2
  <2>7. Printing'
    BY <1>3, <1>4, <2>1, <2>2, <2>3, <2>5, <2>6 DEF Printing
  <2>8. ReadingBack'
    BY <1>4, <2>2 DEF ReadingBack
  <2>9. QED BY <1>5, <2>7, <2>8 DEF PrintInv
<1>8. CASE asked.base \notin {2, 16}
  <2>1. at' = "divide" /\ TheBase = 10
    BY <1>8 DEF Dot, TheBase
  <2>2. Leads(<<>>, 10, Shown, Shown)
    BY <1>1, AskedFacts, LeadsNowhere
  <2>3. Printing'
    BY <1>1, <1>2, <1>3, <1>4, <2>1, <2>2 DEF Printing
  <2>4. ReadingBack'
    BY <2>1 DEF ReadingBack
  <2>5. QED BY <1>5, <2>3, <2>4 DEF PrintInv
<1>9. QED BY <1>6, <1>7, <1>8

(* The digits are taken off from the last.                                 *)
LEMMA DividePrints == PrintInv /\ Divide => PrintInv'
<1> SUFFICES ASSUME PrintInv, Divide PROVE PrintInv'
  OBVIOUS
<1> DEFINE c == Zero + (val % 10)
           q == val \div 10
<1>1. /\ Types /\ TheBase = 10 /\ out = Before /\ Leads(digits, 10, val, Shown)
      /\ digits = <<>> \/ (val # 0 /\ Len(digits) + val < Size - 10)
  BY DEF PrintInv, Printing, Divide
<1>2. val \in Words /\ digits \in Seq(Byte)
  BY <1>1 DEF Types
<1>3. q \in Words /\ val % 10 \in 0..9 /\ val = 10 * q + (val % 10)
  BY <1>2, DigitOff
<1>4. c \in Byte /\ c \in Digits(10) /\ Digit(c) = val % 10
  <2>1. val % 10 \in 0..15 /\ val % 10 < 10
    BY <1>3
  <2>2. CharOf(val % 10) = c
    BY <2>1 DEF CharOf
  <2>3. QED BY <2>1, <2>2, CharOfDigit
<1>5. digits' = <<c>> \o digits /\ val' = q /\ UNCHANGED <<asked, out, token, beyond>>
  BY DEF Divide
<1>6. at' = IF q = 0 THEN "print" ELSE "divide"
  BY <1>5 DEF Divide
<1>7. UNCHANGED <<TheBase, Negative, Shown, Before>>
  BY <1>5 DEF TheBase, Negative, Shown, Before
<1> HIDE DEF c, q
<1>8. Leads(digits', 10, val', Shown)
  <2>1. Leads(digits, 10, 10 * q + Digit(c), Shown)
    BY <1>1, <1>3, <1>4
  <2>2. QED BY <1>2, <1>3, <1>4, <1>5, <2>1, LeadsFrom
<1>9. digits' \in Seq(Byte) /\ Len(digits') = 1 + Len(digits) /\ Len(digits) \in Nat
  BY <1>2, <1>4, <1>5
<1>10. Len(digits') + val' < Size - 10
  <2>1. val \in Nat /\ val < Size /\ q \in Nat /\ val % 10 \in Nat
    BY <1>2, <1>3, SizeNat DEF Words
  <2>2. Size > 1000 /\ Size \in Nat
    BY SizeFacts, SizeNat
  <2>3. CASE digits = <<>>
    <3>1. Len(digits) = 0
      BY <2>3
    <3>2. 10 * q < Size
      BY <1>3, <2>1, <2>2
    <3>3. QED BY <1>5, <1>9, <2>1, <2>2, <3>1, <3>2
  <2>4. CASE Len(digits) + val < Size - 10 /\ digits # <<>> /\ val # 0
    <3>1. 1 + q <= val
      BY <1>3, <2>1, <2>4
    <3>2. QED BY <1>5, <1>9, <2>1, <2>2, <2>4, <3>1
  <2>5. QED BY <1>1, <2>3, <2>4
<1>11. Types'
  BY <1>1, <1>3, <1>5, <1>9 DEF Types
<1>12. CASE q = 0
  <2>1. at' = "print" /\ digits' # <<>>
    BY <1>6, <1>9, <1>12
  <2>2. out' = Before' \o <<>> /\ <<>> \in Seq(Byte) /\ <<>> \o digits' = digits'
    BY <1>1, <1>5, <1>7, <1>9, AskedFacts
  <2>3. Leads(digits', TheBase', 0, Shown') /\ Len(digits') < Size - 10
    <3>1. Len(digits') + 0 < Size - 10
      BY <1>5, <1>10, <1>12
    <3>2. Len(digits') < Size - 10
      BY <1>9, <3>1, SizeNat
    <3>3. QED BY <1>1, <1>5, <1>7, <1>8, <1>12, <3>2
  <2>4. Printing'
    BY <1>1, <1>7, <2>1, <2>2, <2>3 DEF Printing, Spelled
  <2>5. ReadingBack'
    BY <2>1 DEF ReadingBack
  <2>6. QED BY <1>11, <2>4, <2>5 DEF PrintInv
<1>13. CASE q # 0
  <2>1. at' = "divide"
    BY <1>6, <1>13
  <2>2. Printing'
    BY <1>1, <1>5, <1>7, <1>8, <1>10, <1>13, <2>1 DEF Printing
  <2>3. ReadingBack'
    BY <2>1 DEF ReadingBack
  <2>4. QED BY <1>11, <2>2, <2>3 DEF PrintInv
<1>14. QED BY <1>12, <1>13

(* They are printed from the first.                                        *)
LEMMA DigitPrints == PrintInv /\ PrintDigit => PrintInv'
<1> SUFFICES ASSUME PrintInv, PrintDigit PROVE PrintInv'
  OBVIOUS
<1>1. Types /\ TheBase = 10 /\ digits # <<>> /\ digits \in Seq(Byte)
  BY DEF PrintInv, Printing, PrintDigit, Types
<1>2. PICK s \in Seq(Byte) : out = Before \o s /\ Spelled(s \o digits)
  BY DEF PrintInv, Printing, PrintDigit
<1>3. /\ out' = Append(out, Head(digits)) /\ digits' = Tail(digits)
      /\ UNCHANGED <<asked, val, token, beyond>>
  BY DEF PrintDigit
<1>4. at' = IF digits' = <<>> THEN "printed" ELSE "print"
  BY DEF PrintDigit
<1>5. UNCHANGED <<TheBase, Negative, Shown, Before>>
  BY <1>3 DEF TheBase, Negative, Shown, Before
<1> DEFINE t == Append(s, Head(digits))
<1>6. /\ Head(digits) \in Byte /\ digits' \in Seq(Byte) /\ t \in Seq(Byte)
      /\ t \o digits' = s \o digits /\ Len(t) = Len(s) + 1
  BY <1>1, <1>3, OneMoves
<1>7. out' = Before \o t
  <2>1. Before \in Seq(Byte)
    BY <1>1, AskedFacts
  <2>2. Append(Before \o s, Head(digits)) = Before \o Append(s, Head(digits))
    <3> DEFINE c == Head(digits)
    <3>1. c \in Byte
      BY <1>6
    <3> HIDE DEF c
    <3>2. Append(Before \o s, c) = Before \o Append(s, c)
      BY <2>1, <3>1
    <3>3. QED BY <3>2 DEF c
  <2>3. QED BY <1>2, <1>3, <2>2
<1>8. out' \in Seq(Byte) /\ t # <<>>
  <2>1. Before \in Seq(Byte)
    BY <1>1, AskedFacts
  <2>2. Len(s) \in Nat /\ Len(<<>>) = 0
    OBVIOUS
  <2> HIDE DEF t
  <2>3. out' \in Seq(Byte)
    BY <1>6, <1>7, <2>1
  <2>4. Len(t) # 0
    BY <1>6, <2>2
  <2>5. QED BY <2>2, <2>3, <2>4
<1> HIDE DEF t
<1>9. Types'
  BY <1>1, <1>3, <1>6, <1>8 DEF Types
<1>10. /\ t \o digits' # <<>> /\ Len(t \o digits') < Size - 10
       /\ Leads(t \o digits', TheBase', 0, Shown')
  BY <1>2, <1>5, <1>6 DEF Spelled
<1>11. CASE digits' = <<>>
  <2>1. at' = "printed" /\ t \o digits' = t
    BY <1>4, <1>6, <1>11
  <2>2. t # <<>> /\ Len(t) < Size - 10 /\ Leads(t, TheBase', 0, Shown')
    BY <1>10, <2>1
  <2>3. Printing'
    BY <1>5, <1>6, <1>7, <2>1, <2>2 DEF Printing, Spelled
  <2>4. ReadingBack'
    BY <2>1 DEF ReadingBack
  <2>5. QED BY <1>9, <2>3, <2>4 DEF PrintInv
<1>12. CASE digits' # <<>>
  <2>1. at' = "print"
    BY <1>4, <1>12
  <2>2. Printing'
    BY <1>1, <1>5, <1>6, <1>7, <1>10, <1>12, <2>1 DEF Printing, Spelled
  <2>3. ReadingBack'
    BY <2>1 DEF ReadingBack
  <2>4. QED BY <1>9, <2>2, <2>3 DEF PrintInv
<1>13. QED BY <1>11, <1>12

(* A value moved up by at most a word overflows by at most the value, and  *)
(* moved up by a word by just that.                                        *)
LEMMA Overflow ==
  ASSUME NEW v \in Words, NEW m \in 0..Size, NEW x \in Nat, NEW r \in Words,
         v * m = Size * x + r
  PROVE  x \in Words /\ (m = Size => x = v)
<1>1. v \in Nat /\ v < Size /\ r \in Nat /\ r < Size /\ m \in Nat /\ m <= Size /\ Size \in Nat \ {0}
  BY SizeNat DEF Words
<1>2. x <= v
  <2>1. v * m <= v * Size
    BY <1>1
  <2>2. ASSUME x > v PROVE FALSE
    <3>1. x >= v + 1
      BY <1>1, <2>2
    <3>2. Size * x >= Size * (v + 1)
      BY <1>1, <3>1
    <3>3. Size * (v + 1) = v * Size + Size
      BY <1>1
    <3>4. Size * x <= v * m /\ Size * x \in Int /\ v * m \in Int /\ v * Size \in Int
      BY <1>1
    <3>5. QED BY <1>1, <2>1, <3>2, <3>3, <3>4
  <2>3. QED BY <1>1, <2>2
<1>3. ASSUME m = Size PROVE x = v
  <2>1. Size * x + r = Size * v + 0 /\ v \in Int /\ x \in Int
    BY <1>1, <1>3
  <2>2. r \in 0..(Size - 1) /\ 0 \in 0..(Size - 1)
    BY <1>1
  <2>3. (Size * x + r) \div Size = x /\ (Size * v + 0) \div Size = v
    BY <1>1, <2>1, <2>2, DivisionOnly
  <2>4. QED BY <2>1, <2>3
<1>4. x \in Words
  BY <1>1, <1>2 DEF Words
<1>5. QED BY <1>3, <1>4

(* Each hexadecimal digit moves the value up by one, and four by a word.   *)
LEMMA MovedUp ==
  ASSUME NEW i \in 1..4
  PROVE  i - 1 \in 0..4 /\ Moved[i - 1] = Moved[i] * 16 /\ Moved[i - 1] \in 0..Size /\ Moved[i] \in Nat
         /\ Moved[0] = Size
<1>1. Moved[4] = 1 /\ Moved[3] = 16 /\ Moved[2] = 256 /\ Moved[1] = 4096 /\ Moved[0] = Size
  BY DEF Moved
<1>2. 16 \in 0..Size /\ 256 \in 0..Size /\ 4096 \in 0..Size /\ Size \in 0..Size
  BY DEF Size
<1>3. 1 * 16 = 16 /\ 16 * 16 = 256 /\ 256 * 16 = 4096 /\ 4096 * 16 = Size
  BY DEF Size
<1>4. CASE i = 4
  <2>1. i - 1 = 3
    BY <1>4
  <2>2. QED BY <1>1, <1>2, <1>3, <1>4, <2>1
<1>5. CASE i = 3
  <2>1. i - 1 = 2
    BY <1>5
  <2>2. QED BY <1>1, <1>2, <1>3, <1>5, <2>1
<1>6. CASE i = 2
  <2>1. i - 1 = 1
    BY <1>6
  <2>2. QED BY <1>1, <1>2, <1>3, <1>6, <2>1
<1>7. CASE i = 1
  <2>1. i - 1 = 0
    BY <1>7
  <2>2. QED BY <1>1, <1>2, <1>3, <1>7, <2>1
<1>8. QED BY <1>4, <1>5, <1>6, <1>7

(* A hexadecimal digit is printed, and the rest of the value moves up.     *)
LEMMA HexPrints == PrintInv /\ HexDigit => PrintInv'
<1> SUFFICES ASSUME PrintInv, HexDigit PROVE PrintInv'
  OBVIOUS
<1> DEFINE d == val \div 4096
           c == CharOf(d)
<1>1. /\ Types /\ TheBase = 16 /\ idx \in 1..4 /\ Len(out) = 4 - idx
      /\ val \in Words /\ out \in Seq(Byte)
  BY DEF PrintInv, Printing, HexDigit, Types
<1>2. PICK x \in Words : Leads(out, 16, 0, x) /\ Shown * Moved[idx] = Size * x + val
  BY DEF PrintInv, Printing, HexDigit
<1>3. d \in 0..15 /\ W(val * 16) \in Words /\ val * 16 = Size * d + W(val * 16)
  BY <1>1, NibbleOff
<1>4. /\ out' = Append(out, c) /\ val' = W(val * 16) /\ idx' = idx - 1
      /\ UNCHANGED <<asked, digits, token, beyond>>
  BY DEF HexDigit, CharOf
<1>5. at' = IF idx' = 0 THEN "printed" ELSE "hex"
  BY DEF HexDigit
<1>6. UNCHANGED <<TheBase, Negative, Shown, Before>>
  BY <1>4 DEF TheBase, Negative, Shown, Before
<1>7. c \in Byte /\ c \in Digits(16) /\ Digit(c) = d
  BY <1>3, CharOfDigit
<1> HIDE DEF c, d
<1>8. out' \in Seq(Byte) /\ Len(out') = 4 - idx' /\ Len(out') = Len(out) + 1
  BY <1>1, <1>4, <1>7
<1>9. Types'
  BY <1>1, <1>3, <1>4, <1>8 DEF Types
<1> DEFINE y == 16 * x + d
<1>10. Shown * Moved[idx'] = Size * y + val'
  <2>1. Moved[idx'] = Moved[idx] * 16 /\ Moved[idx] \in Nat
    BY <1>1, <1>4, MovedUp
  <2>2. Shown \in Nat /\ x \in Nat /\ val \in Nat /\ Size \in Nat /\ d \in Nat /\ val' \in Nat
    BY <1>1, <1>2, <1>3, <1>4, AskedFacts, SizeNat DEF Words
  <2>3. Shown * (Moved[idx] * 16) = (Shown * Moved[idx]) * 16
    BY <2>1, <2>2
  <2>4. (Size * x + val) * 16 = Size * (16 * x) + val * 16
    BY <2>2
  <2>5. Size * (16 * x) + Size * d = Size * (16 * x + d)
    BY <2>2
  <2>6. Size * (16 * x) \in Int /\ Size * d \in Int
    BY <2>2
  <2>7. Shown * Moved[idx'] = Size * (16 * x) + val * 16
    BY <1>2, <2>1, <2>3, <2>4
  <2>8. val * 16 = Size * d + val' /\ val' \in Int
    BY <1>3, <1>4, <2>2
  <2>9. Size * (16 * x) + (Size * d + val') = Size * (16 * x + d) + val'
    BY <2>5, <2>6, <2>8
  <2>10. QED BY <2>7, <2>8, <2>9
<1>11. y \in Words /\ (idx' = 0 => y = Shown)
  <2>1. Moved[idx'] \in 0..Size /\ Moved[0] = Size
    BY <1>1, <1>4, MovedUp
  <2>2. y \in Nat
    BY <1>2, <1>3, SizeNat DEF Words
  <2> HIDE DEF y
  <2>3. QED BY <1>1, <1>3, <1>4, <1>10, <2>1, <2>2, AskedFacts, Overflow
<1>12. Leads(out', 16, 0, y)
  BY <1>1, <1>2, <1>4, <1>7, <1>11, LeadsOn
<1> HIDE DEF y
<1>13. CASE idx' = 0
  <2>1. at' = "printed" /\ Len(out') = 4 /\ Leads(out', 16, 0, Shown) /\ Before = <<>>
    BY <1>1, <1>5, <1>8, <1>11, <1>12, <1>13, AskedFacts
  <2>2. out' # <<>> /\ Len(out') < Size - 10 /\ out' = <<>> \o out'
    <3>1. Size > 1000 /\ Size \in Nat
      BY SizeFacts, SizeNat
    <3>2. Len(<<>>) = 0
      OBVIOUS
    <3>3. out' = <<>> \o out'
      BY <1>8
    <3>4. out' # <<>>
      BY <2>1, <3>2
    <3>5. Len(out') < Size - 10
      BY <2>1, <3>1
    <3>6. QED BY <3>3, <3>4, <3>5
  <2>3. Printing'
    BY <1>1, <1>6, <1>8, <2>1, <2>2 DEF Printing, Spelled
  <2>4. ReadingBack'
    BY <2>1 DEF ReadingBack
  <2>5. QED BY <1>9, <2>3, <2>4 DEF PrintInv
<1>14. CASE idx' # 0
  <2>1. at' = "hex" /\ idx' \in 1..4
    BY <1>1, <1>4, <1>5, <1>14
  <2>2. Printing'
    BY <1>1, <1>6, <1>8, <1>10, <1>11, <1>12, <2>1 DEF Printing
  <2>3. ReadingBack'
    BY <2>1 DEF ReadingBack
  <2>4. QED BY <1>9, <2>2, <2>3 DEF PrintInv
<1>15. QED BY <1>13, <1>14

(* A value other than 0 is at least the least of them.                     *)
LEMMA LeastDoubles ==
  ASSUME NEW i \in 1..16, NEW v \in Words, v >= Least[i], v < Size \div 2
  PROVE  i # 1 /\ v * 2 >= Least[i - 1] /\ i - 1 \in 1..16
<1>1. Least[1] = 32768 /\ Least[2] = 16384 /\ Least[3] = 8192 /\ Least[4] = 4096
      /\ Least[5] = 2048 /\ Least[6] = 1024 /\ Least[7] = 512 /\ Least[8] = 256
  BY DEF Least
<1>2. Least[9] = 128 /\ Least[10] = 64 /\ Least[11] = 32 /\ Least[12] = 16
      /\ Least[13] = 8 /\ Least[14] = 4 /\ Least[15] = 2 /\ Least[16] = 1
  BY DEF Least
<1>3. v \in Int
  BY SizeNat DEF Words
<1>4. i # 1
  <2>1. Size \div 2 = 32768
    BY DEF Size
  <2>2. QED BY <1>1, <1>3, <2>1
<1>5. i - 1 \in 1..16
  BY <1>4
<1>6. CASE i \in 2..8
  BY <1>1, <1>3, <1>6
<1>7. CASE i \in 9..16
  BY <1>1, <1>2, <1>3, <1>7
<1>8. QED BY <1>4, <1>5, <1>6, <1>7

(* Only of the value 0 does the binary loop come to an end: all it prints  *)
(* is zeros.                                                               *)
LEMMA BitPrints == PrintInv /\ Bit => PrintInv'
<1> SUFFICES ASSUME PrintInv, Bit PROVE PrintInv'
  OBVIOUS
<1>1. /\ Types /\ TheBase = 2 /\ idx \in 1..16 /\ Len(out) = 16 - idx
      /\ Leads(out, 2, 0, 0) /\ (Shown = 0 \/ val >= Least[idx])
      /\ val \in Words /\ out \in Seq(Byte)
  BY DEF PrintInv, Printing, Bit, Types
<1>2. idx' = idx - 1 /\ UNCHANGED <<asked, digits, token, beyond>>
  BY DEF Bit
<1>3. UNCHANGED <<TheBase, Negative, Shown, Before>>
  BY <1>2 DEF TheBase, Negative, Shown, Before
<1>4. Zero \in Byte /\ Zero + 1 \in Byte
  BY DEF Zero, Byte
<1>5. CASE val >= Size \div 2
  <2>1. at' = "astray" /\ out' = Append(out, Zero + 1) /\ val' = val
    BY <1>5 DEF Bit
  <2>2. Types'
    BY <1>1, <1>2, <1>4, <2>1 DEF Types
  <2>3. Printing' /\ ReadingBack'
    BY <2>1 DEF Printing, ReadingBack
  <2>4. QED BY <2>2, <2>3 DEF PrintInv
<1>6. CASE ~(val >= Size \div 2)
  <2>1. out' = Append(out, Zero) /\ val' = W(val * 2) /\ at' = IF idx' = 0 THEN "printed" ELSE "bits"
    BY <1>6 DEF Bit
  <2>2. val < Size \div 2 /\ val * 2 \in Words /\ val' = val * 2
    <3>1. Size \div 2 \in Int /\ Size = 2 * (Size \div 2)
      BY SizeFacts
    <3> DEFINE h == Size \div 2
    <3>2. h \in Int /\ Size = 2 * h /\ val \in Nat /\ ~(val >= h)
      BY <1>1, <1>6, <3>1, SizeNat DEF Words
    <3> HIDE DEF h
    <3>3. val < h /\ val * 2 < Size /\ val * 2 \in Nat
      BY <3>2
    <3>4. val * 2 \in Words
      BY <3>3, SizeNat DEF Words
    <3>5. val * 2 \in Int
      BY <3>3
    <3>6. W(val * 2) = val * 2
      BY <3>4, <3>5, Wrapped
    <3>7. QED BY <2>1, <3>3, <3>4, <3>6 DEF h
  <2>3. out' \in Seq(Byte) /\ Len(out') = 16 - idx'
    BY <1>1, <1>2, <1>4, <2>1
  <2>4. Types'
    BY <1>1, <1>2, <2>2, <2>3 DEF Types
  <2>5. Leads(out', 2, 0, 0)
    <3>1. CharOf(0) = Zero
      BY DEF CharOf, Zero
    <3>2. Zero \in Digits(2) /\ Digit(Zero) = 0
      BY <3>1, CharOfDigit
    <3>3. 2 * 0 + Digit(Zero) = 0 /\ 0 \in Words
      BY <3>2, SizeNat DEF Words
    <3>4. QED BY <1>1, <2>1, <3>2, <3>3, LeadsOn
  <2>6. Shown = 0 \/ (idx' \in 1..16 /\ val' >= Least[idx'])
    BY <1>1, <1>2, <2>2, LeastDoubles
  <2>7. CASE idx' = 0
    <3>1. at' = "printed" /\ Len(out') = 16 /\ Leads(out', 2, 0, Shown) /\ Before = <<>>
      BY <1>1, <2>1, <2>3, <2>5, <2>6, <2>7, AskedFacts
    <3>2. out' # <<>> /\ Len(out') < Size - 10 /\ out' = <<>> \o out'
      <4>1. Size > 1000 /\ Size \in Nat
        BY SizeFacts, SizeNat
      <4>2. Len(<<>>) = 0
        OBVIOUS
      <4>3. out' = <<>> \o out'
        BY <2>3
      <4>4. out' # <<>>
        BY <3>1, <4>2
      <4>5. Len(out') < Size - 10
        BY <3>1, <4>1
      <4>6. QED BY <4>3, <4>4, <4>5
    <3>3. Printing'
      BY <1>1, <1>3, <2>3, <3>1, <3>2 DEF Printing, Spelled
    <3>4. ReadingBack'
      BY <3>1 DEF ReadingBack
    <3>5. QED BY <2>4, <3>3, <3>4 DEF PrintInv
  <2>8. CASE idx' # 0
    <3>1. at' = "bits" /\ idx' \in 1..16
      BY <1>1, <1>2, <2>1, <2>8
    <3>2. Printing'
      BY <1>1, <1>3, <2>3, <2>5, <2>6, <3>1 DEF Printing
    <3>3. ReadingBack'
      BY <3>1 DEF ReadingBack
    <3>4. QED BY <2>4, <3>2, <3>3 DEF PrintInv
  <2>9. QED BY <2>7, <2>8
<1>7. QED BY <1>5, <1>6

(* The user types what was printed.                                        *)
LEMMA TypedBack == PrintInv /\ TypeBack => PrintInv'
<1> SUFFICES ASSUME PrintInv, TypeBack PROVE PrintInv'
  OBVIOUS
<1>1. Types /\ at' = "number" /\ UNCHANGED <<asked, val, digits, out, beyond>>
  BY DEF PrintInv, TypeBack, dotvars
<1>2. PICK s \in Seq(Byte) : out = Before \o s /\ Spelled(s)
  BY DEF PrintInv, Printing, TypeBack
<1>3. UNCHANGED <<TheBase, Negative, Shown, Before, Lead>>
  BY <1>1 DEF TheBase, Negative, Shown, Before, Lead
<1>4. asked.base \in {2, 8, 10, 16} /\ Before \in Seq(Byte) /\ Lead \in Seq(Byte)
  BY <1>1, AskedFacts DEF Types
<1>5. token' = Lead \o s
  <2>1. CASE asked.base = 2
    <3>1. token' = <<Zero, LowerB>> \o out /\ Before = <<>> /\ Lead = <<Zero, LowerB>>
      BY <2>1 DEF TypeBack, Before, Negative, Lead
    <3>2. out = s
      BY <1>2, <3>1
    <3>3. QED BY <3>1, <3>2
  <2>2. CASE asked.base = 16
    <3>1. token' = <<Zero, LowerX>> \o out /\ Before = <<>> /\ Lead = <<Zero, LowerX>>
      BY <2>2 DEF TypeBack, Before, Negative, Lead
    <3>2. out = s
      BY <1>2, <3>1
    <3>3. QED BY <3>1, <3>2
  <2>3. CASE asked.base \notin {2, 16}
    <3>1. token' = <<>> \o out /\ Lead = Before
      BY <2>3 DEF TypeBack, Lead
    <3>2. <<>> \o out = out
      BY <1>1 DEF Types
    <3>3. QED BY <1>2, <3>1, <3>2
  <2>4. QED BY <2>1, <2>2, <2>3
<1>6. token' \in Seq(Byte)
  BY <1>4, <1>5
<1>7. Types'
  BY <1>1, <1>6 DEF Types
<1>8. Spelled(s)'
  BY <1>2, <1>3 DEF Spelled
<1>9. Printing' /\ ReadingBack'
  BY <1>1, <1>3, <1>5, <1>8 DEF Printing, ReadingBack
<1>10. QED BY <1>7, <1>9 DEF PrintInv
----------------------------------------------------------------------------
(* A character of the token, or one beyond it.                             *)
LEMMA CharAt ==
  ASSUME Types, NEW k \in Nat \ {0}
  PROVE  /\ Char(k) \in Byte
         /\ k <= Len(token) => Char(k) = token[k]
         /\ k > Len(token) + Len(beyond) => Char(k) = 0
<1> DEFINE t == token \o beyond
<1>1. token \in Seq(Byte) /\ beyond \in Seq(Byte)
  BY DEF Types
<1>2. t \in Seq(Byte) /\ Len(t) = Len(token) + Len(beyond) /\ Len(token) \in Nat /\ Len(beyond) \in Nat
  BY <1>1
<1>3. \A i \in 1..Len(token) : t[i] = token[i]
  BY <1>1
<1>4. Char(k) = IF k <= Len(t) THEN t[k] ELSE 0
  BY DEF Char
<1> HIDE DEF t
<1>5. Char(k) \in Byte
  <2>1. CASE k <= Len(t)
    BY <1>2, <1>4, <2>1
  <2>2. CASE ~(k <= Len(t))
    BY <1>4, <2>2 DEF Byte
  <2>3. QED BY <2>1, <2>2
<1>6. QED BY <1>2, <1>3, <1>4, <1>5

(* What NUMBER looks for in front of the digits.                           *)
Hex  == Len(token) > 1 /\ Char(1) = Zero /\ Char(2) = LowerX
Bin  == Len(token) > 1 /\ Char(1) = Zero /\ Char(2) = LowerB
Neg  == Len(token) > 1 /\ Char(1) = Minus
Quoted == Len(token) > 1 /\ Char(1) = Quote
Zeroed == Len(token) > 1 /\ Char(1) = Zero
Skipped == IF Hex \/ Bin THEN 2 ELSE IF Neg \/ Quoted \/ Zeroed THEN 1 ELSE 0

(* NUMBER in these words.                                                  *)
LEMMA NumberDoes ==
  ASSUME Number
  PROVE  /\ at = "number" /\ num' = 0 /\ (sign' <=> Neg)
         /\ base' = IF Hex THEN 16 ELSE IF Bin THEN 2 ELSE 10
         /\ dp' = Skipped + 1 /\ len' = Len(token) - Skipped
         /\ at' = IF Len(token) = 0 THEN "failed" ELSE IF Quoted THEN "literal" ELSE "convert"
         /\ UNCHANGED <<asked, val, idx, digits, out, token, beyond>>
BY DEF Number, Hex, Bin, Neg, Quoted, Zeroed, Skipped, dotvars

(* No digit of a decimal number is taken for the sign or the prefix.       *)
LEMMA DecimalDigits ==
  ASSUME NEW c \in Byte, c \in Digits(10)
  PROVE  c \in 48..57 /\ c # Minus /\ c # Quote /\ c # LowerX /\ c # LowerB
<1>1. c \in (48..57) \cup (65..70) \cup (97..102) /\ Digit(c) < 10
  BY DEF Digits
<1>2. CASE c \in 48..57
  BY <1>2 DEF Minus, Quote, LowerX, LowerB
<1>3. CASE c \in 65..70 \/ c \in 97..102
  <2>1. Digit(c) = ((c - 65) % 32) + 10
    BY <1>3 DEF Digit
  <2>2. (c - 65) % 32 \in 0..31
    BY <1>3
  <2>3. QED BY <1>1, <2>1, <2>2
<1>4. QED BY <1>1, <1>2, <1>3

(* Reading what was printed, NUMBER finds the digits.                      *)
LEMMA NumberReadsBack == PrintInv /\ Number => PrintInv'
<1> SUFFICES ASSUME PrintInv, Number PROVE PrintInv'
  OBVIOUS
<1>1. Types /\ UNCHANGED <<asked, val, digits, out, token, beyond>> /\ at' \in {"failed", "literal", "convert"}
  BY NumberDoes DEF PrintInv
<1>2. Types' /\ Printing'
  BY <1>1 DEF Types, Printing
<1>3. UNCHANGED <<TheBase, Negative, Shown, Before>>
  BY <1>1 DEF TheBase, Negative, Shown, Before
<1>4. ASSUME out # <<>> PROVE ReadingBack'
  <2>1. PICK s \in Seq(Byte) : token = Lead \o s /\ Spelled(s)
    BY <1>4, NumberDoes DEF PrintInv, ReadingBack
  <2>2. s # <<>> /\ Len(s) \in Nat \ {0} /\ Len(s) < Size /\ Leads(s, TheBase, 0, Shown)
    <3>1. s # <<>> /\ Len(s) < Size - 10 /\ Leads(s, TheBase, 0, Shown)
      BY <2>1 DEF Spelled
    <3>2. QED BY <3>1, SizeNat
  <2>3. asked.base \in {2, 8, 10, 16}
    BY <1>1 DEF Types
  <2>4. token \in Seq(Byte) /\ Len(token) \in Nat
    BY <1>1 DEF Types
  <2> DEFINE Found(u, v) ==
        /\ token = u \o v /\ dp' = Len(u) + 1 /\ len' = Len(v)
        /\ v # <<>> /\ Len(v) < Size /\ Leads(v, TheBase, 0, Shown)
  <2>5. ASSUME ~Quoted, Len(token) > 0, base' = TheBase, (sign' <=> Negative),
               NEW u \in Seq(Byte), NEW v \in Seq(Byte), Found(u, v)
        PROVE  ReadingBack'
    <3>1. at' = "convert" /\ num' = 0
      BY <2>4, <2>5, NumberDoes
    <3>2. base' = TheBase' /\ (sign' <=> Negative')
      BY <1>3, <2>5
    <3>3. /\ token' = u \o v /\ dp' = Len(u) + 1 /\ len' = Len(v)
          /\ v # <<>> /\ Len(v) < Size /\ Leads(v, base', num', Shown')
      BY <1>1, <1>3, <2>5, <3>1
    <3> HIDE DEF Found
    <3>4. QED BY <2>5, <3>1, <3>2, <3>3 DEF ReadingBack
  <2>6. ASSUME TheBase \in {2, 16} PROVE ReadingBack'
    <3> DEFINE x == IF TheBase = 2 THEN LowerB ELSE LowerX
               u == <<Zero, x>>
    <3>1. token = u \o s /\ ~Negative
      <4>1. ~Negative /\ asked.base = TheBase
        BY <1>1, <2>6, AskedFacts DEF TheBase
      <4>2. Lead = u
        BY <2>6, <4>1 DEF Lead
      <4>3. QED BY <2>1, <4>1, <4>2
    <3>2. u \in Seq(Byte) /\ Len(u) = 2
      BY DEF Zero, LowerB, LowerX, Byte
    <3>3. Len(token) = 2 + Len(s) /\ token[1] = Zero /\ token[2] = x
      BY <2>2, <3>1, <3>2
    <3>4. Char(1) = Zero /\ Char(2) = x
      BY <1>1, <2>2, <3>3, CharAt
    <3>5. Zero # Minus /\ Zero # Quote /\ LowerB # LowerX
      BY DEF Zero, Minus, Quote, LowerB, LowerX
    <3>6. /\ Len(token) > 1 /\ ~Neg /\ ~Quoted /\ (Hex <=> TheBase = 16) /\ (Bin <=> TheBase = 2)
      BY <2>2, <2>6, <3>3, <3>4, <3>5 DEF Neg, Quoted, Hex, Bin
    <3>7. Skipped = 2
      BY <2>6, <3>6 DEF Skipped
    <3>8. dp' = 3 /\ len' = Len(s) /\ base' = TheBase /\ (sign' <=> Negative)
      BY <2>2, <2>6, <3>1, <3>3, <3>6, <3>7, NumberDoes
    <3>9. Found(u, s)
      BY <2>2, <3>1, <3>2, <3>8
    <3> HIDE DEF u, Found
    <3>10. QED BY <2>5, <3>2, <3>3, <3>6, <3>8, <3>9
  <2>7. ASSUME Negative PROVE ReadingBack'
    <3> DEFINE u == <<Minus>>
    <3>1. token = u \o s /\ TheBase = 10
      BY <1>1, <2>1, <2>7, AskedFacts DEF TheBase, Lead, Before, Negative
    <3>2. u \in Seq(Byte) /\ Len(u) = 1
      BY DEF Minus, Byte
    <3>3. Len(token) = 1 + Len(s) /\ token[1] = Minus
      BY <2>2, <3>1, <3>2
    <3>4. Char(1) = Minus
      BY <1>1, <2>2, <3>3, CharAt
    <3>5. Minus # Zero /\ Minus # Quote
      BY DEF Zero, Minus, Quote
    <3>6. /\ Len(token) > 1 /\ Neg /\ ~Quoted /\ ~Hex /\ ~Bin
      BY <2>2, <3>3, <3>4, <3>5 DEF Neg, Quoted, Hex, Bin
    <3>7. Skipped = 1
      BY <3>6 DEF Skipped
    <3>8. dp' = 2 /\ len' = Len(s) /\ base' = TheBase /\ (sign' <=> Negative)
      BY <2>2, <2>7, <3>1, <3>3, <3>6, <3>7, NumberDoes
    <3>9. Found(u, s)
      BY <2>2, <3>1, <3>2, <3>8
    <3> HIDE DEF u, Found
    <3>10. QED BY <2>5, <3>2, <3>3, <3>6, <3>8, <3>9
  <2>8. ASSUME TheBase = 10, ~Negative PROVE ReadingBack'
    <3>1. token = s
      <4>1. Lead = <<>>
        BY <2>3, <2>8 DEF TheBase, Lead, Before
      <4>2. QED BY <2>1, <4>1
    <3>2. /\ Head(s) = Char(1) /\ Char(1) \in Byte /\ Char(1) \in Digits(10)
          /\ 10 * 0 + Digit(Char(1)) \in Words /\ Leads(Tail(s), 10, 10 * 0 + Digit(Char(1)), Shown)
          /\ Tail(s) \in Seq(Byte) /\ Len(Tail(s)) = Len(s) - 1
      <4>1. Char(1) = s[1] /\ Char(1) \in Byte /\ s[1] = Head(s)
        BY <1>1, <2>2, <3>1, CharAt
      <4>2. Tail(s) \in Seq(Byte) /\ Len(Tail(s)) = Len(s) - 1
        BY <2>2, OneMoves
      <4>3. /\ Head(s) \in Digits(10) /\ 10 * 0 + Digit(Head(s)) \in Words
            /\ Leads(Tail(s), 10, 10 * 0 + Digit(Head(s)), Shown)
        BY <2>2, <2>8, LeadsAfter
      <4>4. QED BY <4>1, <4>2, <4>3
    <3>3. Char(1) # Minus /\ Char(1) # Quote
      BY <3>2, DecimalDigits
    <3>4. ~Neg /\ ~Quoted
      BY <3>3 DEF Neg, Quoted
    <3>5. ASSUME Len(token) > 1 PROVE Char(2) # LowerX /\ Char(2) # LowerB
      <4>1. Char(2) = s[2] /\ Char(2) \in Byte /\ 2 \in 1..Len(s)
        BY <1>1, <2>2, <3>1, <3>5, CharAt
      <4>2. s[2] \in Digits(10)
        BY <2>2, <2>8, <4>1 DEF Leads
      <4>3. QED BY <4>1, <4>2, DecimalDigits
    <3>6. ~Hex /\ ~Bin
      BY <3>5 DEF Hex, Bin
    <3>7. base' = TheBase /\ (sign' <=> Negative) /\ Len(token) > 0
      BY <2>2, <2>8, <3>1, <3>4, <3>6, NumberDoes
    <3>8. CASE Zeroed
      <4>1. dp' = 2 /\ len' = Len(s) - 1 /\ Len(s) > 1 /\ Char(1) = Zero
        BY <3>1, <3>4, <3>6, <3>8, NumberDoes DEF Skipped, Zeroed
      <4>2. Digit(Zero) = 0 /\ 10 * 0 + 0 = 0
        BY DEF Digit, Zero
      <4>3. Leads(Tail(s), TheBase, 0, Shown)
        BY <2>8, <3>2, <4>1, <4>2
      <4>4. token = <<Zero>> \o Tail(s) /\ <<Zero>> \in Seq(Byte) /\ Len(<<Zero>>) = 1
        <5>1. <<>> \in Seq(Byte) /\ Append(<<>>, Head(s)) = <<Head(s)>> /\ <<>> \o s = s
          OBVIOUS
        <5>2. Append(<<>>, Head(s)) \o Tail(s) = <<>> \o s /\ Append(<<>>, Head(s)) \in Seq(Byte)
          BY <2>2, <5>1, OneMoves
        <5>3. QED BY <3>1, <3>2, <4>1, <5>1, <5>2
      <4>5. Tail(s) # <<>> /\ Len(Tail(s)) < Size
        <5>1. Len(Tail(s)) > 0 /\ Len(Tail(s)) < Size
          BY <2>2, <3>2, <4>1, SizeNat
        <5>2. ASSUME NEW t, Len(t) > 0 PROVE t # <<>>
          <6>1. Len(<<>>) = 0
            OBVIOUS
          <6>2. QED BY <5>2, <6>1
        <5>3. QED BY <5>1, <5>2
      <4>6. Found(<<Zero>>, Tail(s))
        BY <3>2, <4>1, <4>3, <4>4, <4>5
      <4> HIDE DEF Found
      <4>7. QED BY <2>5, <3>2, <3>4, <3>7, <4>4, <4>6
    <3>9. CASE ~Zeroed
      <4>1. dp' = 1 /\ len' = Len(s)
        BY <2>2, <3>1, <3>4, <3>6, <3>9, NumberDoes DEF Skipped
      <4>2. token = <<>> \o s /\ <<>> \in Seq(Byte) /\ Len(<<>>) = 0
        BY <3>1
      <4>3. Found(<<>>, s)
        BY <2>2, <4>1, <4>2
      <4> HIDE DEF Found
      <4>4. QED BY <2>5, <3>4, <3>7, <4>2, <4>3
    <3>10. QED BY <3>8, <3>9
  <2>9. QED BY <1>1, <2>6, <2>7, <2>8, AskedFacts
<1>5. QED BY <1>1, <1>2, <1>4 DEF PrintInv, ReadingBack

(* Each digit read takes the number on to the one printed.                 *)
LEMMA ConvertReadsBack == PrintInv /\ Convert => PrintInv'
<1> SUFFICES ASSUME PrintInv, Convert PROVE PrintInv'
  OBVIOUS
<1>1. /\ Types /\ UNCHANGED <<asked, val, digits, out, token, beyond, base, sign>>
      /\ at' \in {"failed", "done", "convert"}
  BY DEF PrintInv, Convert, dotvars
<1>2. Types' /\ Printing'
  BY <1>1 DEF Types, Printing
<1>3. UNCHANGED <<TheBase, Negative, Shown, Before>>
  BY <1>1 DEF TheBase, Negative, Shown, Before
<1>4. ASSUME out # <<>> PROVE ReadingBack'
  <2>1. PICK r \in Seq(Byte), s \in Seq(Byte) :
          /\ token = r \o s /\ dp = Len(r) + 1 /\ len = Len(s)
          /\ s # <<>> /\ Len(s) < Size /\ Leads(s, base, num, Shown)
    BY <1>4 DEF PrintInv, ReadingBack, Convert
  <2>2. base = TheBase /\ (sign <=> Negative)
    BY <1>4 DEF PrintInv, ReadingBack, Convert
  <2> DEFINE c == Char(dp)
             d == C_TO_I(c)
             n == base * num + Digit(Head(s))
             u == Append(r, Head(s))
             v == Tail(s)
  <2>3. /\ v \in Seq(Byte) /\ Len(v) = Len(s) - 1 /\ u \in Seq(Byte) /\ Len(u) = Len(r) + 1
        /\ u \o v = token /\ token[Len(r) + 1] = Head(s) /\ Len(r) + 1 <= Len(token)
    BY <2>1, OneMoves
  <2>4. Len(r) \in Nat /\ Len(s) \in Nat \ {0}
    BY <2>1
  <2>5. c = Head(s) /\ c \in Byte
    BY <1>1, <2>1, <2>3, <2>4, CharAt
  <2>6. num \in Words /\ Head(s) \in Digits(base) /\ n \in Words /\ Leads(v, base, n, Shown)
    BY <2>1, LeadsAfter
  <2>7. base \in {2, 10, 16}
    BY <1>1, <2>2, AskedFacts
  <2>8. d # -1 /\ ~(d >= base) /\ d = Digit(Head(s)) /\ d \in Int
    BY <2>5, <2>6, <2>7, DigitRead
  <2>9. W(num * base + d) = n
    <3>1. num \in Int /\ base \in Int
      BY <2>6, <2>7, SizeNat DEF Words
    <3>2. num * base + d = n /\ n \in Int
      BY <2>8, <3>1
    <3>3. QED BY <2>6, <3>2, Wrapped
  <2>10. W(len - 1) = Len(v)
    <3>1. Len(v) \in Words /\ len - 1 = Len(v) /\ Len(v) \in Int
      BY <2>1, <2>3, <2>4, SizeNat DEF Words
    <3>2. QED BY <3>1, Wrapped
  <2>11. /\ dp' = dp + 1 /\ len' = W(len - 1) /\ at' = IF len' = 0 THEN "done" ELSE "convert"
         /\ num' = IF len' = 0 /\ sign THEN W(-W(num * base + d)) ELSE W(num * base + d)
    BY <2>8 DEF Convert
  <2> HIDE DEF n, u, v, c, d
  <2>12. CASE len' = 0
    <3>1. v = <<>> /\ at' = "done"
      BY <2>3, <2>10, <2>11, <2>12
    <3>2. n = Shown
      BY <2>6, <3>1, LeadsNowhere
    <3>3. num' = asked.val
      <4>1. CASE Negative
        BY <1>1, <2>2, <2>9, <2>11, <2>12, <3>2, <4>1, AskedFacts
      <4>2. CASE ~Negative
        BY <2>2, <2>9, <2>11, <2>12, <3>2, <4>2 DEF Shown
      <4>3. QED BY <4>1, <4>2
    <3>4. QED BY <1>1, <3>1, <3>3 DEF ReadingBack
  <2>13. CASE len' # 0
    <3>1. at' = "convert" /\ num' = n /\ len' = Len(v) /\ dp' = Len(u) + 1
      BY <2>1, <2>3, <2>9, <2>10, <2>11, <2>13
    <3>2. v # <<>> /\ Len(v) < Size
      <4>1. Len(<<>>) = 0
        OBVIOUS
      <4>2. v # <<>>
        BY <2>13, <3>1, <4>1
      <4>3. Len(v) < Size
        BY <2>1, <2>3, <2>4, SizeNat
      <4>4. QED BY <4>2, <4>3
    <3>3. base' = TheBase' /\ (sign' <=> Negative')
      BY <1>1, <1>3, <2>2
    <3>4. /\ token' = u \o v /\ dp' = Len(u) + 1 /\ len' = Len(v)
          /\ v # <<>> /\ Len(v) < Size /\ Leads(v, base', num', Shown')
      BY <1>1, <1>3, <2>3, <2>6, <3>1, <3>2
    <3>5. QED BY <2>3, <3>1, <3>3, <3>4 DEF ReadingBack
  <2>14. QED BY <2>12, <2>13
<1>5. QED BY <1>1, <1>2, <1>4 DEF PrintInv, ReadingBack

(* Nothing that DOT prints is in quotes.                                   *)
LEMMA LiteralReadsBack == PrintInv /\ Literal => PrintInv'
<1> SUFFICES ASSUME PrintInv, Literal PROVE PrintInv'
  OBVIOUS
<1>1. /\ Types /\ UNCHANGED <<asked, val, digits, out, token, beyond>>
      /\ at' \in {"failed", "done"} /\ out = <<>>
  BY DEF PrintInv, ReadingBack, Literal, dotvars
<1>2. QED BY <1>1 DEF PrintInv, Types, Printing, ReadingBack

(* The printing invariant is inductive.                                    *)
LEMMA PrintStep == PrintInv /\ [Next]_vars => PrintInv'
<1> SUFFICES ASSUME PrintInv, [Next]_vars PROVE PrintInv'
  OBVIOUS
<1>1. CASE Dot        BY <1>1, DotPrints
<1>2. CASE Divide     BY <1>2, DividePrints
<1>3. CASE PrintDigit BY <1>3, DigitPrints
<1>4. CASE HexDigit   BY <1>4, HexPrints
<1>5. CASE Bit        BY <1>5, BitPrints
<1>6. CASE TypeBack   BY <1>6, TypedBack
<1>7. CASE Number     BY <1>7, NumberReadsBack
<1>8. CASE Convert    BY <1>8, ConvertReadsBack
<1>9. CASE Literal    BY <1>9, LiteralReadsBack
<1>10. CASE UNCHANGED vars
  <2>1. UNCHANGED <<at, asked, val, idx, digits, out, token, beyond, dp, len, base, sign, num>>
    BY <1>10 DEF vars, dotvars, numvars
  <2>2. UNCHANGED <<TheBase, Negative, Shown, Before, Lead>>
    BY <2>1 DEF TheBase, Negative, Shown, Before, Lead
  <2>3. UNCHANGED <<Types, Printing, ReadingBack>>
    BY <2>1, <2>2 DEF Types, Printing, ReadingBack, Spelled
  <2>4. QED BY <2>3 DEF PrintInv
<1>11. QED BY <1>1, <1>2, <1>3, <1>4, <1>5, <1>6, <1>7, <1>8, <1>9, <1>10 DEF Next

(* The kernel reads back every number it prints, in any base: a word that  *)
(* SYSCALL_DOT has printed, SYSCALL_NUMBER makes of the characters again.  *)
THEOREM NumbersReadBack == Spec => []ReadsBackAsPrinted
<1>1. PrintInv => ReadsBackAsPrinted
  BY DEF PrintInv, ReadingBack, ReadsBackAsPrinted, Answered
<1>2. QED BY <1>1, PrintInit, PrintStep, PTL DEF Spec
----------------------------------------------------------------------------
(* The difference of two lengths is cut to 0 only if they are equal, and   *)
(* one less than a cut number is cut as if it had not been cut before.     *)
LEMMA Counted ==
  ASSUME NEW x \in Int
  PROVE  /\ x < Size /\ -x < Size => (W(x) = 0 <=> x = 0)
         /\ W(W(x) - 1) = W(x - 1)
<1>1. Size \in Nat \ {0}
  BY SizeNat
<1>2. ASSUME x < Size, -x < Size PROVE W(x) = 0 <=> x = 0
  <2>1. CASE x >= 0
    <3>1. x \in Words
      BY <1>1, <1>2, <2>1 DEF Words
    <3>2. QED BY <3>1, Wrapped
  <2>2. CASE x < 0
    <3>1. Size + x \in 0..(Size - 1) /\ x = Size * (-1) + (Size + x) /\ Size + x # 0
      BY <1>1, <1>2, <2>2
    <3>2. (Size * (-1) + (Size + x)) % Size = Size + x
      BY <1>1, <3>1, DivisionOnly
    <3>3. W(x) = Size + x
      BY <3>1, <3>2 DEF W
    <3>4. QED BY <2>2, <3>1, <3>3
  <2>3. QED BY <2>1, <2>2
<1>3. W(W(x) - 1) = W(x - 1)
  <2> DEFINE q == x \div Size
             r == x % Size
  <2>1. q \in Int /\ r \in 0..(Size - 1) /\ x = Size * q + r
    BY <1>1, DivisionLeaves
  <2>2. W(x) = r
    BY DEF W
  <2> HIDE DEF q, r
  <2>3. CASE r > 0
    <3>1. r - 1 \in 0..(Size - 1) /\ x - 1 = Size * q + (r - 1)
      BY <1>1, <2>1, <2>3
    <3>2. (Size * q + (r - 1)) % Size = r - 1
      BY <1>1, <2>1, <3>1, DivisionOnly
    <3>3. W(x - 1) = r - 1
      BY <3>1, <3>2 DEF W
    <3>4. r - 1 \in Words /\ r - 1 \in Int
      BY <1>1, <3>1 DEF Words
    <3>5. QED BY <2>2, <3>3, <3>4, Wrapped
  <2>4. CASE r = 0
    <3>1. Size - 1 \in 0..(Size - 1) /\ -1 = Size * (-1) + (Size - 1)
      BY <1>1
    <3>2. x - 1 = Size * (q - 1) + (Size - 1)
      <4>1. Size * (q - 1) = Size * q - Size
        BY <1>1, <2>1
      <4>2. Size * q \in Int
        BY <1>1, <2>1
      <4>3. QED BY <1>1, <2>1, <2>4, <4>1, <4>2
    <3>3. (Size * (q - 1) + (Size - 1)) % Size = Size - 1 /\ (Size * (-1) + (Size - 1)) % Size = Size - 1
      <4>1. q - 1 \in Int /\ -1 \in Int
        BY <2>1
      <4>2. QED BY <1>1, <3>1, <4>1, DivisionOnly
    <3>4. W(x - 1) = Size - 1 /\ W(-1) = Size - 1
      BY <3>1, <3>2, <3>3 DEF W
    <3>5. W(x) - 1 = -1
      BY <2>2, <2>4
    <3>6. QED BY <3>4, <3>5
  <2>5. QED BY <1>1, <2>1, <2>3, <2>4
<1>4. QED BY <1>2, <1>3

(* Where the digits begin that count, and in which base they are.          *)
Start    == IF Hex \/ Bin THEN 3 ELSE IF Neg THEN 2 ELSE 1
BaseRead == IF Hex THEN 16 ELSE IF Bin THEN 2 ELSE 10

(* A token that is not in quotes is in one of the notations exactly if     *)
(* there are digits of its base after what stands in front of them.        *)
LEMMA NotationsOfNumbers ==
  ASSUME Types, token # <<>>, ~Quoted
  PROVE  /\ ~IsLiteral(token)
         /\ Written(token, Start, BaseRead) <=>
              IsDecimal(token) \/ IsNegative(token) \/ IsPrefixed(token, LowerX, 16)
                \/ IsPrefixed(token, LowerB, 2)
         /\ IsDecimal(token) => Start = 1 /\ BaseRead = 10 /\ ~Neg
         /\ IsNegative(token) => Start = 2 /\ BaseRead = 10 /\ Neg
         /\ IsPrefixed(token, LowerX, 16) => Start = 3 /\ BaseRead = 16 /\ ~Neg
         /\ IsPrefixed(token, LowerB, 2) => Start = 3 /\ BaseRead = 2 /\ ~Neg
<1> DEFINE n == Len(token)
<1>1. n \in Nat \ {0} /\ \A i \in 1..n : token[i] \in Byte
  BY DEF Types
<1>2. Char(1) = token[1] /\ (n > 1 => Char(2) = token[2])
  BY <1>1, CharAt
<1>3. Zero # Minus /\ LowerB # LowerX /\ Quote # Zero /\ Quote # Minus
  BY DEF Zero, Minus, LowerB, LowerX, Quote
<1>4. Minus \notin Digits(10) /\ Zero \in Digits(10)
  BY DEF Minus, Zero, Digits, Digit
<1>5. ~IsLiteral(token)
  BY <1>1, <1>2 DEF IsLiteral, IsCharacter, IsEscape, Quoted
<1>6. IsDecimal(token) => token[1] \in Digits(10) /\ (n > 1 => token[2] # LowerX /\ token[2] # LowerB)
  <2>1. SUFFICES ASSUME IsDecimal(token)
                 PROVE  token[1] \in Digits(10) /\ (n > 1 => token[2] # LowerX /\ token[2] # LowerB)
    OBVIOUS
  <2>2. \A i \in 1..n : token[i] \in Digits(10)
    BY <2>1 DEF IsDecimal, Written
  <2>3. n > 1 => token[2] \in Byte /\ token[2] \in Digits(10)
    BY <1>1, <2>2
  <2>4. QED BY <1>1, <2>2, <2>3, DecimalDigits
<1>7. IsNegative(token) => n > 1 /\ token[1] = Minus
  BY <1>1 DEF IsNegative, Written
<1>8. \A c, b : IsPrefixed(token, c, b) => n > 1 /\ token[1] = Zero /\ token[2] = c
  BY <1>1 DEF IsPrefixed
<1>9. CASE Hex
  <2>1. n > 1 /\ token[1] = Zero /\ token[2] = LowerX
    BY <1>2, <1>9 DEF Hex
  <2>2. Start = 3 /\ BaseRead = 16 /\ ~Neg
    BY <1>2, <1>3, <1>9, <2>1 DEF Start, BaseRead, Neg
  <2>3. IsPrefixed(token, LowerX, 16) <=> Written(token, 3, 16)
    BY <1>1, <2>1 DEF IsPrefixed, Written
  <2>4. ~IsDecimal(token) /\ ~IsNegative(token) /\ ~IsPrefixed(token, LowerB, 2)
    BY <1>3, <1>6, <1>7, <1>8, <2>1
  <2>5. QED BY <1>5, <2>2, <2>3, <2>4
<1>10. CASE Bin /\ ~Hex
  <2>1. n > 1 /\ token[1] = Zero /\ token[2] = LowerB
    BY <1>2, <1>10 DEF Bin
  <2>2. Start = 3 /\ BaseRead = 2 /\ ~Neg
    BY <1>2, <1>3, <1>10, <2>1 DEF Start, BaseRead, Neg
  <2>3. IsPrefixed(token, LowerB, 2) <=> Written(token, 3, 2)
    BY <1>1, <2>1 DEF IsPrefixed, Written
  <2>4. ~IsDecimal(token) /\ ~IsNegative(token) /\ ~IsPrefixed(token, LowerX, 16)
    BY <1>3, <1>6, <1>7, <1>8, <2>1
  <2>5. QED BY <1>5, <2>2, <2>3, <2>4
<1>11. CASE Neg
  <2>1. n > 1 /\ token[1] = Minus /\ ~Hex /\ ~Bin
    BY <1>2, <1>3, <1>11 DEF Neg, Hex, Bin
  <2>2. Start = 2 /\ BaseRead = 10
    BY <1>11, <2>1 DEF Start, BaseRead
  <2>3. IsNegative(token) <=> Written(token, 2, 10)
    BY <2>1 DEF IsNegative
  <2>4. ~IsDecimal(token) /\ ~IsPrefixed(token, LowerX, 16) /\ ~IsPrefixed(token, LowerB, 2)
    BY <1>3, <1>4, <1>6, <1>8, <2>1
  <2>5. QED BY <1>5, <1>11, <2>2, <2>3, <2>4
<1>12. CASE ~Hex /\ ~Bin /\ ~Neg
  <2>1. Start = 1 /\ BaseRead = 10
    BY <1>12 DEF Start, BaseRead
  <2>2. ~IsNegative(token)
    BY <1>2, <1>7, <1>12 DEF Neg
  <2>3. ~IsPrefixed(token, LowerX, 16) /\ ~IsPrefixed(token, LowerB, 2)
    BY <1>2, <1>8, <1>12 DEF Hex, Bin
  <2>4. IsDecimal(token) <=> Written(token, 1, 10)
    BY DEF IsDecimal
  <2>5. QED BY <1>5, <1>12, <2>1, <2>2, <2>3, <2>4
<1>13. QED BY <1>9, <1>10, <1>11, <1>12

(* A token in quotes is in no notation of numbers.                         *)
LEMMA NotationOfLiterals ==
  ASSUME Types, Quoted
  PROVE  /\ ~IsDecimal(token) /\ ~IsNegative(token)
         /\ ~IsPrefixed(token, LowerX, 16) /\ ~IsPrefixed(token, LowerB, 2)
<1>1. Len(token) \in Nat /\ Len(token) > 1 /\ token[1] = Quote
  <2>1. Len(token) \in Nat /\ Len(token) > 1 /\ Char(1) = Quote
    BY DEF Quoted, Types
  <2>2. QED BY <2>1, CharAt
<1>2. Zero # Quote /\ Minus # Quote /\ Quote \notin Digits(10)
  BY DEF Zero, Minus, Quote, Digits
<1>3. ~IsDecimal(token)
  BY <1>1, <1>2 DEF IsDecimal, Written
<1>4. QED BY <1>1, <1>2, <1>3 DEF IsNegative, IsPrefixed
----------------------------------------------------------------------------
(* NUMBER, when it reads what was typed: the characters read are digits,   *)
(* and the number is theirs; the reader leaves the token only when nothing *)
(* follows its prefix.                                                     *)
Typing ==
  out = <<>> =>
    /\ at \in {"number", "convert", "literal"} => Len(token) + Len(beyond) < Size
    /\ at = "convert" =>
         /\ token # <<>> /\ ~Quoted /\ base = BaseRead /\ (sign <=> Neg)
         /\ dp \in Nat /\ dp > Skipped /\ dp - 1 <= Len(token) + Len(beyond)
         /\ Skipped = Len(token) \/ dp <= Len(token)
         /\ len = W(Len(token) + 1 - dp)
         /\ \A i \in Start..(dp - 1) : Char(i) \in Digits(base)
         /\ dp - 1 <= Len(token) => num = Upto(token, Start, base)[dp - 1]
    /\ at = "literal" => Quoted /\ dp = 2 /\ len = Len(token) - 1

TypeInv == PrintInv /\ Typing /\ NumbersAsWritten

(* The first digit, and how far it is from the first character read.       *)
LEMMA StartFacts ==
  ASSUME Types
  PROVE  /\ Start \in 1..3 /\ Skipped \in 0..2 /\ Skipped <= Len(token) /\ BaseRead \in {2, 10, 16}
         /\ Start <= Skipped + 1
         /\ ~Quoted => (Start = Skipped + 1 \/ (Start = 1 /\ Skipped = 1 /\ BaseRead = 10 /\ Char(1) = Zero))
         /\ ~Quoted /\ Skipped = Len(token) /\ token # <<>> => Start > Len(token)
<1> DEFINE n == Len(token)
<1>1. n \in Nat /\ (token # <<>> => n > 0)
  BY DEF Types
<1>2. CASE Hex \/ Bin
  <2>1. n > 1 /\ Start = 3 /\ Skipped = 2 /\ BaseRead \in {2, 10, 16}
    BY <1>2 DEF Start, Skipped, BaseRead, Hex, Bin
  <2> HIDE DEF n
  <2>2. Skipped <= n /\ (Skipped = n => Start > n) /\ Start = Skipped + 1
    BY <1>1, <2>1
  <2>3. QED BY <2>1, <2>2 DEF n
<1>3. CASE ~Hex /\ ~Bin /\ Neg
  <2>1. n > 1 /\ Start = 2 /\ Skipped = 1 /\ BaseRead = 10
    BY <1>3 DEF Start, Skipped, BaseRead, Neg
  <2> HIDE DEF n
  <2>2. Skipped <= n /\ Skipped # n /\ Start = Skipped + 1
    BY <1>1, <2>1
  <2>3. QED BY <2>1, <2>2 DEF n
<1>4. CASE ~Hex /\ ~Bin /\ ~Neg /\ (Quoted \/ Zeroed)
  <2>1. n > 1 /\ Start = 1 /\ Skipped = 1 /\ BaseRead = 10 /\ (~Quoted => Char(1) = Zero)
    BY <1>4 DEF Start, Skipped, BaseRead, Quoted, Zeroed
  <2> HIDE DEF n
  <2>2. Skipped <= n /\ Skipped # n /\ Start <= Skipped + 1
    BY <1>1, <2>1
  <2>3. QED BY <2>1, <2>2 DEF n
<1>5. CASE ~Hex /\ ~Bin /\ ~Neg /\ ~Quoted /\ ~Zeroed
  <2>1. Start = 1 /\ Skipped = 0 /\ BaseRead = 10
    BY <1>5 DEF Start, Skipped, BaseRead
  <2> HIDE DEF n
  <2>2. Skipped <= n /\ (token # <<>> => Skipped # n) /\ Start = Skipped + 1
    BY <1>1, <2>1
  <2>3. QED BY <2>1, <2>2 DEF n
<1>6. QED BY <1>2, <1>3, <1>4, <1>5

(* What stands in front of the digits is the same as long as the token is. *)
LEMMA FrontKept ==
  ASSUME UNCHANGED <<token, beyond>>
  PROVE  /\ UNCHANGED <<Skipped, Start, BaseRead>> /\ (Quoted' <=> Quoted) /\ (Neg' <=> Neg)
         /\ \A k : Char(k)' = Char(k)
BY DEF Skipped, Start, BaseRead, Quoted, Neg, Hex, Bin, Zeroed, Char

(* NUMBER is given a token; while DOT prints there is none.                *)
LEMMA TypingInit == Init => TypeInv
<1> SUFFICES ASSUME Init PROVE TypeInv
  OBVIOUS
<1>1. at \in {"dot", "number"}
  BY DEF Init
<1>2. at = "number" => Len(token) + Len(beyond) < Size
  BY NumberAssumption DEF NumberAssumption, Init
<1>3. Typing
  BY <1>1, <1>2 DEF Typing
<1>4. QED BY <1>1, <1>3, PrintInit DEF TypeInv, NumbersAsWritten, Answered

(* While DOT prints, NUMBER reads nothing.                                 *)
LEMMA TypingPrinted ==
  TypeInv /\ (Dot \/ Divide \/ PrintDigit \/ HexDigit \/ Bit \/ TypeBack) => Typing' /\ NumbersAsWritten'
<1> SUFFICES ASSUME TypeInv, Dot \/ Divide \/ PrintDigit \/ HexDigit \/ Bit \/ TypeBack
             PROVE  Typing' /\ NumbersAsWritten'
  OBVIOUS
<1>1. CASE ~TypeBack
  <2>1. at' \in {"bits", "hex", "divide", "print", "printed", "astray"}
    BY <1>1 DEF Dot, Divide, PrintDigit, HexDigit, Bit
  <2>2. QED BY <2>1 DEF Typing, NumbersAsWritten, Answered
<1>2. CASE TypeBack
  <2>1. at' = "number" /\ out' = out
    BY <1>2 DEF TypeBack, dotvars
  <2>2. PICK s \in Seq(Byte) : out = Before \o s /\ Spelled(s)
    BY <1>2 DEF TypeInv, PrintInv, Printing, TypeBack
  <2>3. Before \in Seq(Byte) /\ s # <<>>
    BY <2>2, AskedFacts DEF Spelled, TypeInv, PrintInv
  <2>4. out # <<>>
    <3>1. Len(s) > 0 /\ Len(Before \o s) = Len(Before) + Len(s) /\ Len(Before) \in Nat
      BY <2>3
    <3>2. Len(<<>>) = 0
      OBVIOUS
    <3>3. QED BY <2>2, <3>1, <3>2
  <2>5. QED BY <2>1, <2>4 DEF Typing, NumbersAsWritten, Answered
<1>3. QED BY <1>1, <1>2

(* NUMBER gets ready to read digits, or a literal.                         *)
LEMMA TypingNumber == TypeInv /\ Number => Typing' /\ NumbersAsWritten'
<1> SUFFICES ASSUME TypeInv, Number PROVE Typing' /\ NumbersAsWritten'
  OBVIOUS
<1>1. /\ Types /\ at = "number" /\ UNCHANGED <<token, beyond, out>>
      /\ Len(token) \in Nat /\ Len(beyond) \in Nat
  BY NumberDoes DEF TypeInv, PrintInv, Types
<1>2. SUFFICES ASSUME out = <<>> PROVE Typing' /\ NumbersAsWritten'
  BY <1>1 DEF Typing, NumbersAsWritten
<1>3. Len(token) + Len(beyond) < Size
  BY <1>1, <1>2 DEF TypeInv, Typing
<1>4. CASE Len(token) = 0
  <2>1. at' = "failed" /\ token' = <<>>
    BY <1>1, <1>4, NumberDoes DEF Types
  <2>2. ~IsDecimal(<<>>) /\ ~IsNegative(<<>>) /\ ~IsLiteral(<<>>)
        /\ \A c, b : ~IsPrefixed(<<>>, c, b)
    BY DEF IsDecimal, IsNegative, IsLiteral, IsCharacter, IsEscape, IsPrefixed, Written
  <2>3. QED BY <2>1, <2>2 DEF Typing, NumbersAsWritten
<1>5. CASE Len(token) # 0 /\ Quoted
  <2>1. at' = "literal" /\ Skipped = 1 /\ dp' = 2 /\ len' = Len(token) - 1 /\ Quoted'
    <3>1. Char(1) = Quote /\ Quote # Zero
      BY <1>5 DEF Quoted, Quote, Zero
    <3>2. ~Hex /\ ~Bin
      BY <3>1 DEF Hex, Bin
    <3>3. Skipped = 1
      BY <1>5, <3>2 DEF Skipped
    <3>4. QED BY <1>1, <1>5, <3>3, NumberDoes, FrontKept
  <2>2. QED BY <1>1, <1>3, <2>1 DEF Typing, NumbersAsWritten, Answered
<1>6. CASE Len(token) # 0 /\ ~Quoted
  <2>1. /\ at' = "convert" /\ num' = 0 /\ (sign' <=> Neg) /\ base' = BaseRead
        /\ dp' = Skipped + 1 /\ len' = Len(token) - Skipped /\ token # <<>>
    <3>1. token # <<>>
      BY <1>6
    <3>2. QED BY <1>6, <3>1, NumberDoes DEF BaseRead
  <2>2. /\ Start \in 1..3 /\ Skipped \in 0..2 /\ Skipped <= Len(token) /\ BaseRead \in {2, 10, 16}
        /\ (Start = Skipped + 1 \/ (Start = 1 /\ Skipped = 1 /\ BaseRead = 10 /\ Char(1) = Zero))
    BY <1>1, <1>6, StartFacts
  <2>3. len' = W(Len(token) + 1 - dp')
    <3>1. Len(token) - Skipped \in Words /\ Len(token) - Skipped \in Int
          /\ Len(token) + 1 - dp' = Len(token) - Skipped
      BY <1>1, <1>3, <2>1, <2>2, SizeNat DEF Words
    <3>2. QED BY <2>1, <3>1, Wrapped
  <2>4. Zero \in Digits(10) /\ Digit(Zero) = 0
    BY DEF Zero, Digits, Digit
  <2>5. \A i \in Start..(dp' - 1) : Char(i) \in Digits(base')
    <3>1. CASE Start = Skipped + 1
      BY <2>1, <2>2, <3>1
    <3>2. CASE Start = 1 /\ Skipped = 1 /\ BaseRead = 10 /\ Char(1) = Zero
      <4>1. Start..(dp' - 1) = {1}
        BY <2>1, <3>2
      <4>2. QED BY <2>1, <2>4, <3>2, <4>1
    <3>3. QED BY <2>2, <3>1, <3>2
  <2>6. Upto(token, Start, BaseRead)[dp' - 1] = 0
    <3> DEFINE f == Upto(token, Start, BaseRead)
    <3>1. token \in Seq(Byte) /\ Start \in Nat \ {0} /\ Len(token) >= Start - 1
      BY <1>1, <2>2 DEF Types
    <3>2. f[Start - 1] = 0 /\ \A i \in Start..Len(token) : f[i] = W(f[i - 1] * BaseRead + Digit(token[i]))
      BY <3>1, UptoStep
    <3> HIDE DEF f
    <3>3. ASSUME Start = Skipped + 1 PROVE f[dp' - 1] = 0
      BY <2>1, <2>2, <3>2, <3>3
    <3>4. ASSUME Start = 1, Skipped = 1, BaseRead = 10, Char(1) = Zero PROVE f[dp' - 1] = 0
      <4>1. 1 \in Start..Len(token) /\ token[1] = Zero
        BY <1>1, <2>2, <3>4, CharAt
      <4>2. f[0] = 0 /\ f[1] = W(f[0] * 10 + 0)
        BY <2>4, <3>2, <3>4, <4>1
      <4>3. 0 * 10 + 0 = 0 /\ 0 \in Words
        BY SizeNat DEF Words
      <4>4. f[1] = 0
        BY <4>2, <4>3, Wrapped
      <4>5. QED BY <2>1, <3>4, <4>4
    <3>5. QED BY <2>2, <3>3, <3>4 DEF f
  <2>7. /\ dp' \in Nat /\ dp' > Skipped /\ dp' - 1 <= Len(token) + Len(beyond)
        /\ (Skipped = Len(token) \/ dp' <= Len(token))
    <3> DEFINE n == Len(token)
               m == Len(beyond)
    <3>1. n \in Nat /\ m \in Nat /\ Skipped \in Nat /\ Skipped <= n /\ dp' = Skipped + 1
      BY <1>1, <2>1, <2>2
    <3> HIDE DEF n, m
    <3>2. dp' \in Nat /\ dp' > Skipped /\ dp' - 1 <= n + m
      BY <3>1
    <3>3. Skipped # n => dp' <= n
      BY <3>1
    <3>4. QED BY <3>2, <3>3 DEF n, m
  <2>8. Typing'
    <3>1. UNCHANGED <<Skipped, Start, BaseRead>> /\ ~Quoted' /\ (sign' <=> Neg') /\ \A k : Char(k)' = Char(k)
      BY <1>1, <1>6, <2>1, FrontKept
    <3>2. num' = Upto(token, Start, base')[dp' - 1]
      BY <2>1, <2>6
    <3>3. \A i \in Start'..(dp' - 1) : Char(i)' \in Digits(base')
      BY <2>5, <3>1
    <3>4. num' = Upto(token', Start', base')[dp' - 1] /\ base' = BaseRead' /\ token' # <<>>
      BY <1>1, <2>1, <3>1, <3>2
    <3>5. /\ dp' > Skipped' /\ dp' - 1 <= Len(token') + Len(beyond')
          /\ (Skipped' = Len(token') \/ dp' <= Len(token')) /\ len' = W(Len(token') + 1 - dp')
          /\ Len(token') + Len(beyond') < Size
      BY <1>1, <1>3, <2>3, <2>7, <3>1
    <3>6. QED BY <2>1, <2>7, <3>1, <3>3, <3>4, <3>5 DEF Typing
  <2>9. NumbersAsWritten'
    BY <2>1 DEF NumbersAsWritten, Answered
  <2>10. QED BY <2>8, <2>9
<1>7. QED BY <1>4, <1>5, <1>6

(* A digit is read, or the token is not a number, or it is read to its end *)
(* and the number is the one written.                                      *)
LEMMA TypingConvert == TypeInv /\ Convert => Typing' /\ NumbersAsWritten'
<1> SUFFICES ASSUME TypeInv, Convert PROVE Typing' /\ NumbersAsWritten'
  OBVIOUS
<1> DEFINE n == Len(token)
           m == Len(beyond)
           c == Char(dp)
           d == C_TO_I(c)
           f == Upto(token, Start, base)
<1>1. /\ Types /\ at = "convert" /\ UNCHANGED <<token, beyond, out, base, sign>>
      /\ token \in Seq(Byte) /\ beyond \in Seq(Byte)
  BY DEF TypeInv, PrintInv, Types, Convert, dotvars
<1>2. SUFFICES ASSUME out = <<>> PROVE Typing' /\ NumbersAsWritten'
  BY <1>1 DEF Typing, NumbersAsWritten
<1>3. /\ n + m < Size
      /\ token # <<>> /\ ~Quoted /\ base = BaseRead /\ (sign <=> Neg)
      /\ dp \in Nat /\ dp > Skipped /\ dp - 1 <= n + m
      /\ (Skipped = n \/ dp <= n) /\ len = W(n + 1 - dp)
      /\ \A i \in Start..(dp - 1) : Char(i) \in Digits(base)
      /\ (dp - 1 <= n => num = f[dp - 1])
  BY <1>1, <1>2 DEF TypeInv, Typing
<1>4. /\ Start \in 1..3 /\ Skipped \in 0..2 /\ Skipped <= n /\ base \in {2, 10, 16}
      /\ Start <= Skipped + 1 /\ (Skipped = n => Start > n)
  BY <1>1, <1>3, StartFacts
<1>5. n \in Nat /\ m \in Nat /\ dp \in Nat \ {0} /\ dp >= Start /\ Start - 1 <= n
  <2>1. n \in Nat /\ m \in Nat
    BY <1>1
  <2> HIDE DEF n, m
  <2>2. QED BY <1>3, <1>4, <2>1
<1>6. /\ c \in Byte /\ (dp <= n => c = token[dp]) /\ (dp > n + m => c = 0)
      /\ \A i \in 1..n : Char(i) = token[i]
  BY <1>1, <1>5, CharAt
<1>7. /\ UNCHANGED <<Skipped, Start, BaseRead>> /\ ~Quoted' /\ (sign' <=> Neg') /\ (Neg' <=> Neg)
      /\ \A k : Char(k)' = Char(k)
  BY <1>1, <1>3, FrontKept
<1>8. /\ f[Start - 1] = 0 /\ Denotes(token, Start, base) = f[n]
      /\ \A i \in Start..n : f[i] = W(f[i - 1] * base + Digit(token[i]))
  <2>1. Start \in Nat \ {0} /\ Len(token) >= Start - 1
    BY <1>4, <1>5
  <2>2. QED BY <1>1, <2>1, UptoStep
<1>9. /\ ~IsLiteral(token)
      /\ Written(token, Start, base) <=>
           IsDecimal(token) \/ IsNegative(token) \/ IsPrefixed(token, LowerX, 16)
             \/ IsPrefixed(token, LowerB, 2)
      /\ IsDecimal(token) => Start = 1 /\ base = 10 /\ ~sign
      /\ IsNegative(token) => Start = 2 /\ base = 10 /\ sign
      /\ IsPrefixed(token, LowerX, 16) => Start = 3 /\ base = 16 /\ ~sign
      /\ IsPrefixed(token, LowerB, 2) => Start = 3 /\ base = 2 /\ ~sign
  BY <1>1, <1>3, NotationsOfNumbers
<1>10. /\ d \in Int /\ (d # -1 /\ d < base <=> c \in Digits(base))
       /\ c \in Digits(base) => d = Digit(c)
  BY <1>4, <1>6, DigitRead
<1>11. d = -1 \/ d >= base <=> c \notin Digits(base)
  BY <1>4, <1>10
<1>12. CASE c \notin Digits(base)
  <2>1. at' = "failed"
    BY <1>11, <1>12 DEF Convert
  <2>2. ~Written(token, Start, base)
    <3>1. CASE dp <= n
      <4>1. dp \in Start..n /\ token[dp] \notin Digits(base)
        BY <1>4, <1>5, <1>6, <1>12, <3>1
      <4>2. QED BY <4>1 DEF Written
    <3>2. CASE ~(dp <= n)
      <4>1. Start > n
        BY <1>3, <1>4, <3>2
      <4>2. ~(n >= Start)
        BY <1>4, <1>5, <4>1
      <4>3. QED BY <4>2 DEF Written
    <3>3. QED BY <3>1, <3>2
  <2>3. Typing'
    BY <2>1 DEF Typing
  <2>4. NumbersAsWritten'
    BY <1>1, <1>9, <2>1, <2>2 DEF NumbersAsWritten
  <2>5. QED BY <2>3, <2>4
<1>13. CASE c \in Digits(base)
  <2> DEFINE k == W(num * base + d)
  <2>1. /\ dp' = dp + 1 /\ len' = W(len - 1) /\ at' = IF len' = 0 THEN "done" ELSE "convert"
        /\ num' = IF len' = 0 /\ sign THEN W(-k) ELSE k
    BY <1>11, <1>13 DEF Convert
  <2>2. dp <= n + m
    <3>1. 0 \notin Digits(base)
      BY DEF Digits
    <3>2. ~(dp > n + m)
      BY <1>6, <1>13, <3>1
    <3> HIDE DEF n, m
    <3>3. QED BY <1>5, <3>2
  <2>3. len' = W(n - dp) /\ (len' = 0 <=> dp = n)
    <3> HIDE DEF n, m
    <3>1. n + 1 - dp \in Int /\ n - dp \in Int /\ (n + 1 - dp) - 1 = n - dp
      BY <1>5
    <3>2. n - dp < Size /\ -(n - dp) < Size
      BY <1>3, <1>5, <2>2, SizeNat
    <3>3. len' = W(n - dp)
      BY <1>3, <2>1, <3>1, Counted
    <3>4. len' = 0 <=> n - dp = 0
      BY <3>1, <3>2, <3>3, Counted
    <3>5. QED BY <1>5, <3>3, <3>4
  <2>4. dp <= n => k = f[dp]
    <3>1. SUFFICES ASSUME dp <= n PROVE k = f[dp]
      OBVIOUS
    <3>2. dp \in Start..n /\ dp - 1 <= n
      BY <1>4, <1>5, <3>1
    <3>3. num = f[dp - 1] /\ d = Digit(token[dp])
      BY <1>3, <1>6, <1>10, <1>13, <3>1, <3>2
    <3>4. QED BY <1>8, <3>2, <3>3
  <2>5. \A i \in Start..dp : Char(i) \in Digits(base)
    <3>1. ASSUME NEW i \in Start..dp PROVE i = dp \/ i \in Start..(dp - 1)
      BY <1>4, <1>5
    <3>2. QED BY <1>3, <1>13, <3>1
  <2> HIDE DEF k, c, d, f
  <2>6. CASE dp = n
    <3>1. at' = "done" /\ num' = IF sign THEN W(-k) ELSE k
      BY <2>1, <2>3, <2>6
    <3>2. k = Denotes(token, Start, base)
      BY <1>5, <1>8, <2>4, <2>6
    <3>3. Written(token, Start, base)
      <4>1. n >= Start
        BY <1>5, <2>6
      <4>2. \A i \in Start..n : i \in 1..n /\ i \in Start..dp
        BY <1>4, <1>5, <2>6
      <4>3. QED BY <1>6, <2>5, <4>1, <4>2 DEF Written
    <3>4. Typing'
      BY <3>1 DEF Typing
    <3>5. NumbersAsWritten'
      <4>1. IsDecimal(token) => num' = Denotes(token, 1, 10)
        BY <1>9, <3>1, <3>2
      <4>2. IsNegative(token) => num' = W(-Denotes(token, 2, 10))
        BY <1>9, <3>1, <3>2
      <4>3. IsPrefixed(token, LowerX, 16) => num' = Denotes(token, 3, 16)
        BY <1>9, <3>1, <3>2
      <4>4. IsPrefixed(token, LowerB, 2) => num' = Denotes(token, 3, 2)
        BY <1>9, <3>1, <3>2
      <4>5. QED BY <1>1, <1>9, <3>1, <3>3, <4>1, <4>2, <4>3, <4>4 DEF NumbersAsWritten
    <3>6. QED BY <3>4, <3>5
  <2>7. CASE dp # n
    <3>1. at' = "convert" /\ num' = k
      BY <2>1, <2>3, <2>7
    <3>2. /\ dp' \in Nat /\ dp' > Skipped /\ dp' - 1 = dp /\ dp' - 1 <= n + m
          /\ (dp <= n => dp' <= n) /\ n - dp = n + 1 - dp'
      <4> HIDE DEF n, m
      <4>1. QED BY <1>3, <1>4, <1>5, <2>1, <2>2, <2>7
    <3>3. dp' - 1 <= n => num' = f[dp' - 1]
      BY <2>4, <3>1, <3>2
    <3>4. \A i \in Start'..(dp' - 1) : Char(i)' \in Digits(base')
      BY <1>1, <1>7, <2>5, <3>2
    <3>5. /\ dp' > Skipped' /\ dp' - 1 <= Len(token') + Len(beyond')
          /\ (Skipped' = Len(token') \/ dp' <= Len(token')) /\ len' = W(Len(token') + 1 - dp')
          /\ Len(token') + Len(beyond') < Size
      BY <1>1, <1>3, <1>7, <2>3, <3>2
    <3>6. dp' - 1 <= Len(token') => num' = Upto(token', Start', base')[dp' - 1]
      BY <1>1, <1>7, <3>3 DEF f
    <3>7. base' = BaseRead' /\ token' # <<>>
      BY <1>1, <1>3, <1>7
    <3>8. Typing'
      BY <1>7, <3>1, <3>2, <3>4, <3>5, <3>6, <3>7 DEF Typing
    <3>9. NumbersAsWritten'
      BY <3>1 DEF NumbersAsWritten, Answered
    <3>10. QED BY <3>8, <3>9
  <2>8. QED BY <2>6, <2>7
<1>14. QED BY <1>12, <1>13

(* What stands in quotes is read as LiteralRead says, and no other token   *)
(* is taken for it.                                                        *)
LEMMA TypingLiteral == TypeInv /\ Literal => Typing' /\ NumbersAsWritten'
<1> SUFFICES ASSUME TypeInv, Literal PROVE Typing' /\ NumbersAsWritten'
  OBVIOUS
<1> DEFINE n == Len(token)
<1>1. /\ Types /\ at = "literal" /\ UNCHANGED <<token, beyond, out>>
      /\ token \in Seq(Byte) /\ beyond \in Seq(Byte)
  BY DEF TypeInv, PrintInv, Types, Literal, dotvars
<1>2. SUFFICES ASSUME out = <<>> PROVE Typing' /\ NumbersAsWritten'
  BY <1>1 DEF Typing, NumbersAsWritten
<1>3. n + Len(beyond) < Size /\ Quoted /\ dp = 2 /\ len = n - 1
  BY <1>1, <1>2 DEF TypeInv, Typing
<1>4. n \in Nat /\ n > 1 /\ n < Size /\ token[1] = Quote
  <2>1. n \in Nat /\ Len(beyond) \in Nat
    BY <1>1
  <2>2. n > 1 /\ Char(1) = Quote
    BY <1>3 DEF Quoted
  <2>3. Char(1) = token[1]
    BY <1>1, <2>1, <2>2, CharAt
  <2> HIDE DEF n
  <2>4. n < Size
    BY <1>3, <2>1, SizeNat
  <2>5. QED BY <2>1, <2>2, <2>3, <2>4
<1>5. /\ Char(2) \in Byte /\ Char(3) \in Byte /\ Char(2) = token[2]
      /\ (n >= 3 => Char(3) = token[3]) /\ (n >= 4 => Char(4) = token[4])
  BY <1>1, <1>4, CharAt
<1>6. /\ ~IsDecimal(token) /\ ~IsNegative(token)
      /\ ~IsPrefixed(token, LowerX, 16) /\ ~IsPrefixed(token, LowerB, 2)
  BY <1>1, <1>3, NotationOfLiterals
<1>7. (W(n - 3) = 0 <=> n = 3) /\ (W(n - 4) = 0 <=> n = 4)
  <2> HIDE DEF n
  <2>1. Size \in Nat /\ Size > 1000
    BY SizeNat, SizeFacts
  <2>2. n - 3 \in Int /\ n - 3 < Size /\ -(n - 3) < Size /\ n - 4 \in Int /\ n - 4 < Size /\ -(n - 4) < Size
    BY <1>4, <2>1
  <2>3. (W(n - 3) = 0 <=> n - 3 = 0) /\ (W(n - 4) = 0 <=> n - 4 = 0)
    BY <2>2, Counted
  <2>4. QED BY <1>4, <2>3
<1>8. /\ at' \in {"done", "failed"} /\ (at' = "done" <=> IsLiteral(token))
      /\ LiteralRead'
  <2>1. CASE Char(2) = Backslash
    <3>1. /\ num' = Backslash
          /\ at' = IF n - 1 - 1 = 0 \/ ~(Char(3 + 1) = Quote /\ W(n - 1 - 1 - 2) = 0) THEN "failed" ELSE "done"
      BY <1>3, <2>1 DEF Literal
    <3> HIDE DEF n
    <3>2. n - 1 - 1 - 2 = n - 4 /\ 3 + 1 = 4 /\ (n = 4 => ~(n - 1 - 1 = 0))
      BY <1>4
    <3>3. at' = IF n = 4 /\ Char(4) = Quote THEN "done" ELSE "failed"
      BY <1>7, <3>1, <3>2
    <3>4. ~IsCharacter(token) /\ (IsEscape(token) <=> n = 4 /\ Char(4) = Quote)
      <4>1. n = 4 => Char(4) = token[4]
        BY <1>4, <1>5
      <4>2. token[2] = Backslash /\ token[1] = Quote
        BY <1>4, <1>5, <2>1
      <4>3. ~IsCharacter(token) /\ (IsEscape(token) <=> n = 4 /\ token[4] = Quote)
        BY <4>2 DEF IsCharacter, IsEscape, n
      <4>4. QED BY <4>1, <4>3
    <3>5. \A c \in DOMAIN Meaning : Backslash = Meaning[c] <=> c = Backslash
      BY DEF Meaning, Backslash
    <3>6. LiteralRead'
      BY <1>1, <3>1, <3>4, <3>5 DEF LiteralRead
    <3>7. QED BY <3>3, <3>4, <3>6 DEF IsLiteral
  <2>2. CASE Char(2) # Backslash
    <3>1. /\ num' = Char(2) + 256 * Char(2 + 1)
          /\ at' = IF ~(Char(2 + 1) = Quote /\ W(n - 1 - 2) = 0) THEN "failed" ELSE "done"
      BY <1>3, <2>2 DEF Literal
    <3> HIDE DEF n
    <3>2. n - 1 - 2 = n - 3 /\ 2 + 1 = 3
      BY <1>4
    <3>3. at' = IF n = 3 /\ Char(3) = Quote THEN "done" ELSE "failed"
      BY <1>7, <3>1, <3>2
    <3>4. ~IsEscape(token) /\ (IsCharacter(token) <=> n = 3 /\ Char(3) = Quote)
      BY <1>4, <1>5, <2>2 DEF IsCharacter, IsEscape, n
    <3>5. LiteralRead'
      <4>1. num' = Char(2) + 256 * Char(3) /\ Char(2) = token[2]
        BY <1>5, <3>1, <3>2
      <4>2. IsCharacter(token) => num' = token[2] + 256 * Quote
        BY <3>4, <4>1
      <4>3. QED BY <1>1, <3>4, <4>2 DEF LiteralRead
    <3>6. QED BY <3>3, <3>4, <3>5 DEF IsLiteral
  <2>3. QED BY <2>1, <2>2
<1>9. Typing'
  BY <1>8 DEF Typing
<1>10. NumbersAsWritten'
  BY <1>1, <1>6, <1>8 DEF NumbersAsWritten
<1>11. QED BY <1>9, <1>10

(* The typing invariant is inductive.                                      *)
LEMMA TypingStep == TypeInv /\ [Next]_vars => TypeInv'
<1> SUFFICES ASSUME TypeInv, [Next]_vars PROVE TypeInv'
  OBVIOUS
<1>1. PrintInv'
  BY PrintStep DEF TypeInv
<1>2. CASE Dot \/ Divide \/ PrintDigit \/ HexDigit \/ Bit \/ TypeBack
  BY <1>1, <1>2, TypingPrinted DEF TypeInv
<1>3. CASE Number
  BY <1>1, <1>3, TypingNumber DEF TypeInv
<1>4. CASE Convert
  BY <1>1, <1>4, TypingConvert DEF TypeInv
<1>5. CASE Literal
  BY <1>1, <1>5, TypingLiteral DEF TypeInv
<1>6. CASE UNCHANGED vars
  <2>1. UNCHANGED <<at, out, token, beyond, dp, len, base, sign, num>>
    BY <1>6 DEF vars, dotvars, numvars
  <2>2. /\ UNCHANGED <<Skipped, Start, BaseRead>> /\ (Quoted' <=> Quoted) /\ (Neg' <=> Neg)
        /\ \A k : Char(k)' = Char(k)
    BY <2>1, FrontKept
  <2>3. Typing'
    BY <2>1, <2>2 DEF TypeInv, Typing
  <2>4. NumbersAsWritten'
    BY <2>1 DEF TypeInv, NumbersAsWritten, LiteralRead, Answered
  <2>5. QED BY <1>1, <2>3, <2>4 DEF TypeInv
<1>7. QED BY <1>2, <1>3, <1>4, <1>5, <1>6 DEF Next

(* SYSCALL_NUMBER takes exactly the tokens in one of the documented        *)
(* notations, however long they are and whatever earlier tokens left       *)
(* beyond them, and gives the number written, modulo 2^16; but a character *)
(* comes with the closing quote in its high byte, and every escape is      *)
(* taken for the backslash, against the comment at core.fasm:454.          *)
THEOREM NumbersReadAsWritten == Spec => []NumbersAsWritten
<1>1. TypeInv => NumbersAsWritten
  BY DEF TypeInv
<1>2. QED BY <1>1, TypingInit, TypingStep, PTL DEF Spec
=============================================================================
