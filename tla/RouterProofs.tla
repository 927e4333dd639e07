---------------------------- MODULE RouterProofs ----------------------------
(***************************************************************************)
(* Proofs about the routers, for every network, table and host traffic.     *)
(* First the checksum arithmetic, for words of any width: adding the        *)
(* carries keeps a sum modulo Word - 1 and never makes it 0, so that a      *)
(* header that carries its own checksum verifies, whatever its other words  *)
(* and whatever the alignment it is summed at.  Then the route lookup and   *)
(* the routers: every frame in flight is one a router may send, and the     *)
(* route it took is that of the longest matching prefix.                    *)
(***************************************************************************)
EXTENDS RouterProperties, Integers, FiniteSetTheorems, WellFoundedInduction, TLAPS

-----------------------------------------------------------------------------
(* Arithmetic and the checksum. *)

LEMMA DivMod ==
  ASSUME NEW a \in Nat, NEW b \in Nat, b > 0
  PROVE  /\ a \div b \in Nat /\ a % b \in Nat /\ a % b < b
         /\ a = b * (a \div b) + (a % b)
  BY Z3

LEMMA TimesMonotone ==
  ASSUME NEW a \in Nat, NEW b \in Nat, NEW c \in Nat, b <= c
  PROVE  a * b \in Nat /\ a * c \in Nat /\ a * b <= a * c
<1>1. a * c = a * b + a * (c - b)
  OBVIOUS
<1>2. a * b \in Nat /\ a * (c - b) \in Nat
  OBVIOUS
<1> QED BY <1>1, <1>2

(* Folding a sum takes away a multiple of base - 1.                         *)
LEMMA FoldKeeps ==
  ASSUME NEW a \in Nat, NEW b \in Nat, b > 1
  PROVE  /\ Fold(a, b) \in Nat
         /\ a = Fold(a, b) + (b - 1) * (a \div b)
         /\ a > 0 => Fold(a, b) > 0
<1> DEFINE d == a \div b
           m == a % b
<1>1. d \in Nat /\ m \in Nat /\ m < b /\ a = b * d + m
  BY DivMod
<1>2. Fold(a, b) = m + d
  BY DEF Fold
<1> HIDE DEF d, m
<1>3. b * d = (b - 1) * d + d
  BY <1>1
<1>4. a = (m + d) + (b - 1) * d
  <2>1. b * d \in Nat /\ (b - 1) * d \in Nat
    BY <1>1
  <2> QED BY <1>1, <1>3, <2>1
<1>5. a > 0 => m + d > 0
  <2>1. d = 0 => b * d = 0
    BY <1>1
  <2> QED BY <1>1, <2>1
<1>6. a = (m + d) + (b - 1) * (a \div b)
  BY <1>4 DEF d
<1> QED BY <1>1, <1>2, <1>5, <1>6

(* What the rounds of carries keep: x is positive and a - x a multiple.     *)
Reduces(x, a) ==
  x \in Nat /\ x > 0 /\ \E q \in Nat : a = x + (Word - 1) * q

LEMMA ReducesTrans ==
  ASSUME NEW a \in Nat, NEW x \in Nat, NEW y, Reduces(x, a), Reduces(y, x)
  PROVE  Reduces(y, a)
<1>1. PICK p \in Nat : a = x + (Word - 1) * p
  BY DEF Reduces
<1>2. PICK q \in Nat : x = y + (Word - 1) * q
  BY DEF Reduces
<1>3. (Word - 1) * p + (Word - 1) * q = (Word - 1) * (p + q)
  BY WordOK
<1>4. (Word - 1) * p \in Nat /\ (Word - 1) * q \in Nat /\ y \in Nat /\ p + q \in Nat
  BY WordOK DEF Reduces
<1>5. a = y + (Word - 1) * (p + q)
  BY <1>1, <1>2, <1>3, <1>4
<1> QED BY <1>4, <1>5 DEF Reduces

LEMMA CarryReduces ==
  ASSUME NEW a \in Nat, a > 0
  PROVE  Reduces(Carry(a), a)
<1>1. CASE a >= Word
  <2>1. a \div Word \in Nat
    BY DivMod, WordOK
  <2>2. /\ Fold(a, Word) \in Nat /\ Fold(a, Word) > 0
        /\ a = Fold(a, Word) + (Word - 1) * (a \div Word)
    BY FoldKeeps, WordOK
  <2> QED BY <1>1, <2>1, <2>2 DEF Reduces, Carry
<1>2. CASE ~(a >= Word)
  <2>1. a = a + (Word - 1) * 0
    BY WordOK
  <2> QED BY <1>2, <2>1 DEF Reduces, Carry
<1> QED BY <1>1, <1>2

LEMMA Fold32Reduces ==
  ASSUME NEW a \in Nat, a > 0
  PROVE  Reduces(Fold(a, Word * Word), a)
<1> DEFINE d == a \div (Word * Word)
<1>1. Word * Word \in Nat /\ Word * Word > 1
  BY WordOK
<1>2. d \in Nat
  BY <1>1, DivMod
<1>3. /\ Fold(a, Word * Word) \in Nat /\ Fold(a, Word * Word) > 0
      /\ a = Fold(a, Word * Word) + (Word * Word - 1) * d
  BY <1>1, FoldKeeps
<1> HIDE DEF d
<1>4. (Word * Word - 1) * d = (Word - 1) * ((Word + 1) * d)
  BY <1>2, WordOK
<1>5. (Word + 1) * d \in Nat
  BY <1>2, WordOK
<1> QED BY <1>3, <1>4, <1>5 DEF Reduces

(* What a sum of at most 5 blocks and 5 words can be, and the rounds of     *)
(* carries it needs: the loop of ip_checksum ends with a word.              *)
LEMMA CarriesEnd ==
  ASSUME NEW a \in Nat, a < 6 * (Word * Word)
  PROVE  Folded(a) < Word
<1> DEFINE B == Word * Word
           x0 == Fold(a, B)
           x1 == Carry(x0)
           x2 == Carry(x1)
           x3 == Carry(x2)
<1>1. B \in Nat /\ B > 1 /\ a < 6 * B /\ B = Word * Word
  BY WordOK
<1> HIDE DEF B
<1>2. a \div B <= 5
  <2> DEFINE d == a \div B
             m == a % B
  <2>1. d \in Nat /\ m \in Nat /\ a = B * d + m
    BY <1>1, DivMod
  <2> HIDE DEF d, m
  <2>2. d >= 6 => B * 6 <= B * d /\ B * d \in Nat
    BY <1>1, <2>1, TimesMonotone
  <2>3. B * 6 = 6 * B
    BY <1>1
  <2>4. d <= 5
    BY <1>1, <2>1, <2>2, <2>3
  <2> QED BY <2>4 DEF d
<1>3. x0 \in Nat /\ x0 <= B + 4
  <2>1. a \div B \in Nat /\ a % B \in Nat /\ a % B < B
    BY <1>1, DivMod
  <2> QED BY <1>1, <1>2, <2>1 DEF Fold
<1> HIDE DEF x0
<1>4. x1 \in Nat /\ x1 <= 2 * Word
  <2>1. CASE x0 >= Word
    <3>1. /\ x0 \div Word \in Nat /\ x0 % Word \in Nat /\ x0 % Word < Word
          /\ x0 = Word * (x0 \div Word) + (x0 % Word)
      BY <1>3, DivMod, WordOK
    <3>2. x0 \div Word <= Word
      <4>1. x0 \div Word >= Word + 1 => Word * (Word + 1) <= Word * (x0 \div Word)
        <5>1. Word + 1 \in Nat
          BY WordOK
        <5> QED BY <3>1, <5>1, WordOK, TimesMonotone
      <4>2. Word * (Word + 1) = B + Word
        BY <1>1, WordOK
      <4> QED BY <1>1, <1>3, <3>1, <4>1, <4>2, WordOK
    <3> QED BY <2>1, <3>1, <3>2, WordOK DEF Carry, Fold
  <2>2. CASE ~(x0 >= Word)
    BY <1>3, <2>2, WordOK DEF Carry
  <2> QED BY <2>1, <2>2
<1> HIDE DEF x1
<1>5. x2 \in Nat /\ x2 <= Word
  <2>1. CASE x1 >= Word
    <3>1. /\ x1 \div Word \in Nat /\ x1 % Word \in Nat /\ x1 % Word < Word
          /\ x1 = Word * (x1 \div Word) + (x1 % Word)
      BY <1>4, DivMod, WordOK
    <3>2. x1 \div Word <= 2
      <4>1. x1 \div Word >= 3 => Word * 3 <= Word * (x1 \div Word)
        BY <3>1, WordOK, TimesMonotone
      <4> QED BY <1>4, <3>1, <4>1, WordOK
    <3>3. x1 \div Word = 2 => x1 % Word = 0
      <4>1. x1 \div Word = 2 => Word * (x1 \div Word) = 2 * Word
        BY WordOK
      <4> QED BY <1>4, <3>1, <4>1, WordOK
    <3>4. x2 = (x1 % Word) + (x1 \div Word)
      BY <2>1 DEF Carry, Fold
    <3> HIDE DEF x2
    <3>5. x1 \div Word <= 1 \/ x1 \div Word = 2
      BY <3>1, <3>2
    <3> QED BY <3>1, <3>3, <3>4, <3>5, WordOK
  <2>2. CASE ~(x1 >= Word)
    BY <1>4, <2>2, WordOK DEF Carry
  <2> QED BY <2>1, <2>2
<1> HIDE DEF x2
<1>6. x3 < Word
  <2>1. CASE x2 = Word
    <3>1. Word \div Word = 1 /\ Word % Word = 0
      BY DivMod, WordOK, Z3
    <3> QED BY <2>1, <3>1, WordOK DEF Carry, Fold
  <2>2. CASE x2 # Word
    BY <1>5, <2>2, WordOK DEF Carry
  <2> QED BY <2>1, <2>2
<1> QED BY <1>6 DEF Folded, x0, x1, x2, x3, B

LEMMA FoldedReduces ==
  ASSUME NEW a \in Nat, a > 0, a < 6 * (Word * Word)
  PROVE  /\ Folded(a) \in 1 .. Word - 1
         /\ \E q \in Nat : a = Folded(a) + (Word - 1) * q
<1> DEFINE x0 == Fold(a, Word * Word)
           x1 == Carry(x0)
           x2 == Carry(x1)
           x3 == Carry(x2)
<1>1. Reduces(x0, a)
  BY Fold32Reduces
<1> HIDE DEF x0
<1>2. x0 \in Nat /\ x0 > 0
  BY <1>1 DEF Reduces
<1>3. Reduces(x1, x0)
  BY <1>2, CarryReduces
<1>4. Reduces(x1, a)
  BY <1>1, <1>2, <1>3, ReducesTrans
<1> HIDE DEF x1
<1>5. x1 \in Nat /\ x1 > 0
  BY <1>4 DEF Reduces
<1>6. Reduces(x2, x1)
  BY <1>5, CarryReduces
<1>7. Reduces(x2, a)
  BY <1>4, <1>5, <1>6, ReducesTrans
<1> HIDE DEF x2
<1>8. x2 \in Nat /\ x2 > 0
  BY <1>7 DEF Reduces
<1>9. Reduces(x3, x2)
  BY <1>8, CarryReduces
<1>10. Reduces(x3, a)
  BY <1>7, <1>8, <1>9, ReducesTrans
<1>11. x3 = Folded(a)
  BY DEF Folded, x0, x1, x2, x3
<1>12. Folded(a) < Word
  BY CarriesEnd
<1> QED BY <1>10, <1>11, <1>12, WordOK DEF Reduces

Plain(h) ==
  h[1] + h[2] + h[3] + h[4] + h[5] + h[6] + h[7] + h[8] + h[9] + h[10]

(* The words in the high halves of their blocks.                            *)
HighHalves(h, offset) ==
  IF offset = Fresh THEN h[1] + h[3] + h[5] + h[7] + h[9]
                    ELSE h[2] + h[4] + h[6] + h[8] + h[10]

LEMMA Halves ==
  ASSUME NEW h, \A k \in 1 .. 10 : h[k] \in Nat
  PROVE  /\ (Word - 1) + Word * h[1] + h[2] + Word * h[3] + h[4] + Word * h[5]
              + h[6] + Word * h[7] + h[8] + Word * h[9] + h[10]
              = (h[1] + h[2] + h[3] + h[4] + h[5] + h[6] + h[7] + h[8] + h[9] + h[10])
                  + (Word - 1) * (1 + (h[1] + h[3] + h[5] + h[7] + h[9]))
         /\ (Word - 1) + h[1] + Word * h[2] + h[3] + Word * h[4] + h[5]
              + Word * h[6] + h[7] + Word * h[8] + h[9] + Word * h[10]
              = (h[1] + h[2] + h[3] + h[4] + h[5] + h[6] + h[7] + h[8] + h[9] + h[10])
                  + (Word - 1) * (1 + (h[2] + h[4] + h[6] + h[8] + h[10]))
<1> DEFINE a == h[1]
           b == h[2]
           c == h[3]
           d == h[4]
           e == h[5]
           f == h[6]
           g == h[7]
           i == h[8]
           j == h[9]
           k == h[10]
<1>1. /\ a \in Nat /\ b \in Nat /\ c \in Nat /\ d \in Nat /\ e \in Nat
      /\ f \in Nat /\ g \in Nat /\ i \in Nat /\ j \in Nat /\ k \in Nat
  OBVIOUS
<1> HIDE DEF a, b, c, d, e, f, g, i, j, k
<1>2. (Word - 1) + Word * a + b + Word * c + d + Word * e + f + Word * g + i + Word * j + k
        = (a + b + c + d + e + f + g + i + j + k) + (Word - 1) * (1 + (a + c + e + g + j))
  BY <1>1, WordOK
<1>3. (Word - 1) + a + Word * b + c + Word * d + e + Word * f + g + Word * i + j + Word * k
        = (a + b + c + d + e + f + g + i + j + k) + (Word - 1) * (1 + (b + d + f + i + k))
  BY <1>1, WordOK
<1> QED BY <1>2, <1>3 DEF a, b, c, d, e, f, g, i, j, k

(* At either alignment the sum is that of the words, modulo Word - 1.       *)
LEMMA SumOfWords ==
  ASSUME NEW h \in Header, NEW offset \in {Received, Fresh}
  PROVE  /\ Plain(h) \in Nat /\ HighHalves(h, offset) \in Nat
         /\ Sum(h, offset) = Plain(h) + (Word - 1) * (1 + HighHalves(h, offset))
         /\ Sum(h, offset) \in Nat /\ Sum(h, offset) > 0
         /\ Sum(h, offset) < 6 * (Word * Word)
<1>1. \A k \in 1 .. 10 : h[k] \in Nat /\ h[k] <= Word - 1
  BY WordOK DEF Header, Words
<1>2. /\ h[1] \in Nat /\ h[2] \in Nat /\ h[3] \in Nat /\ h[4] \in Nat /\ h[5] \in Nat
      /\ h[6] \in Nat /\ h[7] \in Nat /\ h[8] \in Nat /\ h[9] \in Nat /\ h[10] \in Nat
  BY <1>1
<1> DEFINE H == HighHalves(h, offset)
<1>3. Plain(h) \in Nat /\ H \in Nat
  BY <1>2 DEF Plain, HighHalves
<1>4. H <= 5 * (Word - 1) /\ Plain(h) <= 10 * (Word - 1)
  <2>1. /\ h[1] <= Word - 1 /\ h[2] <= Word - 1 /\ h[3] <= Word - 1 /\ h[4] <= Word - 1
        /\ h[5] <= Word - 1 /\ h[6] <= Word - 1 /\ h[7] <= Word - 1 /\ h[8] <= Word - 1
        /\ h[9] <= Word - 1 /\ h[10] <= Word - 1
    BY <1>1
  <2> QED BY <1>2, <2>1, WordOK DEF Plain, HighHalves
<1>5. Sum(h, offset) = Plain(h) + (Word - 1) * (1 + H)
  <2>1. CASE offset = Fresh
    <3>1. /\ InHighHalf(1, offset) /\ ~InHighHalf(2, offset) /\ InHighHalf(3, offset)
          /\ ~InHighHalf(4, offset) /\ InHighHalf(5, offset) /\ ~InHighHalf(6, offset)
          /\ InHighHalf(7, offset) /\ ~InHighHalf(8, offset) /\ InHighHalf(9, offset)
          /\ ~InHighHalf(10, offset)
      BY <2>1 DEF InHighHalf, Fresh
    <3>2. Sum(h, offset) = (Word - 1) + Word * h[1] + h[2] + Word * h[3] + h[4]
            + Word * h[5] + h[6] + Word * h[7] + h[8] + Word * h[9] + h[10]
      BY <3>1 DEF Sum, Value
    <3>4. H = h[1] + h[3] + h[5] + h[7] + h[9]
      BY <2>1 DEF HighHalves
    <3>5. (Word - 1) + Word * h[1] + h[2] + Word * h[3] + h[4] + Word * h[5]
              + h[6] + Word * h[7] + h[8] + Word * h[9] + h[10]
            = (h[1] + h[2] + h[3] + h[4] + h[5] + h[6] + h[7] + h[8] + h[9] + h[10])
                + (Word - 1) * (1 + (h[1] + h[3] + h[5] + h[7] + h[9]))
      BY <1>1, Halves, Zenon
    <3> QED BY <3>2, <3>4, <3>5 DEF Plain
  <2>2. CASE offset = Received
    <3>1. /\ ~InHighHalf(1, offset) /\ InHighHalf(2, offset) /\ ~InHighHalf(3, offset)
          /\ InHighHalf(4, offset) /\ ~InHighHalf(5, offset) /\ InHighHalf(6, offset)
          /\ ~InHighHalf(7, offset) /\ InHighHalf(8, offset) /\ ~InHighHalf(9, offset)
          /\ InHighHalf(10, offset)
      BY <2>2 DEF InHighHalf, Received
    <3>2. Sum(h, offset) = (Word - 1) + h[1] + Word * h[2] + h[3] + Word * h[4] + h[5]
            + Word * h[6] + h[7] + Word * h[8] + h[9] + Word * h[10]
      BY <3>1 DEF Sum, Value
    <3>3. offset # Fresh
      BY <2>2 DEF Received, Fresh
    <3>4. H = h[2] + h[4] + h[6] + h[8] + h[10]
      BY <3>3 DEF HighHalves
    <3>5. (Word - 1) + h[1] + Word * h[2] + h[3] + Word * h[4] + h[5]
              + Word * h[6] + h[7] + Word * h[8] + h[9] + Word * h[10]
            = (h[1] + h[2] + h[3] + h[4] + h[5] + h[6] + h[7] + h[8] + h[9] + h[10])
                + (Word - 1) * (1 + (h[2] + h[4] + h[6] + h[8] + h[10]))
      BY <1>1, Halves, Zenon
    <3> QED BY <3>2, <3>4, <3>5 DEF Plain
  <2> QED BY <2>1, <2>2
<1> HIDE DEF H
<1>6. (Word - 1) * (1 + H) \in Nat /\ (Word - 1) * (1 + H) <= (Word - 1) * (5 * Word)
  <2>1. 1 + H <= 5 * Word /\ Word - 1 \in Nat /\ 1 + H \in Nat /\ 5 * Word \in Nat
    BY <1>3, <1>4, WordOK
  <2> QED BY <2>1, TimesMonotone
<1>7. (Word - 1) * (1 + H) >= Word - 1
  <2>1. (Word - 1) * 1 <= (Word - 1) * (1 + H)
    BY <1>3, TimesMonotone, WordOK
  <2> QED BY <2>1, WordOK
<1>8. (Word - 1) * (5 * Word) + 10 * (Word - 1) < 6 * (Word * Word)
  <2>1. (Word - 1) * (5 * Word) = 5 * (Word * Word) - 5 * Word
    BY WordOK
  <2>2. 32 * Word <= Word * Word
    <3>1. Word * 32 <= Word * Word
      BY TimesMonotone, WordOK
    <3> QED BY <3>1, WordOK
  <2>3. Word * Word \in Nat
    BY WordOK
  <2> QED BY <2>1, <2>2, <2>3, WordOK
<1>9. Sum(h, offset) \in Nat /\ Sum(h, offset) > 0 /\ Sum(h, offset) < 6 * (Word * Word)
  BY <1>3, <1>4, <1>5, <1>6, <1>7, <1>8, WordOK
<1> QED BY <1>3, <1>5, <1>9 DEF H

(* A positive multiple of Word - 1 that is at most Word - 1.                *)
LEMMA OnlyMultiple ==
  ASSUME NEW m \in Int, (Word - 1) * m > 0, (Word - 1) * m <= Word - 1
  PROVE  m = 1
<1>1. m >= 1
  <2>1. SUFFICES ASSUME m <= 0 PROVE FALSE
    OBVIOUS
  <2>2. (Word - 1) * 0 <= (Word - 1) * (0 - m)
    BY <2>1, TimesMonotone, WordOK
  <2>3. (Word - 1) * (0 - m) = 0 - (Word - 1) * m
    BY WordOK
  <2>4. (Word - 1) * m \in Int /\ (Word - 1) * 0 = 0
    BY WordOK
  <2> QED BY <2>2, <2>3, <2>4
<1>2. m <= 1
  <2>1. SUFFICES ASSUME m >= 2 PROVE FALSE
    OBVIOUS
  <2>2. (Word - 1) * 2 <= (Word - 1) * m
    BY <2>1, TimesMonotone, WordOK
  <2> QED BY <2>2, WordOK
<1> QED BY <1>1, <1>2

THEOREM HeaderVerifies ==
  ASSUME NEW h \in Header, NEW o \in {Received, Fresh}, NEW p \in {Received, Fresh},
         h[HeaderCheck] = 0
  PROVE  LET c == ip_checksum(h, o)
         IN  c \in Words /\ ip_checksum([h EXCEPT ![HeaderCheck] = c], p) = 0
<1> DEFINE c == ip_checksum(h, o)
           h1 == [h EXCEPT ![HeaderCheck] = c]
<1>1. PICK q \in Nat : Sum(h, o) = Folded(Sum(h, o)) + (Word - 1) * q
  BY SumOfWords, FoldedReduces
<1>2. Folded(Sum(h, o)) \in 1 .. Word - 1
  BY SumOfWords, FoldedReduces
<1>3. c \in Words
  BY <1>2, WordOK DEF Words, ip_checksum
<1>4. h1 \in Header
  BY <1>3 DEF Header
<1>5. Plain(h1) = Plain(h) + c /\ Plain(h) \in Nat /\ Plain(h1) \in Nat
  <2>1. \A k \in 1 .. 10 : h[k] \in Nat /\ h1[k] = IF k = 6 THEN c ELSE h[k]
    BY WordOK DEF Header, Words, HeaderCheck
  <2>2. c \in Nat /\ h[6] = 0
    BY <1>3, WordOK DEF Words, HeaderCheck
  <2> HIDE DEF h1, c
  <2> QED BY <2>1, <2>2 DEF Plain
<1> DEFINE H0 == HighHalves(h, o)
           H1 == HighHalves(h1, p)
           S1 == Sum(h1, p)
<1>6. H0 \in Nat /\ H1 \in Nat
  BY <1>4, SumOfWords
<1>7. Sum(h, o) = Plain(h) + (Word - 1) * (1 + H0)
  BY SumOfWords
<1>8. S1 = Plain(h1) + (Word - 1) * (1 + H1)
  BY <1>4, SumOfWords
<1>9. PICK q1 \in Nat : S1 = Folded(S1) + (Word - 1) * q1
  BY <1>4, SumOfWords, FoldedReduces
<1>10. Folded(S1) \in 1 .. Word - 1
  BY <1>4, SumOfWords, FoldedReduces
<1>11. c = Word - 1 - Folded(Sum(h, o)) /\ ip_checksum(h1, p) = Word - 1 - Folded(S1)
  BY DEF ip_checksum
<1> HIDE DEF c, h1, H0, H1, S1
<1>12. Folded(S1) = (Word - 1) * (1 + q - (1 + H0) + (1 + H1) - q1)
  <2> DEFINE f == Folded(Sum(h, o))
             g == Folded(S1)
             P == Plain(h)
             s == Sum(h, o)
  <2>1. f \in Nat /\ g \in Nat /\ P \in Nat /\ s = f + (Word - 1) * q
        /\ s = P + (Word - 1) * (1 + H0) /\ Plain(h1) = P + c /\ c = Word - 1 - f
        /\ S1 = Plain(h1) + (Word - 1) * (1 + H1) /\ S1 = g + (Word - 1) * q1
    BY <1>1, <1>2, <1>5, <1>7, <1>8, <1>9, <1>10, <1>11
  <2> HIDE DEF f, g, P, s
  <2>2. g = (Word - 1) * q - (Word - 1) * (1 + H0) + (Word - 1) * (1 + H1)
              - (Word - 1) * q1 + (Word - 1)
    <3>1. /\ (Word - 1) * q \in Nat /\ (Word - 1) * (1 + H0) \in Nat
          /\ (Word - 1) * (1 + H1) \in Nat /\ (Word - 1) * q1 \in Nat
      BY <1>6, WordOK
    <3> QED BY <2>1, <3>1, WordOK
  <2>3. (Word - 1) * q - (Word - 1) * (1 + H0) + (Word - 1) * (1 + H1)
          - (Word - 1) * q1 + (Word - 1)
        = (Word - 1) * (1 + q - (1 + H0) + (1 + H1) - q1)
    BY <1>6, WordOK
  <2> QED BY <2>2, <2>3 DEF g
<1>13. Folded(S1) = Word - 1
  <2> DEFINE m == 1 + q - (1 + H0) + (1 + H1) - q1
  <2>1. m \in Int
    BY <1>6
  <2>2. (Word - 1) * m > 0 /\ (Word - 1) * m <= Word - 1
    BY <1>10, <1>12, WordOK
  <2> HIDE DEF m
  <2>3. m = 1
    BY <2>1, <2>2, OnlyMultiple
  <2>4. Folded(S1) = (Word - 1) * m
    BY <1>12 DEF m
  <2> QED BY <2>3, <2>4, WordOK
<1>14. ip_checksum(h1, p) = 0
  BY <1>11, <1>13, WordOK
<1> QED BY <1>3, <1>14 DEF c, h1
-----------------------------------------------------------------------------
(* The second addition of carries of icmp_checksum leaves none.             *)
LEMMA MessageFolds ==
  ASSUME NEW s \in Nat, s <= 4 * (Word - 1),
         NEW f, f = (Fold(s, Word) + Fold(s, Word) \div Word) % Word
  PROVE  /\ f \in 0 .. Word - 1 /\ (s > 0 => f > 0)
         /\ \E q \in Nat : s = f + (Word - 1) * q
<1> DEFINE d == s \div Word
           m == s % Word
           x == Fold(s, Word)
<1>1. d \in Nat /\ m \in Nat /\ m < Word /\ s = Word * d + m
  BY DivMod, WordOK
<1>2. x = m + d /\ s = x + (Word - 1) * d /\ (s > 0 => x > 0)
  <2>1. x = m + d
    BY DEF Fold
  <2>2. Fold(s, Word) \in Nat /\ s = Fold(s, Word) + (Word - 1) * (s \div Word)
          /\ (s > 0 => Fold(s, Word) > 0)
    BY FoldKeeps, WordOK
  <2> QED BY <2>1, <2>2
<1> HIDE DEF d, m
<1>3. d <= 3
  <2>1. d >= 4 => Word * 4 <= Word * d /\ Word * d \in Nat
    BY <1>1, TimesMonotone, WordOK
  <2> QED BY <1>1, <2>1, WordOK
<1>4. f = (x + x \div Word) % Word
  OBVIOUS
<1> HIDE DEF x
<1>5. x \in Nat /\ x <= Word + 2
  BY <1>1, <1>2, <1>3, WordOK
<1>6. CASE x < Word
  <2>1. x \div Word = 0 /\ x % Word = x
    <3>1. x \div Word \in Nat /\ x % Word \in Nat /\ x = Word * (x \div Word) + (x % Word)
      BY <1>5, DivMod, WordOK
    <3>2. x \div Word >= 1 => Word * 1 <= Word * (x \div Word)
      BY <3>1, TimesMonotone, WordOK
    <3>3. x \div Word = 0
      BY <1>5, <1>6, <3>1, <3>2, WordOK
    <3> QED BY <3>1, <3>3, WordOK
  <2>2. f = x
    BY <1>4, <1>5, <2>1
  <2>3. f \in 0 .. Word - 1 /\ (s > 0 => f > 0)
    BY <1>2, <1>5, <1>6, <2>2, WordOK
  <2>4. s = f + (Word - 1) * d
    BY <1>2, <2>2
  <2> QED BY <1>1, <2>3, <2>4
<1>7. CASE x >= Word
  <2>1. PICK r \in 0 .. 2 : x = Word + r
    <3>1. x - Word \in 0 .. 2 /\ x = Word + (x - Word)
      BY <1>5, <1>7, WordOK
    <3> QED BY <3>1
  <2>2. x \div Word = 1
    <3> DEFINE u == x \div Word
               v == x % Word
    <3>1. u \in Nat /\ v \in Nat /\ v < Word /\ x = Word * u + v
      BY <1>5, DivMod, WordOK
    <3> HIDE DEF u, v
    <3>2. u >= 2 => Word * 2 <= Word * u /\ Word * u \in Nat
      BY <3>1, TimesMonotone, WordOK
    <3>3. u = 0 => Word * u = 0
      BY WordOK
    <3>4. u = 1
      BY <1>5, <1>7, <3>1, <3>2, <3>3, WordOK
    <3> QED BY <3>4 DEF u
  <2>3. (Word + (r + 1)) % Word = r + 1
    <3> DEFINE n == Word + (r + 1)
               u == n \div Word
               v == n % Word
    <3>1. u \in Nat /\ v \in Nat /\ v < Word /\ n = Word * u + v
      BY <2>1, DivMod, WordOK
    <3>2. n = Word + r + 1
      BY <2>1, WordOK
    <3> HIDE DEF n, u, v
    <3>3. u >= 2 => Word * 2 <= Word * u /\ Word * u \in Nat
      BY <3>1, TimesMonotone, WordOK
    <3>4. (u = 0 => Word * u = 0) /\ (u = 1 => Word * u = Word)
      BY WordOK
    <3>5. v = r + 1
      BY <2>1, <3>1, <3>2, <3>3, <3>4, WordOK
    <3> QED BY <3>5 DEF v, n
  <2>4. f = r + 1
    <3>1. x + x \div Word = Word + (r + 1)
      BY <2>1, <2>2, WordOK
    <3> QED BY <1>4, <2>3, <3>1
  <2>5. s = f + (Word - 1) * (d + 1)
    <3>1. (Word - 1) * (d + 1) = (Word - 1) * d + (Word - 1) /\ (Word - 1) * d \in Nat
      BY <1>1, WordOK
    <3> QED BY <1>2, <2>1, <2>4, <3>1, WordOK
  <2>6. f \in 0 .. Word - 1 /\ (s > 0 => f > 0)
    BY <2>1, <2>4, WordOK
  <2>7. d + 1 \in Nat
    BY <1>1
  <2> QED BY <2>5, <2>6, <2>7
<1> QED BY <1>5, <1>6, <1>7, WordOK

THEOREM MessageVerifies ==
  ASSUME NEW m \in Message, m[MessageCheck] = 0
  PROVE  LET c == icmp_checksum(m)
         IN  c \in Words /\ icmp_checksum([m EXCEPT ![MessageCheck] = c]) = 0
<1> DEFINE c == icmp_checksum(m)
           m1 == [m EXCEPT ![MessageCheck] = c]
           s == m[1] + m[2] + m[3] + m[4]
           s1 == m1[1] + m1[2] + m1[3] + m1[4]
           f == (Fold(s, Word) + Fold(s, Word) \div Word) % Word
           f1 == (Fold(s1, Word) + Fold(s1, Word) \div Word) % Word
<1>1. \A k \in 1 .. 4 : m[k] \in Nat /\ m[k] <= Word - 1
  BY WordOK DEF Message, Words
<1>2. s \in Nat /\ s <= 4 * (Word - 1)
  BY <1>1, WordOK
<1>3. c = Word - 1 - f /\ icmp_checksum(m1) = Word - 1 - f1
  BY DEF icmp_checksum
<1> HIDE DEF f, f1
<1>4. f \in 0 .. Word - 1 /\ \E q \in Nat : s = f + (Word - 1) * q
  BY <1>2, MessageFolds DEF f
<1>5. c \in Words
  BY <1>3, <1>4, WordOK DEF Words
<1>6. s1 = s + c /\ s1 <= 4 * (Word - 1) /\ c \in Nat /\ c <= Word - 1
  <2>1. m1[1] = m[1] /\ m1[2] = c /\ m1[3] = m[3] /\ m1[4] = m[4] /\ m[2] = 0
    BY DEF Message, MessageCheck
  <2>2. c \in Nat /\ c <= Word - 1
    BY <1>5, WordOK DEF Words
  <2> HIDE DEF m1, c
  <2> QED BY <1>1, <2>1, <2>2, WordOK
<1> HIDE DEF c, m1, s, s1
<1>7. PICK q \in Nat : s = f + (Word - 1) * q
  BY <1>4
<1>8. s1 = (Word - 1) * (q + 1)
  <2>1. (Word - 1) * (q + 1) = (Word - 1) * q + (Word - 1) /\ (Word - 1) * q \in Nat
    BY WordOK
  <2> QED BY <1>3, <1>4, <1>6, <1>7, <2>1, WordOK
<1>9. s1 \in Nat /\ s1 > 0
  <2>1. (Word - 1) * 1 <= (Word - 1) * (q + 1)
    BY TimesMonotone, WordOK
  <2> QED BY <1>2, <1>6, <1>8, <2>1, WordOK
<1>10. f1 \in 0 .. Word - 1 /\ f1 > 0 /\ \E p \in Nat : s1 = f1 + (Word - 1) * p
  BY <1>6, <1>9, MessageFolds DEF f1
<1>11. PICK p \in Nat : s1 = f1 + (Word - 1) * p
  BY <1>10
<1>12. f1 = (Word - 1) * (q + 1 - p)
  <2>1. (Word - 1) * (q + 1 - p) = (Word - 1) * (q + 1) - (Word - 1) * p
    BY WordOK
  <2>2. (Word - 1) * (q + 1) \in Nat /\ (Word - 1) * p \in Nat
    BY WordOK
  <2> QED BY <1>8, <1>10, <1>11, <2>1, <2>2
<1>13. f1 = Word - 1
  <2> DEFINE k == q + 1 - p
  <2>1. k \in Int /\ f1 = (Word - 1) * k
    BY <1>12
  <2> HIDE DEF k
  <2>2. k = 1
    BY <1>10, <2>1, OnlyMultiple, WordOK
  <2> QED BY <2>1, <2>2, WordOK
<1> QED BY <1>3, <1>5, <1>13, WordOK DEF c, m1

-----------------------------------------------------------------------------
(* Routes. *)

(* A quotient is what DivMod says it is.                                    *)
LEMMA Quotient ==
  ASSUME NEW b \in Nat, b > 0, NEW q \in Nat, NEW m \in Nat, m < b
  PROVE  (b * q + m) \div b = q
<1> DEFINE n == b * q + m
           u == n \div b
           v == n % b
<1>1. n \in Nat
  OBVIOUS
<1>2. u \in Nat /\ v \in Nat /\ v < b /\ n = b * u + v
  BY <1>1, DivMod
<1>3. n = b * q + m
  OBVIOUS
<1> HIDE DEF n, u, v
<1>4. u <= q
  <2>1. SUFFICES ASSUME u >= q + 1 PROVE FALSE
    BY <1>2
  <2>2. b * (q + 1) <= b * u /\ b * u \in Nat
    BY <1>2, <2>1, TimesMonotone
  <2>3. b * (q + 1) = b * q + b /\ b * q \in Nat
    OBVIOUS
  <2> QED BY <1>2, <1>3, <2>2, <2>3
<1>5. q <= u
  <2>1. SUFFICES ASSUME q >= u + 1 PROVE FALSE
    BY <1>2
  <2>2. b * (u + 1) <= b * q /\ b * q \in Nat
    BY <1>2, <2>1, TimesMonotone
  <2>3. b * (u + 1) = b * u + b /\ b * u \in Nat
    BY <1>2
  <2> QED BY <1>2, <1>3, <2>2, <2>3
<1>6. u = q
  BY <1>2, <1>4, <1>5
<1> QED BY <1>6 DEF u, n

-----------------------------------------------------------------------------
(* Bits, bytes and masks *)

(* A nonempty set of natural numbers has a least element.                   *)
LEMMA Least ==
  ASSUME NEW S \in SUBSET Nat, S # {}
  PROVE  \E m \in S : \A k \in S : m <= k
<1>1. PICK m \in S : \A k \in S : ~(<<k, m>> \in OpToRel(<, Nat))
  BY NatLessThanWellFounded, WFMin
<1>2. \A k \in S : ~(k < m)
  BY <1>1 DEF OpToRel
<1> QED BY <1>2

LEMMA Power ==
  ASSUME NEW n \in 0 .. ByteBits
  PROVE  2 ^ n \in Nat /\ 2 ^ n > 0
<1>1. ByteBits \in Nat
  BY BytesOK
<1> DEFINE S == {m \in 0 .. ByteBits : 2 ^ m = 0}
<1>2. ASSUME S # {} PROVE FALSE
  <2>1. S \subseteq Nat
    BY <1>1
  <2> HIDE DEF S
  <2>2. PICK m \in S : \A k \in S : m <= k
    BY <1>2, <2>1, Least
  <2> USE DEF S
  <2>3. m # 0
    <3>1. 2 ^ 0 # 0
      OBVIOUS
    <3>2. 2 ^ m = 0
      BY <2>2
    <3> QED BY <3>1, <3>2
  <2>4. m - 1 \in 0 .. ByteBits /\ (m - 1) + 1 = m
    BY <1>1, <2>2, <2>3
  <2>5. 2 ^ (m - 1) \in Nat /\ 2 ^ m = 2 * 2 ^ (m - 1)
    BY <2>4, BytesOK
  <2>6. m - 1 \in S
    BY <2>2, <2>4, <2>5
  <2> HIDE DEF S
  <2> QED BY <1>1, <2>1, <2>2, <2>4, <2>6
<1>3. 2 ^ n \in Nat /\ 2 ^ n # 0
  BY <1>2, BytesOK
<1> QED BY <1>3

(* The bits above p are twice those above 2p, and one more.                 *)
LEMMA OneMoreBit ==
  ASSUME NEW x \in Nat, NEW p \in Nat, p > 0
  PROVE  /\ x \div p \in Nat /\ x \div (2 * p) \in Nat /\ (x \div p) % 2 \in Nat
         /\ x \div p = 2 * (x \div (2 * p)) + ((x \div p) % 2)
<1> DEFINE q == x \div p
           m == x % p
           u == q \div 2
           v == q % 2
<1>1. q \in Nat /\ m \in Nat /\ m < p /\ x = p * q + m
  BY DivMod
<1> HIDE DEF q, m
<1>2. u \in Nat /\ v \in Nat /\ v < 2 /\ q = 2 * u + v
  BY <1>1, DivMod
<1> HIDE DEF u, v
<1>3. x = (2 * p) * u + (p * v + m)
  <2>1. p * q = p * (2 * u) + p * v
    BY <1>1, <1>2
  <2>2. p * (2 * u) = (2 * p) * u
    BY <1>2
  <2> QED BY <1>1, <1>2, <2>1, <2>2
<1>4. p * v + m \in Nat /\ p * v + m < 2 * p
  <2>1. v = 0 \/ v = 1
    BY <1>2
  <2> QED BY <1>1, <2>1
<1>5. 2 * p \in Nat /\ 2 * p > 0
  OBVIOUS
<1>6. x \div (2 * p) = u
  <2>1. PICK b : b = 2 * p
    OBVIOUS
  <2>2. PICK w : w = p * v + m
    OBVIOUS
  <2>3. (b * u + w) \div b = u
    BY <1>2, <1>4, <1>5, <2>1, <2>2, Quotient
  <2> QED BY <1>3, <2>1, <2>2, <2>3
<1> QED BY <1>1, <1>2, <1>6 DEF q, u, v

(* A byte with no bit that another lacks is not the greater one.            *)
LEMMA ByteOrder ==
  ASSUME NEW x \in 0 .. Byte - 1, NEW y \in 0 .. Byte - 1,
         \A c \in 0 .. ByteBits - 1 : ByteBit(x, c) <= ByteBit(y, c)
  PROVE  x <= y
<1>1. ByteBits \in Nat /\ Byte \in Nat /\ Byte > 0 /\ Byte = 2 ^ ByteBits
  BY RoutersOK, BytesOK
<1>2. x \in Nat /\ y \in Nat
  BY <1>1
<1> DEFINE Less(j) == x \div 2 ^ j <= y \div 2 ^ j
           S == {n \in 0 .. ByteBits : ~Less(ByteBits - n)}
<1>3. ASSUME S # {} PROVE FALSE
  <2>1. S \subseteq Nat
    BY <1>1
  <2> HIDE DEF S
  <2>2. PICK n \in S : \A k \in S : n <= k
    BY <1>3, <2>1, Least
  <2>3. n \in 0 .. ByteBits /\ ~Less(ByteBits - n)
    BY <2>2 DEF S
  <2>4. CASE n = 0
    <3>1. x \div Byte = 0 /\ y \div Byte = 0
      <4>1. (Byte * 0 + x) \div Byte = 0 /\ (Byte * 0 + y) \div Byte = 0
        BY <1>1, <1>2, Quotient
      <4>2. Byte * 0 + x = x /\ Byte * 0 + y = y
        BY <1>1, <1>2
      <4> QED BY <4>1, <4>2
    <3>2. ByteBits - n = ByteBits
      BY <1>1, <2>4
    <3> QED BY <1>1, <2>3, <3>1, <3>2
  <2>5. CASE n # 0
    <3>1. PICK j : j = ByteBits - n
      OBVIOUS
    <3>2. PICK p : p = 2 ^ j
      OBVIOUS
    <3>3. j \in 0 .. ByteBits /\ j + 1 \in 0 .. ByteBits /\ n - 1 \in 0 .. ByteBits - 1
          /\ ByteBits - (n - 1) = j + 1 /\ ByteBits - 1 - (n - 1) = j
      BY <1>1, <2>3, <2>5, <3>1
    <3>4. p \in Nat /\ p > 0 /\ 2 ^ (j + 1) = 2 * p
      BY <3>2, <3>3, Power, BytesOK
    <3>5. Less(j + 1)
      <4>1. n - 1 \notin S
        BY <2>1, <2>2
      <4>2. n - 1 \in 0 .. ByteBits
        BY <1>1, <3>3
      <4>3. Less(ByteBits - (n - 1))
        BY <4>1, <4>2 DEF S
      <4> HIDE DEF Less
      <4> QED BY <3>3, <4>3
    <3>6. x \div (2 * p) <= y \div (2 * p)
      BY <3>4, <3>5
    <3>7. (x \div p) % 2 <= (y \div p) % 2
      <4>1. ByteBit(x, n - 1) <= ByteBit(y, n - 1)
        BY <3>3
      <4> QED BY <3>2, <3>3, <4>1 DEF ByteBit
    <3>8. /\ x \div p \in Nat /\ x \div (2 * p) \in Nat /\ (x \div p) % 2 \in Nat
          /\ x \div p = 2 * (x \div (2 * p)) + ((x \div p) % 2)
      BY <1>2, <3>4, OneMoreBit
    <3>9. /\ y \div p \in Nat /\ y \div (2 * p) \in Nat /\ (y \div p) % 2 \in Nat
          /\ y \div p = 2 * (y \div (2 * p)) + ((y \div p) % 2)
      BY <1>2, <3>4, OneMoreBit
    <3>10. PICK a1, a2, a3, b1, b2, b3 :
             /\ a1 = x \div p /\ a2 = x \div (2 * p) /\ a3 = (x \div p) % 2
             /\ b1 = y \div p /\ b2 = y \div (2 * p) /\ b3 = (y \div p) % 2
      OBVIOUS
    <3>11. a1 <= b1
      <4>1. a1 = 2 * a2 + a3 /\ b1 = 2 * b2 + b3
        BY <3>8, <3>9, <3>10
      <4>2. a2 <= b2 /\ a3 <= b3
        BY <3>6, <3>7, <3>10
      <4>3. a2 \in Nat /\ a3 \in Nat /\ b2 \in Nat /\ b3 \in Nat
        BY <3>8, <3>9, <3>10
      <4> QED BY <4>1, <4>2, <4>3
    <3> QED BY <2>3, <3>1, <3>2, <3>10, <3>11
  <2> QED BY <2>4, <2>5
<1>4. Less(0)
  <2>1. ByteBits \in 0 .. ByteBits /\ ByteBits - ByteBits = 0
    BY <1>1
  <2>2. ByteBits \notin S
    BY <1>3
  <2>3. Less(ByteBits - ByteBits)
    BY <2>1, <2>2
  <2> HIDE DEF Less
  <2> QED BY <2>1, <2>3
<1>5. 2 ^ 0 = 1
  OBVIOUS
<1>6. x \div 1 = x /\ y \div 1 = y
  BY <1>2
<1> QED BY <1>4, <1>5, <1>6

LEMMA ByteRange ==
  ASSUME NEW a \in Addresses, NEW k \in 0 .. 3
  PROVE  ByteOf(a, k) \in 0 .. Byte - 1
<1>1. Byte \in Nat /\ Byte > 0
  BY RoutersOK
<1>2. ASSUME NEW w \in Words PROVE w \div Byte \in 0 .. Byte - 1 /\ w % Byte \in 0 .. Byte - 1
  <2>1. w \in Nat /\ w < Byte * Byte
    BY RoutersOK, WordOK DEF Words
  <2>2. PICK q, m : q = w \div Byte /\ m = w % Byte
    OBVIOUS
  <2>3. q \in Nat /\ m \in Nat /\ m < Byte /\ w = Byte * q + m
    BY <1>1, <2>1, <2>2, DivMod
  <2>4. q < Byte
    <3>1. SUFFICES ASSUME Byte <= q PROVE FALSE
      BY <1>1, <2>3
    <3>2. Byte * Byte <= Byte * q /\ Byte * q \in Nat /\ Byte * Byte \in Nat
      BY <1>1, <2>3, <3>1, TimesMonotone
    <3> QED BY <2>1, <2>3, <3>2
  <2> QED BY <1>1, <2>2, <2>3, <2>4
<1>3. a[1] \in Words /\ a[2] \in Words
  BY DEF Addresses
<1>4. CASE k = 0
  BY <1>2, <1>3, <1>4 DEF ByteOf
<1>5. CASE k = 1
  BY <1>2, <1>3, <1>5 DEF ByteOf
<1>6. CASE k = 2
  BY <1>2, <1>3, <1>6 DEF ByteOf
<1>7. CASE k = 3
  BY <1>2, <1>3, <1>7 DEF ByteOf
<1> QED BY <1>4, <1>5, <1>6, <1>7

(* The bits of an address are those of its bytes.                           *)
LEMMA BitOfByte ==
  ASSUME NEW k \in 0 .. 3, NEW c \in 0 .. ByteBits - 1
  PROVE  /\ ByteBits * k + c \in Positions
         /\ \A a : Bit(a, ByteBits * k + c) = ByteBit(ByteOf(a, k), c)
<1>1. ByteBits \in Nat /\ ByteBits > 0 /\ c \in Nat /\ c < ByteBits
  BY BytesOK
<1>2. ByteBits * k \in Nat /\ ByteBits * k <= ByteBits * 3 /\ ByteBits * 3 = 3 * ByteBits
  BY <1>1, TimesMonotone
<1>3. PICK b : b = ByteBits * k + c
  OBVIOUS
<1>4. b \in Nat /\ b <= 4 * ByteBits - 1
  BY <1>1, <1>2, <1>3
<1>5. b \div ByteBits = k
  BY <1>1, <1>3, Quotient
<1>6. b % ByteBits = c
  <2>1. PICK m : m = b % ByteBits
    OBVIOUS
  <2>2. m \in Nat /\ b = ByteBits * k + m
    BY <1>1, <1>4, <1>5, <2>1, DivMod
  <2> QED BY <1>1, <1>2, <1>3, <2>1, <2>2
<1> QED BY <1>3, <1>4, <1>5, <1>6 DEF Positions, Bit

(* Of two prefix masks the longer is the greater number, in whichever order *)
(* the machine reads its bytes.                                             *)
LEMMA LongerIsGreater ==
  ASSUME NEW a \in Addresses, NEW m \in Nat, NEW b \in Addresses, NEW n \in 0 .. 4 * ByteBits,
         m < n,
         \A p \in Positions : Bit(a, p) = IF p < m THEN 1 ELSE 0,
         \A p \in Positions : Bit(b, p) = IF p < n THEN 1 ELSE 0
  PROVE  LittleEndian(a) < LittleEndian(b)
<1>1. ByteBits \in Nat /\ ByteBits > 0 /\ m < 4 * ByteBits /\ Positions \subseteq Nat
  BY BytesOK DEF Positions
<1>2. \A k \in 0 .. 3 : ByteOf(a, k) \in 0 .. Byte - 1 /\ ByteOf(b, k) \in 0 .. Byte - 1
  BY ByteRange
<1>3. ASSUME NEW k \in 0 .. 3 PROVE ByteOf(a, k) <= ByteOf(b, k)
  <2>1. ASSUME NEW c \in 0 .. ByteBits - 1
        PROVE  ByteBit(ByteOf(a, k), c) <= ByteBit(ByteOf(b, k), c)
    <3>1. PICK p : p = ByteBits * k + c
      OBVIOUS
    <3>2. p \in Positions /\ Bit(a, p) = ByteBit(ByteOf(a, k), c)
          /\ Bit(b, p) = ByteBit(ByteOf(b, k), c)
      BY <3>1, BitOfByte
    <3>3. Bit(a, p) <= Bit(b, p)
      <4>1. p \in Nat
        BY <1>1, <3>2
      <4> QED BY <1>1, <3>2, <4>1
    <3> QED BY <3>2, <3>3
  <2> QED BY <1>2, <2>1, ByteOrder
<1>4. PICK k \in 0 .. 3 : ByteOf(a, k) # ByteOf(b, k)
  <2>1. PICK k, c : k = m \div ByteBits /\ c = m % ByteBits
    OBVIOUS
  <2>2. k \in Nat /\ c \in Nat /\ c < ByteBits /\ m = ByteBits * k + c
    BY <1>1, <2>1, DivMod
  <2>3. k \in 0 .. 3 /\ c \in 0 .. ByteBits - 1
    <3>1. SUFFICES ASSUME 4 <= k PROVE FALSE
      BY <1>1, <2>2
    <3>2. ByteBits * 4 <= ByteBits * k /\ ByteBits * k \in Nat
      BY <1>1, <2>2, <3>1, TimesMonotone
    <3> QED BY <1>1, <2>2, <3>2
  <2>4. m \in Positions /\ Bit(a, m) = ByteBit(ByteOf(a, k), c)
        /\ Bit(b, m) = ByteBit(ByteOf(b, k), c)
    BY <2>2, <2>3, BitOfByte
  <2>5. Bit(a, m) = 0 /\ Bit(b, m) = 1
    BY <1>1, <2>4
  <2>6. 0 # 1
    OBVIOUS
  <2>7. ByteOf(a, k) # ByteOf(b, k)
    BY <2>4, <2>5, <2>6
  <2> QED BY <2>3, <2>7
<1>5. PICK a0, a1, a2, a3, b0, b1, b2, b3 :
        /\ a0 = ByteOf(a, 0) /\ a1 = ByteOf(a, 1) /\ a2 = ByteOf(a, 2) /\ a3 = ByteOf(a, 3)
        /\ b0 = ByteOf(b, 0) /\ b1 = ByteOf(b, 1) /\ b2 = ByteOf(b, 2) /\ b3 = ByteOf(b, 3)
  OBVIOUS
<1>6. Byte \in Nat /\ Byte > 0 /\ Word \in Nat /\ Word > 0
  BY RoutersOK, WordOK
<1>7. Word * Byte \in Nat /\ Word * Byte > 0
  BY <1>6
<1>8. /\ a0 \in Nat /\ a1 \in Nat /\ a2 \in Nat /\ a3 \in Nat
      /\ b0 \in Nat /\ b1 \in Nat /\ b2 \in Nat /\ b3 \in Nat
      /\ a0 <= b0 /\ a1 <= b1 /\ a2 <= b2 /\ a3 <= b3
  BY <1>2, <1>3, <1>5, <1>6
<1>9. a0 # b0 \/ a1 # b1 \/ a2 # b2 \/ a3 # b3
  <2>1. k = 0 \/ k = 1 \/ k = 2 \/ k = 3
    OBVIOUS
  <2> QED BY <1>4, <1>5, <2>1
<1>10. ASSUME NEW w \in Nat, w > 0, NEW x \in Nat, NEW y \in Nat, x <= y
       PROVE  w * x \in Nat /\ w * y \in Nat /\ w * x <= w * y /\ (x # y => w * x < w * y)
  <2>1. w * x \in Nat /\ w * y \in Nat /\ w * x <= w * y
    BY <1>10, TimesMonotone
  <2>2. ASSUME x # y PROVE w * x < w * y
    <3>1. x + 1 <= y /\ x + 1 \in Nat
      BY <1>10, <2>2
    <3>2. w * (x + 1) <= w * y
      BY <3>1, TimesMonotone
    <3>3. w * (x + 1) = w * x + w
      OBVIOUS
    <3> QED BY <1>10, <2>1, <3>2, <3>3
  <2> QED BY <2>1, <2>2
<1>11. PICK A1, A2, A3, B1, B2, B3 :
         /\ A1 = Byte * a1 /\ A2 = Word * a2 /\ A3 = Word * Byte * a3
         /\ B1 = Byte * b1 /\ B2 = Word * b2 /\ B3 = Word * Byte * b3
  OBVIOUS
<1>12. A1 \in Nat /\ B1 \in Nat /\ A1 <= B1 /\ (a1 # b1 => A1 < B1)
  BY <1>6, <1>8, <1>10, <1>11
<1>13. A2 \in Nat /\ B2 \in Nat /\ A2 <= B2 /\ (a2 # b2 => A2 < B2)
  BY <1>6, <1>8, <1>10, <1>11
<1>14. A3 \in Nat /\ B3 \in Nat /\ A3 <= B3 /\ (a3 # b3 => A3 < B3)
  BY <1>7, <1>8, <1>10, <1>11
<1>15. a0 + A1 + A2 + A3 < b0 + B1 + B2 + B3
  BY <1>8, <1>9, <1>12, <1>13, <1>14
<1> QED BY <1>5, <1>11, <1>15 DEF LittleEndian

LEMMA PrefixLengthIs ==
  ASSUME NEW e, NEW n \in 0 .. 4 * ByteBits,
         \A p \in Positions : Bit(e.mask, p) = IF p < n THEN 1 ELSE 0
  PROVE  PrefixLength(e) = n
<1>1. ByteBits \in Nat
  BY BytesOK
<1>2. {p \in Positions : Bit(e.mask, p) = 1} = 0 .. n - 1
  BY <1>1 DEF Positions
<1>3. Cardinality(0 .. n - 1) = n
  <2>1. 0 \in Int /\ n - 1 \in Int
    BY <1>1
  <2>2. Cardinality(0 .. n - 1) = IF 0 > n - 1 THEN 0 ELSE (n - 1) - 0 + 1
    BY <2>1, FS_Interval
  <2> QED BY <1>1, <2>2
<1> QED BY <1>2, <1>3 DEF PrefixLength

-----------------------------------------------------------------------------
(* Routes *)

(* The number an address is read as, and a bound of it.                     *)
LEMMA LittleEndianType ==
  ASSUME NEW a \in Addresses
  PROVE  /\ LittleEndian(a) \in Nat
         /\ LittleEndian(a) <= Byte + Byte * Byte + Word * Byte + Word * Byte * Byte
<1>1. Byte \in Nat /\ Word \in Nat /\ Word * Byte \in Nat
  BY RoutersOK, WordOK
<1>2. PICK a0, a1, a2, a3 :
        a0 = ByteOf(a, 0) /\ a1 = ByteOf(a, 1) /\ a2 = ByteOf(a, 2) /\ a3 = ByteOf(a, 3)
  OBVIOUS
<1>3. /\ a0 \in Nat /\ a1 \in Nat /\ a2 \in Nat /\ a3 \in Nat
      /\ a0 <= Byte /\ a1 <= Byte /\ a2 <= Byte /\ a3 <= Byte
  <2>1. \A k \in 0 .. 3 : ByteOf(a, k) \in 0 .. Byte - 1
    BY ByteRange
  <2> QED BY <1>1, <1>2, <2>1
<1>4. PICK A1, A2, A3, B1, B2, B3 :
        /\ A1 = Byte * a1 /\ A2 = Word * a2 /\ A3 = Word * Byte * a3
        /\ B1 = Byte * Byte /\ B2 = Word * Byte /\ B3 = Word * Byte * Byte
  OBVIOUS
<1>5. A1 \in Nat /\ B1 \in Nat /\ A1 <= B1
  BY <1>1, <1>3, <1>4, TimesMonotone
<1>6. A2 \in Nat /\ B2 \in Nat /\ A2 <= B2
  BY <1>1, <1>3, <1>4, TimesMonotone
<1>7. A3 \in Nat /\ B3 \in Nat /\ A3 <= B3
  BY <1>1, <1>3, <1>4, TimesMonotone
<1>8. a0 + A1 + A2 + A3 \in Nat /\ a0 + A1 + A2 + A3 <= Byte + B1 + B2 + B3
  BY <1>1, <1>3, <1>5, <1>6, <1>7
<1> QED BY <1>2, <1>4, <1>8 DEF LittleEndian

LEMMA EntryType ==
  ASSUME NEW r \in Routers, NEW k \in DOMAIN rtable[r]
  PROVE  k \in Nat /\ rtable[r][k].mask \in Addresses
<1> DEFINE Entries == [prefix : Addresses, mask : Addresses, interface : Nat]
<1>1. rtable[r] \in Seq(Entries)
  BY TablesOK
<1>2. \A e \in Entries : e.mask \in Addresses
  OBVIOUS
<1> HIDE DEF Entries
<1>3. k \in Nat /\ rtable[r][k] \in Entries
  BY <1>1
<1> QED BY <1>2, <1>3

(* The entry that get_best_route returns matches, and no other that matches *)
(* has a greater mask.                                                      *)
LEMMA BestRoute ==
  ASSUME NEW r \in Routers, NEW a, get_best_route(r, a) # NoRoute
  PROVE  /\ get_best_route(r, a) \in DOMAIN rtable[r]
         /\ Matches(rtable[r][get_best_route(r, a)], a)
         /\ \A l \in DOMAIN rtable[r] : Matches(rtable[r][l], a) =>
              LittleEndian(rtable[r][l].mask)
                <= LittleEndian(rtable[r][get_best_route(r, a)].mask)
<1> DEFINE t == rtable[r]
           D == DOMAIN t
           Size(k) == LittleEndian(t[k].mask)
           Best(k) == /\ Matches(t[k], a)
                      /\ \A l \in D :
                           Precedes(t[l], t[k]) \/ (l < k /\ ~Precedes(t[k], t[l]))
                             => ~Matches(t[l], a)
           M == {k \in D : Matches(t[k], a)}
<1>1. D \subseteq Nat /\ \A k \in D : Size(k) \in Nat
  BY EntryType, LittleEndianType
<1>2. \A k, l : Precedes(t[k], t[l]) <=> Size(k) > Size(l)
  BY DEF Precedes
<1>3. M # {}
  BY DEF get_best_route
<1>4. \E top \in Nat : \A k \in M : Size(k) <= top
  <2>1. PICK top : top = Byte + Byte * Byte + Word * Byte + Word * Byte * Byte
    OBVIOUS
  <2>2. Byte \in Nat /\ Word \in Nat
    BY RoutersOK, WordOK
  <2>3. Byte * Byte \in Nat /\ Word * Byte \in Nat
    BY <2>2
  <2>4. Word * Byte * Byte \in Nat
    BY <2>2, <2>3
  <2>5. top \in Nat
    BY <2>1, <2>2, <2>3, <2>4
  <2> QED BY <2>1, <2>5, EntryType, LittleEndianType
<1>5. PICK g \in M : \A k \in M : Size(k) <= Size(g)
  <2>1. PICK top \in Nat : \A k \in M : Size(k) <= top
    BY <1>4
  <2> DEFINE G == {n \in Nat : \E k \in M : n + Size(k) = top}
  <2>2. G # {}
    <3>1. PICK k \in M : TRUE
      BY <1>3
    <3>2. top - Size(k) \in Nat /\ (top - Size(k)) + Size(k) = top
      BY <1>1, <2>1
    <3> QED BY <3>2
  <2>3. G \subseteq Nat
    OBVIOUS
  <2> HIDE DEF G
  <2>4. PICK n \in G : \A m \in G : n <= m
    BY <2>2, <2>3, Least
  <2>5. PICK g \in M : n + Size(g) = top
    BY <2>4 DEF G
  <2>6. ASSUME NEW k \in M PROVE Size(k) <= Size(g)
    <3>1. Size(k) \in Nat /\ Size(g) \in Nat /\ Size(k) <= top /\ n \in Nat
      BY <1>1, <2>1, <2>3, <2>4
    <3>2. top - Size(k) \in G
      BY <3>1 DEF G
    <3> HIDE DEF Size
    <3> QED BY <2>4, <2>5, <3>1, <3>2
  <2> QED BY <2>6
<1> DEFINE E == {k \in M : Size(k) = Size(g)}
<1>6. PICK k \in E : \A l \in E : k <= l
  <2>1. E \subseteq Nat /\ E # {}
    BY <1>1, <1>5
  <2> HIDE DEF E
  <2> QED BY <2>1, Least
<1>7. k \in D /\ Best(k)
  <2>1. k \in D /\ Matches(t[k], a) /\ Size(k) = Size(g)
    BY <1>6
  <2>2. ASSUME NEW l \in D, Matches(t[l], a) PROVE ~(Size(l) > Size(k)) /\ ~(l < k /\ ~(Size(k) > Size(l)))
    <3>1. Size(l) <= Size(k) /\ Size(l) \in Nat /\ Size(k) \in Nat /\ l \in Nat /\ k \in Nat
      BY <1>1, <1>5, <2>1, <2>2
    <3>2. ASSUME l < k, Size(l) = Size(k) PROVE FALSE
      <4>1. l \in E
        BY <2>1, <2>2, <3>2
      <4> HIDE DEF E
      <4> QED BY <1>6, <3>1, <3>2, <4>1
    <3> HIDE DEF Size
    <3> QED BY <3>1, <3>2
  <2> HIDE DEF Size
  <2> QED BY <1>2, <2>1, <2>2
<1>8. PICK b : b = CHOOSE x \in D : Best(x)
  OBVIOUS
<1>9. b \in D /\ Best(b)
  BY <1>7, <1>8
<1>10. get_best_route(r, a) = b
  <2>1. ~\A x \in D : ~Matches(t[x], a)
    BY <1>3
  <2> QED BY <1>8, <2>1 DEF get_best_route
<1>11. ASSUME NEW l \in D, Matches(t[l], a) PROVE Size(l) <= Size(b)
  <2>1. ~Precedes(t[l], t[b])
    BY <1>9, <1>11
  <2>2. Size(l) \in Nat /\ Size(b) \in Nat /\ ~(Size(l) > Size(b))
    BY <1>1, <1>2, <1>9, <2>1
  <2> HIDE DEF Size
  <2> QED BY <2>2
<1> QED BY <1>9, <1>10, <1>11

(* ... so that it has the longest prefix.                                   *)
LEMMA BestIsLongest ==
  ASSUME NEW r \in Routers, NEW i, NEW a, get_best_route(r, a) # NoRoute,
         i = rtable[r][get_best_route(r, a)].interface
  PROVE  BestHop(<<r, i>>, a)
<1>1. PICK b : b = get_best_route(r, a)
  OBVIOUS
<1>2. /\ b \in DOMAIN rtable[r] /\ Matches(rtable[r][b], a)
      /\ \A l \in DOMAIN rtable[r] : Matches(rtable[r][l], a) =>
           LittleEndian(rtable[r][l].mask) <= LittleEndian(rtable[r][b].mask)
  BY <1>1, BestRoute
<1>3. ASSUME NEW l \in DOMAIN rtable[r], Matches(rtable[r][l], a)
      PROVE  PrefixLength(rtable[r][l]) <= PrefixLength(rtable[r][b])
  <2>2. rtable[r][l].mask \in Addresses /\ rtable[r][b].mask \in Addresses
    BY <1>2, EntryType
  <2>3. PICK m \in 0 .. 4 * ByteBits :
          \A p \in Positions : Bit(rtable[r][b].mask, p) = IF p < m THEN 1 ELSE 0
    BY <1>2, TablesOK DEF PrefixMask
  <2>4. PICK n \in 0 .. 4 * ByteBits :
          \A p \in Positions : Bit(rtable[r][l].mask, p) = IF p < n THEN 1 ELSE 0
    BY TablesOK DEF PrefixMask
  <2>5. PrefixLength(rtable[r][b]) = m /\ PrefixLength(rtable[r][l]) = n
    BY <2>3, <2>4, PrefixLengthIs
  <2>6. m \in Nat /\ n \in Nat
    BY BytesOK
  <2>7. ASSUME m < n PROVE FALSE
    <3>1. PICK x, y : x = LittleEndian(rtable[r][b].mask) /\ y = LittleEndian(rtable[r][l].mask)
      OBVIOUS
    <3>2. x < y
      BY <2>2, <2>3, <2>4, <2>6, <2>7, <3>1, LongerIsGreater
    <3>3. y <= x
      BY <1>2, <1>3, <3>1
    <3>4. x \in Nat /\ y \in Nat
      BY <2>2, <3>1, LittleEndianType
    <3> QED BY <3>2, <3>3, <3>4
  <2> QED BY <2>5, <2>6, <2>7
<1> QED BY <1>1, <1>2, <1>3 DEF BestHop

-----------------------------------------------------------------------------
(* What the invariants say of one frame.                                    *)
Good(f) ==
  /\ ByRouter(f) => Valid(f)
  /\ f.source \in Routers => icmp_checksum(f.icmp) = 0
  /\ ttl(f.ip) + Len(f.path) = f.first
  /\ f.path # <<>> => ttl(f.ip) >= 1
  /\ f.path # <<>> => BestHop(f.path[Len(f.path)], daddr(f.ip))

GoodFrames == {f \in Frames : Good(f)}

(* The inductive invariant: a type invariant over good frames.              *)
IInv ==
  /\ inq \in [Routers -> [Interfaces -> Seq(GoodFrames)]]
  /\ status \in [Routers -> {"running", "crashed", "exited"}]
  /\ sent \subseteq HostFrames
  /\ received \in [Hosts -> SUBSET GoodFrames]

-----------------------------------------------------------------------------
(* Frames *)

LEMMA Ttl ==
  ASSUME NEW h \in Header
  PROVE  /\ ttl(h) \in Nat /\ h[5] \in Nat
         /\ h[5] = Byte * ttl(h) + protocol(h)
         /\ protocol(h) \in Nat /\ protocol(h) < Byte
<1>1. h[5] \in Nat
  BY WordOK DEF Header, Words
<1>2. Byte \in Nat /\ Byte > 0
  BY RoutersOK
<1> QED BY <1>1, <1>2, DivMod DEF ttl, protocol

LEMMA WithCheckVerifies ==
  ASSUME NEW h \in Header, NEW o \in {Received, Fresh}
  PROVE  /\ WithCheck(h, o) \in Header
         /\ ip_checksum(WithCheck(h, o), Received) = 0
         /\ \A k \in 1 .. 10 : k # HeaderCheck => WithCheck(h, o)[k] = h[k]
<1> DEFINE h0 == [h EXCEPT ![HeaderCheck] = 0]
<1>1. h0 \in Header /\ h0[HeaderCheck] = 0
  BY WordOK DEF Header, Words, HeaderCheck
<1>2. WithCheck(h, o) = [h0 EXCEPT ![HeaderCheck] = ip_checksum(h0, o)]
  BY DEF WithCheck
<1>3. \A k \in 1 .. 10 : k # HeaderCheck => h0[k] = h[k]
  BY DEF Header
<1> HIDE DEF h0
<1>4. /\ ip_checksum(h0, o) \in Words
      /\ ip_checksum([h0 EXCEPT ![HeaderCheck] = ip_checksum(h0, o)], Received) = 0
  BY <1>1, HeaderVerifies
<1>5. WithCheck(h, o) \in Header
  BY <1>1, <1>2, <1>4 DEF Header
<1>6. \A k \in 1 .. 10 : k # HeaderCheck => WithCheck(h, o)[k] = h0[k]
  BY <1>1, <1>2 DEF Header
<1> QED BY <1>2, <1>3, <1>4, <1>5, <1>6

LEMMA HostFramesGood ==
  ASSUME NEW f \in HostFrames
  PROVE  f \in GoodFrames
<1>1. f \in Frames /\ f.source \in Hosts /\ f.first = ttl(f.ip) /\ f.path = <<>>
  BY HostFramesOK
<1>2. f.source \notin Routers
  BY <1>1, RoutersOK
<1>3. ttl(f.ip) \in Nat
  BY <1>1, Ttl DEF Frames
<1>4. Len(f.path) = 0
  BY <1>1
<1> QED BY <1>1, <1>2, <1>3, <1>4 DEF GoodFrames, Good, ByRouter

LEMMA AnswerGood ==
  ASSUME NEW f \in Frames, NEW r \in Routers, NEW m \in Message, m[MessageCheck] = 0
  PROVE  IcmpAnswer(r, f, m) \in GoodFrames
<1> DEFINE h == <<FirstWord, 28, 1, 0, FreshTtl * Byte + IPPROTO_ICMP, 0,
                  f.ip[7], f.ip[8], f.ip[9], f.ip[10]>>
           g == IcmpAnswer(r, f, m)
<1>1. FreshTtl \in Nat /\ Byte \in Nat /\ Byte >= 16 /\ FreshTtl <= Byte - 1 /\ FreshTtl >= 2
  BY RoutersOK
<1>2. FreshTtl * Byte + 1 \in Words /\ FreshTtl * Byte + 1 = Byte * FreshTtl + 1
  <2>1. Byte * FreshTtl <= Byte * (Byte - 1) /\ Byte * FreshTtl \in Nat
    BY <1>1, TimesMonotone
  <2>2. Byte * (Byte - 1) = Word - Byte
    BY <1>1, RoutersOK
  <2>3. FreshTtl * Byte = Byte * FreshTtl
    BY <1>1
  <2> QED BY <1>1, <2>1, <2>2, <2>3, WordOK DEF Words
<1>3. h \in Header
  <2>1. f.ip[7] \in Words /\ f.ip[8] \in Words /\ f.ip[9] \in Words /\ f.ip[10] \in Words
    BY DEF Frames, Header
  <2>2. FirstWord \in Words /\ 28 \in Words /\ 1 \in Words /\ 0 \in Words
    BY RoutersOK, WordOK DEF Words
  <2> QED BY <1>2, <2>1, <2>2 DEF Header, IPPROTO_ICMP
<1>4. h[5] = Byte * FreshTtl + 1
  BY <1>2 DEF IPPROTO_ICMP
<1>5. g = [ether |-> "IP", shost |-> f.shost, dhost |-> f.dhost, ip |-> WithCheck(h, Fresh),
           icmp |-> [m EXCEPT ![MessageCheck] = icmp_checksum(m)],
           source |-> r, first |-> FreshTtl, path |-> <<>>]
  BY DEF IcmpAnswer
<1> HIDE DEF h, g
<1>6. /\ WithCheck(h, Fresh) \in Header /\ ip_checksum(WithCheck(h, Fresh), Received) = 0
      /\ WithCheck(h, Fresh)[5] = Byte * FreshTtl + 1
  BY <1>3, <1>4, WithCheckVerifies DEF HeaderCheck
<1>7. ttl(WithCheck(h, Fresh)) = FreshTtl
  BY <1>1, <1>6, Quotient DEF ttl
<1>8. /\ icmp_checksum(m) \in Words
      /\ icmp_checksum([m EXCEPT ![MessageCheck] = icmp_checksum(m)]) = 0
  BY MessageVerifies
<1>9. [m EXCEPT ![MessageCheck] = icmp_checksum(m)] \in Message
  BY <1>8 DEF Message
<1>10. g \in Frames
  <2>1. <<>> \in Seq(Routers \X Interfaces) /\ f.shost \in Macs /\ f.dhost \in Macs
    BY DEF Frames
  <2> QED BY <1>1, <1>5, <1>6, <1>9, <2>1 DEF Frames
<1>11. Good(g)
  <2>1. g.ip = WithCheck(h, Fresh) /\ g.icmp = [m EXCEPT ![MessageCheck] = icmp_checksum(m)]
        /\ g.path = <<>> /\ g.first = FreshTtl
    BY <1>5
  <2>2. Len(g.path) = 0
    BY <2>1
  <2> QED BY <1>1, <1>6, <1>7, <1>8, <2>1, <2>2 DEF Good, Valid
<1> QED BY <1>10, <1>11 DEF GoodFrames, g

LEMMA RepliesGood ==
  ASSUME NEW f \in Frames, NEW r \in Routers
  PROVE  /\ send_icmp(r, f) \in GoodFrames
         /\ send_icmp_error(r, f, TIME_EXCEEDED) \in GoodFrames
         /\ send_icmp_error(r, f, UNREACHABLE) \in GoodFrames
<1>1. /\ ECHOREPLY * Byte \in Words /\ TIME_EXCEEDED * Byte \in Words
      /\ UNREACHABLE * Byte \in Words /\ 0 \in Words
  <2>1. 16 * Byte <= Word
    <3>1. Byte * 16 <= Byte * Byte
      BY RoutersOK, TimesMonotone
    <3> QED BY <3>1, RoutersOK
  <2> QED BY <2>1, RoutersOK, WordOK DEF Words, ECHOREPLY, TIME_EXCEEDED, UNREACHABLE
<1>2. f.ip[3] \in Words
  BY DEF Frames, Header
<1>3. \A a, b \in Words : <<a, 0, b, b>> \in Message /\ <<a, 0, b, b>>[MessageCheck] = 0
  BY <1>1 DEF Message, MessageCheck
<1> QED BY <1>1, <1>2, <1>3, AnswerGood DEF send_icmp, send_icmp_error

LEMMA ForwardedGood ==
  ASSUME NEW f \in GoodFrames, NEW r \in Routers, NEW out \in Interfaces,
         ttl(f.ip) > 1, HasArpEntry(f),
         best_route(r, f) # NoRoute, out = OutInterface(r, f)
  PROVE  Forwarded(r, f, out) \in GoodFrames
<1> DEFINE h == [f.ip EXCEPT ![5] = f.ip[5] - Byte]
           g == Forwarded(r, f, out)
<1>1. f \in Frames /\ Good(f)
  BY DEF GoodFrames
<1>2. f.ip \in Header
  BY <1>1 DEF Frames
<1>3. Byte \in Nat /\ Byte > 0
  BY RoutersOK
<1>4. f.ip[5] = Byte * ttl(f.ip) + protocol(f.ip) /\ ttl(f.ip) \in Nat
      /\ protocol(f.ip) \in Nat /\ protocol(f.ip) < Byte /\ f.ip[5] \in Nat
  BY <1>2, Ttl
<1>5. f.ip[5] - Byte = Byte * (ttl(f.ip) - 1) + protocol(f.ip) /\ f.ip[5] - Byte \in Nat
  <2>1. Byte * (ttl(f.ip) - 1) \in Nat /\ Byte * ttl(f.ip) = Byte * (ttl(f.ip) - 1) + Byte
    BY <1>3, <1>4
  <2> QED BY <1>3, <1>4, <2>1
<1>6. h \in Header /\ h[5] = f.ip[5] - Byte /\ h[9] = f.ip[9] /\ h[10] = f.ip[10]
  <2>1. f.ip[5] - Byte \in Words
    BY <1>2, <1>3, <1>5, WordOK DEF Header, Words
  <2> QED BY <1>2, <2>1 DEF Header
<1> HIDE DEF h
<1>7. /\ WithCheck(h, Received) \in Header /\ ip_checksum(WithCheck(h, Received), Received) = 0
      /\ WithCheck(h, Received)[5] = h[5]
      /\ WithCheck(h, Received)[9] = h[9] /\ WithCheck(h, Received)[10] = h[10]
  BY <1>6, WithCheckVerifies DEF HeaderCheck
<1>8. ttl(WithCheck(h, Received)) = ttl(f.ip) - 1
  <2> DEFINE t == ttl(f.ip) - 1
             m == protocol(f.ip)
  <2>1. t \in Nat /\ m \in Nat /\ m < Byte /\ WithCheck(h, Received)[5] = Byte * t + m
    BY <1>4, <1>5, <1>6, <1>7
  <2> HIDE DEF t, m
  <2>2. ttl(WithCheck(h, Received)) = t
    BY <1>3, <2>1, Quotient DEF ttl
  <2> QED BY <2>2 DEF t
<1>9. /\ g.ip = WithCheck(h, Received) /\ g.icmp = f.icmp /\ g.source = f.source
      /\ g.first = f.first /\ g.path = Append(f.path, <<r, out>>)
  BY <1>1 DEF Forwarded, NextHop, Frames, h
<1>10. f.path \in Seq(Routers \X Interfaces) /\ <<r, out>> \in Routers \X Interfaces
  BY <1>1 DEF Frames
<1>11. g \in Frames
  <2>1. arp_table[daddr(f.ip)] \in Macs /\ InterfaceMac[r][out] \in Macs
    BY RoutersOK DEF HasArpEntry
  <2>2. Append(f.path, <<r, out>>) \in Seq(Routers \X Interfaces)
    BY <1>10
  <2> QED BY <1>1, <1>7, <2>1, <2>2 DEF Forwarded, NextHop, Frames, h
<1>12. Len(g.path) = Len(f.path) + 1 /\ Len(f.path) \in Nat
  BY <1>9, <1>10
<1>13. BestHop(g.path[Len(g.path)], daddr(g.ip))
  <2>1. g.path[Len(g.path)] = <<r, out>>
    BY <1>9, <1>10
  <2>2. daddr(g.ip) = daddr(f.ip)
    BY <1>6, <1>7, <1>9 DEF daddr
  <2>3. BestHop(<<r, out>>, daddr(f.ip))
    BY BestIsLongest DEF best_route, OutInterface
  <2> QED BY <2>1, <2>2, <2>3
<1>14. Good(g)
  <2> HIDE DEF g
  <2>1. Valid(g) /\ ttl(g.ip) + Len(g.path) = g.first /\ ttl(g.ip) >= 1
    <3>1. Valid(g) /\ ttl(g.ip) = ttl(f.ip) - 1 /\ g.first = f.first
      BY <1>7, <1>8, <1>9 DEF Valid
    <3>2. ttl(f.ip) + Len(f.path) = f.first
      BY <1>1 DEF Good
    <3> QED BY <1>4, <1>12, <3>1, <3>2
  <2>2. g.source \in Routers => icmp_checksum(g.icmp) = 0
    BY <1>1, <1>9 DEF Good
  <2> QED BY <1>13, <2>1, <2>2 DEF Good
<1> QED BY <1>11, <1>14 DEF GoodFrames
-----------------------------------------------------------------------------
(* Steps *)

Queues == [Routers -> [Interfaces -> Seq(GoodFrames)]]
Inboxes == [Hosts -> SUBSET GoodFrames]

LEMMA HeadGood ==
  ASSUME IInv, NEW r \in Routers, NEW i \in Arrival(r)
  PROVE  i \in Interfaces /\ Head(inq[r][i]) \in GoodFrames /\ Rest(r, i) \in Queues
<1>1. i \in Interfaces /\ inq[r][i] # <<>>
  BY DEF Arrival, Ready
<1>2. inq[r][i] \in Seq(GoodFrames)
  BY <1>1 DEF IInv
<1>3. Tail(inq[r][i]) \in Seq(GoodFrames)
  BY <1>1, <1>2
<1>4. Rest(r, i) \in Queues
  BY <1>1, <1>3 DEF Rest, Queues, IInv
<1> QED BY <1>1, <1>2, <1>4

LEMMA DropKeeps ==
  ASSUME IInv, NEW r \in Routers, NEW i \in Arrival(r), Drop(r, i)
  PROVE  inq' \in Queues /\ received' \in Inboxes
BY HeadGood DEF Drop, IInv, Inboxes

LEMMA SendKeeps ==
  ASSUME IInv, NEW r \in Routers, NEW i \in Arrival(r), NEW out \in Interfaces,
         NEW g \in GoodFrames, send_packet(r, i, out, g)
  PROVE  inq' \in Queues /\ received' \in Inboxes
<1> DEFINE peer == Link[r][out]
<1>1. Rest(r, i) \in Queues /\ received \in Inboxes
  BY HeadGood DEF IInv, Inboxes
<1>2. peer \in (Hosts \union Routers) \X Interfaces
  BY RoutersOK
<1>3. CASE peer[1] \in Hosts
  <2>1. inq' = Rest(r, i)
    BY <1>3 DEF send_packet
  <2>2. received' = [received EXCEPT ![peer[1]] = @ \union {g}] \/ received' = received
    BY <1>3 DEF send_packet
  <2> QED BY <1>1, <1>3, <2>1, <2>2 DEF Inboxes
<1>4. CASE peer[1] \notin Hosts
  <2>1. inq' = [Rest(r, i) EXCEPT ![peer[1]][peer[2]] = Append(@, g)] /\ received' = received
    BY <1>4 DEF send_packet
  <2>2. peer[1] \in Routers /\ peer[2] \in Interfaces
    BY <1>2, <1>4
  <2> HIDE DEF peer
  <2>3. Rest(r, i)[peer[1]][peer[2]] \in Seq(GoodFrames)
    BY <1>1, <2>2 DEF Queues
  <2>4. Append(Rest(r, i)[peer[1]][peer[2]], g) \in Seq(GoodFrames)
    BY <2>3
  <2> QED BY <1>1, <2>1, <2>2, <2>4 DEF Queues
<1> QED BY <1>3, <1>4

LEMMA InitIInv == Init => IInv
<1> SUFFICES ASSUME Init PROVE IInv
  OBVIOUS
<1>1. <<>> \in Seq(GoodFrames)
  OBVIOUS
<1> QED BY <1>1 DEF Init, IInv

LEMMA HostSendIInv ==
  ASSUME IInv, NEW f \in HostFrames, HostSend(f)
  PROVE  IInv'
<1> DEFINE at == Attachment[f.source]
<1>1. f \in GoodFrames /\ f.source \in Hosts
  BY HostFramesGood, HostFramesOK
<1>2. at[1] \in Routers /\ at[2] \in Interfaces
  BY <1>1, RoutersOK
<1>3. inq' = [inq EXCEPT ![at[1]][at[2]] = Append(@, f)]
  BY DEF HostSend
<1> HIDE DEF at
<1>4. Append(inq[at[1]][at[2]], f) \in Seq(GoodFrames)
  BY <1>1, <1>2 DEF IInv
<1>5. inq' \in Queues
  BY <1>2, <1>3, <1>4 DEF IInv, Queues
<1> QED BY <1>5 DEF IInv, Queues, HostSend

LEMMA TurnIInv ==
  ASSUME IInv, NEW r \in Routers, Turn(r)
  PROVE  IInv'
<1>1. PICK i \in Arrival(r) : LET f == Head(inq[r][i]) IN
         \/ DropCorrupt(r, i, f) \/ NullIcmp(r, i, f) \/ EchoReply(r, i, f)
         \/ TimeExceeded(r, i, f) \/ Unreachable(r, i, f) \/ NoArp(r, i, f)
         \/ Forward(r, i, f) \/ WildInterface(r, i, f)
  BY DEF Turn
<1> DEFINE f == Head(inq[r][i])
<1>2. i \in Interfaces /\ f \in GoodFrames /\ f \in Frames
  BY HeadGood DEF GoodFrames
<1> HIDE DEF f
<1> DEFINE Status == [Routers -> {"running", "crashed", "exited"}]
<1>3. SUFFICES inq' \in Queues /\ received' \in Inboxes /\ status' \in Status /\ sent' = sent
  BY DEF IInv, Queues, Inboxes
<1>4. status \in Status /\ \A s \in {"running", "crashed", "exited"} :
        [status EXCEPT ![r] = s] \in Status
  BY DEF IInv
<1> HIDE DEF Status
<1>5. CASE DropCorrupt(r, i, f)
  BY <1>4, <1>5, DropKeeps DEF DropCorrupt
<1>6. CASE NullIcmp(r, i, f)
  BY <1>4, <1>6, DropKeeps DEF NullIcmp
<1>7. CASE EchoReply(r, i, f)
  BY <1>2, <1>4, <1>7, RepliesGood, SendKeeps DEF EchoReply
<1>8. CASE TimeExceeded(r, i, f)
  BY <1>2, <1>4, <1>8, RepliesGood, SendKeeps DEF TimeExceeded
<1>9. CASE Unreachable(r, i, f)
  BY <1>2, <1>4, <1>9, RepliesGood, SendKeeps DEF Unreachable
<1>10. CASE NoArp(r, i, f)
  BY <1>4, <1>10, DropKeeps DEF NoArp
<1>11. CASE Forward(r, i, f)
  <2>1. PICK out \in Interfaces :
          out = OutInterface(r, f) /\ send_packet(r, i, out, Forwarded(r, f, out))
    BY <1>11 DEF Forward
  <2>2. Forwarded(r, f, out) \in GoodFrames
    BY <1>2, <1>11, <2>1, ForwardedGood DEF Forward, Routed
  <2> QED BY <1>4, <1>11, <2>1, <2>2, SendKeeps DEF Forward
<1>12. CASE WildInterface(r, i, f)
  BY <1>4, <1>12, DropKeeps DEF WildInterface
<1> QED BY <1>1, <1>5, <1>6, <1>7, <1>8, <1>9, <1>10, <1>11, <1>12 DEF f

(* Every frame on a link or taken by a host is good.                        *)
THEOREM Inductive == Spec => []IInv
<1>1. IInv /\ [Next]_vars => IInv'
  <2> SUFFICES ASSUME IInv, [Next]_vars PROVE IInv'
    OBVIOUS
  <2>1. ASSUME NEW f \in HostFrames, HostSend(f) PROVE IInv'
    BY <2>1, HostSendIInv
  <2>2. ASSUME NEW r \in Routers, Turn(r) PROVE IInv'
    BY <2>2, TurnIInv
  <2>3. CASE UNCHANGED vars
    BY <2>3 DEF vars, IInv
  <2> QED BY <2>1, <2>2, <2>3 DEF Next
<1> QED BY InitIInv, <1>1, PTL DEF Spec

-----------------------------------------------------------------------------
LEMMA InFlightGood ==
  ASSUME IInv, NEW f \in InFlight
  PROVE  f \in GoodFrames
<1>1. CASE f \in Waiting
  <2>1. PICK r \in Routers, i \in Interfaces : \E k \in DOMAIN inq[r][i] : f = inq[r][i][k]
    BY <1>1 DEF Waiting
  <2>2. inq[r][i] \in Seq(GoodFrames)
    BY DEF IInv
  <2> QED BY <2>1, <2>2
<1>2. CASE \E h \in Hosts : f \in received[h]
  BY <1>2 DEF IInv
<1> QED BY <1>1, <1>2 DEF InFlight

(* The type invariant, for every network and traffic.                       *)
THEOREM TypeCorrect == Spec => []TypeOK
<1>1. IInv => TypeOK
  <2> SUFFICES ASSUME IInv PROVE TypeOK
    OBVIOUS
  <2>1. GoodFrames \subseteq Frames
    BY DEF GoodFrames
  <2>2. inq \in [Routers -> [Interfaces -> Seq(Frames)]]
    <3>1. \A r \in Routers, i \in Interfaces : inq[r][i] \in Seq(Frames)
      BY <2>1 DEF IInv
    <3>2. \A r \in Routers : inq[r] \in [Interfaces -> Seq(Frames)]
      BY <3>1 DEF IInv
    <3> QED BY <3>2 DEF IInv
  <2>3. received \in [Hosts -> SUBSET Frames]
    BY <2>1 DEF IInv
  <2> QED BY <2>2, <2>3 DEF IInv, TypeOK
<1> QED BY <1>1, Inductive, PTL

(* Whatever header a router receives, the one it sends verifies, and so do  *)
(* the IP and ICMP headers of its answers (router.c:150, skel.c:258).       *)
THEOREM ChecksumsCorrect == Spec => []ChecksumsValid
<1>1. IInv => ChecksumsValid
  BY InFlightGood DEF ChecksumsValid, GoodFrames, Good
<1> QED BY <1>1, Inductive, PTL

(* Through any number of routers a packet pays one of its ttl for each hop  *)
(* and is not sent on with none (router.c:135).                             *)
THEOREM TtlCorrect == Spec => []TtlPaid
<1>1. IInv => TtlPaid
  BY InFlightGood DEF TtlPaid, GoodFrames, Good
<1> QED BY <1>1, Inductive, PTL

(* Every hop of every packet is by a route with the longest prefix of those *)
(* that match its destination: for prefix masks of any byte width, the      *)
(* comparison of the masks as little-endian numbers (router.c:77) orders    *)
(* them by their lengths.                                                   *)
THEOREM LongestPrefixAlways == Spec => []LongestPrefixUsed
<1>1. IInv => LongestPrefixUsed
  BY InFlightGood DEF LongestPrefixUsed, GoodFrames, Good
<1> QED BY <1>1, Inductive, PTL
=============================================================================
