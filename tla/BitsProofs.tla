----------------------------- MODULE BitsProofs -----------------------------
(***************************************************************************)
(* The puzzles of bits.c on ints compute what tests.c asks of them, on      *)
(* every word of every width, or of 32 bits where they hold such literals.  *)
(* Those on floats of 32 bits do so on all but the words told here.        *)
(***************************************************************************)
EXTENDS BitsTests, WellFoundedInduction, TLAPS

\* There is a bit at least, and the sign is one.
LEMMA Width == W \in Nat /\ W > 0 /\ W - 1 \in Bit /\ 0 \in Bit
  BY WidthAssumption DEF Bit

\* De Morgan.
LEMMA BitXorRight ==
  ASSUME NEW x \in Word, NEW y \in Word
  PROVE  bitXor(x, y) = test_bitXor(x, y)
  BY DEF bitXor, test_bitXor, Xor, Not, Word

\* 1 << (W - 1) is the least int.
LEMMA TminRight == tmin = test_tmin
  BY Width DEF tmin, test_tmin, Shl, One, Sign, Bit

\* Into ~x + 1, a carry comes where every bit of x below is zero.
LEMMA NegateCarries ==
  ASSUME NEW x \in Word, NEW i \in Bit
  PROVE  i \in Carries(Not(x), One) <=> i > 0 /\ \A j \in x : i <= j
<1>1. x \subseteq Bit
  BY DEF Word
<1>2. ASSUME i \in Carries(Not(x), One), NEW j \in x PROVE i > 0 /\ i <= j
  BY <1>1, <1>2, Width DEF Carries, Not, One, Bit
<1>3. ASSUME i \in Carries(Not(x), One) PROVE i > 0
  BY <1>3, Width DEF Carries, Bit
<1>4. ASSUME i > 0, \A j \in x : i <= j PROVE i \in Carries(Not(x), One)
  <2>1. 0 \in Not(x) \cap One
    BY <1>4, Width DEF Not, One, Bit
  <2>2. \A k \in 0 + 1 .. i - 1 : k \in Not(x) \cup One
    BY <1>4, Width DEF Not, Bit
  <2>3. 0 \in 0 .. i - 1
    BY <1>4, Width DEF Bit
  <2> QED BY <2>1, <2>2, <2>3 DEF Carries
<1> QED BY <1>2, <1>3, <1>4

\* ~x + 1 inverts every bit above the lowest one of x.
LEMMA NegateRight ==
  ASSUME NEW x \in Word
  PROVE  negate(x) = test_negate(x)
<1>1. x \subseteq Bit
  BY DEF Word
<1>2. ASSUME NEW i \in Bit PROVE i \in negate(x) <=> i \in test_negate(x)
  <2>1. i \in Xor(Not(x), One) <=> (i \in x <=> i = 0)
    BY Width DEF Xor, Not, One, Bit
  <2>2. i \in negate(x) <=>
          (i \in Xor(Not(x), One) <=> i \notin Carries(Not(x), One))
    BY DEF negate, Plus, Xor
  <2>3. i \in test_negate(x) <=> (i \in x <=> \A j \in x : i <= j)
    BY DEF test_negate, Minus
  <2>4. i \in Carries(Not(x), One) <=> i > 0 /\ \A j \in x : i <= j
    BY NegateCarries
  <2>5. i = 0 => \A j \in x : i <= j
    BY <1>1, Width DEF Bit
  <2>6. i = 0 \/ i > 0
    BY Width DEF Bit
  <2>7. CASE i \in x
    BY <2>1, <2>2, <2>3, <2>4, <2>5, <2>6, <2>7
  <2>8. CASE i \notin x
    BY <2>1, <2>2, <2>3, <2>4, <2>5, <2>6, <2>8
  <2> QED BY <2>7, <2>8
<1>3. negate(x) \subseteq Bit /\ test_negate(x) \subseteq Bit
  BY Width DEF negate, test_negate, Plus, Minus, Xor, Not, Carries, One
<1> QED BY <1>2, <1>3

\* A zero or a one is spread over the word.
LEMMA Spread ==
  /\ Sar(Shl(One, W - 1), W - 1) = Bit
  /\ Sar(Shl(Zero, W - 1), W - 1) = {}
  BY Width DEF Sar, Shl, One, Zero, Bit

\* The mask that is spread selects y or z.
LEMMA ConditionalRight ==
  ASSUME NEW x \in Word, NEW y \in Word, NEW z \in Word
  PROVE  conditional(x, y, z) = test_conditional(x, y, z)
<1>1. CASE x = Zero
  BY <1>1, Spread DEF conditional, test_conditional, Bang, Not, Word
<1>2. CASE x # Zero
  BY <1>2, Spread DEF conditional, test_conditional, Bang, Not, Word
<1> QED BY <1>1, <1>2

\* 0x7fff...f is added to a word that is not negative: a carry reaches the sign
\* if any bit is one.
LEMMA CarryIntoSign ==
  ASSUME NEW x \in Word, Sign \cap x = {}
  PROVE  W - 1 \in Carries(x, Bit \ Sign) <=> x # {}
<1>1. x \subseteq 0 .. W - 2
  BY Width DEF Word, Sign, Bit
<1>2. Bit \ Sign = 0 .. W - 2
  BY Width DEF Sign, Bit
<1>3. ASSUME NEW j \in x PROVE W - 1 \in Carries(x, Bit \ Sign)
  <2>1. j \in 0 .. (W - 1) - 1 /\ j \in x \cap (Bit \ Sign)
    BY <1>1, <1>2, Width
  <2>2. \A k \in j + 1 .. (W - 1) - 1 : k \in x \cup (Bit \ Sign)
    BY <1>1, <1>2, Width
  <2> QED BY <2>1, <2>2, Width DEF Carries
<1> QED BY <1>3 DEF Carries

\* Whether x is zero is told by its sign and that carry.
LEMMA LogicalNegRight ==
  ASSUME NEW x \in Word
  PROVE  logicalNeg(x) = test_logicalNeg(x)
<1> DEFINE filterPos == Sar(Sign \cap Not(x), W - 1)
           Tmax == Not(Shl(One, W - 1))
           allToNeg == Plus(x, filterPos \cap Tmax)
<1>1. Tmax = Bit \ Sign
  BY TminRight DEF tmin, test_tmin, Not
<1>2. Sar(allToNeg, W - 1) \cap One = IF W - 1 \in allToNeg THEN One ELSE Zero
  BY Width DEF Sar, One, Zero, Bit
<1>3. W - 1 \in allToNeg <=> x # Zero
  <2>1. CASE W - 1 \in x
    <3>1. filterPos = {}
      BY <2>1, Width DEF Sar, Sign, Not, Bit
    <3>2. allToNeg = x
      BY <3>1 DEF Plus, Xor, Carries
    <3> QED BY <2>1, <3>2 DEF Zero
  <2>2. CASE W - 1 \notin x
    <3>1. filterPos = Bit
      BY <2>2, Width DEF Sar, Sign, Not, Bit
    <3>2. allToNeg = Plus(x, Bit \ Sign)
      BY <1>1, <3>1
    <3>3. W - 1 \in allToNeg <=> W - 1 \in Carries(x, Bit \ Sign)
      BY <2>2, <3>2, Width DEF Plus, Xor, Sign
    <3> QED BY <2>2, <3>3, CarryIntoSign DEF Sign, Zero
  <2> QED BY <2>1, <2>2
<1>4. Xor(One, One) = Zero /\ Xor(Zero, One) = One
  BY DEF Xor, One, Zero
<1>5. logicalNeg(x) = Xor(Sar(allToNeg, W - 1) \cap One, One)
  BY DEF logicalNeg
<1> HIDE DEF allToNeg
<1> QED BY <1>2, <1>3, <1>4, <1>5 DEF test_logicalNeg, Bang

\* A word with a zero has a lowest one.
LEMMA LowestZero ==
  ASSUME NEW x \in Word, x # Bit
  PROVE  \E z \in Bit : z \notin x /\ \A j \in 0 .. z - 1 : j \in x
<1> DEFINE T == Bit \ x
<1>1. T \subseteq Nat /\ T # {}
  <2>1. Bit \subseteq Nat
    BY Width DEF Bit
  <2>2. \E z : z \in Bit /\ z \notin x
    BY DEF Word
  <2> QED BY <2>1, <2>2
<1>2. PICK z \in T : \A y \in T : ~ (<<y, z>> \in OpToRel(<, Nat))
  BY <1>1, WFMin, NatLessThanWellFounded
<1>3. \A y \in T : ~ (y < z)
  BY <1>1, <1>2 DEF OpToRel
<1>4. z \in Bit /\ z \notin x /\ \A j \in 0 .. z - 1 : j \in Bit /\ j < z
  BY Width DEF Bit
<1> HIDE DEF T
<1>5. \A j \in 0 .. z - 1 : j \in x
  <2>1. \A j \in Bit : j \in x \/ j \in T
    BY DEF T
  <2> QED BY <1>3, <1>4, <2>1
<1> QED BY <1>4, <1>5

\* Below its lowest zero, adding one to x clears x, at that zero it sets it, and
\* above it leaves x alone.
LEMMA Increment ==
  ASSUME NEW x \in Word, NEW z \in Bit, z \notin x, \A j \in 0 .. z - 1 : j \in x
  PROVE  Plus(x, One) = {z} \cup {i \in x : i > z}
<1>1. \A i \in Bit : i \in Carries(x, One) <=> i > 0 /\ i <= z
  <2>1. ASSUME NEW i \in Bit, i > 0, i <= z PROVE i \in Carries(x, One)
    <3>1. 0 \in 0 .. i - 1 /\ 0 \in 0 .. z - 1
      BY <2>1, Width DEF Bit
    <3>2. \A k \in 0 + 1 .. i - 1 : k \in 0 .. z - 1
      BY <2>1, Width DEF Bit
    <3> QED BY <3>1, <3>2 DEF Carries, One
  <2>2. ASSUME NEW i \in Bit, i \in Carries(x, One) PROVE i > 0 /\ i <= z
    <3>1. PICK j \in 0 .. i - 1 : j \in x \cap One /\ \A k \in j + 1 .. i - 1 : k \in x \cup One
      BY <2>2 DEF Carries
    <3>2. j = 0 /\ 0 \in x /\ i > 0
      BY <3>1, Width DEF One, Bit
    <3>3. z # 0
      BY <3>2
    <3>4. CASE i > z
      <4>1. z \in 0 + 1 .. i - 1
        BY <3>3, <3>4, Width DEF Bit
      <4> QED BY <3>1, <3>2, <3>3, <4>1 DEF One
    <3> QED BY <3>2, <3>4, Width DEF Bit
  <2> QED BY <2>1, <2>2
<1>2. ASSUME NEW i \in Bit
      PROVE  i \in Plus(x, One) <=> i = z \/ (i \in x /\ i > z)
  <2>1. i \in Xor(x, One) <=> ~(i \in x <=> i = 0)
    BY Width DEF Xor, One, Bit
  <2>2. i \in Plus(x, One) <=> ~(i \in Xor(x, One) <=> i \in Carries(x, One))
    BY DEF Plus, Xor
  <2>3. CASE i < z
    <3>1. i \in x /\ (i = 0 \/ i > 0) /\ i <= z /\ i # z /\ ~(i > z)
      BY <2>3, Width DEF Bit
    <3>2. CASE i = 0
      BY <1>1, <2>1, <2>2, <3>1, <3>2
    <3>3. CASE i > 0
      <4>1. i # 0
        BY <3>3
      <4> QED BY <1>1, <2>1, <2>2, <3>1, <3>3, <4>1
    <3> QED BY <3>1, <3>2, <3>3
  <2>4. CASE i = z
    <3>1. i = 0 \/ i > 0
      BY Width DEF Bit
    <3>2. CASE i = 0
      <4>1. ~(i > 0)
        BY <3>2
      <4> QED BY <1>1, <2>1, <2>2, <2>4, <3>2, <4>1
    <3>3. CASE i > 0
      <4>1. i # 0 /\ i <= z
        BY <2>4, <3>3, Width DEF Bit
      <4> QED BY <1>1, <2>1, <2>2, <2>4, <3>3, <4>1
    <3> QED BY <3>1, <3>2, <3>3
  <2>5. CASE i > z
    <3>1. i # 0 /\ ~(i <= z) /\ i # z
      BY <2>5, Width DEF Bit
    <3> QED BY <1>1, <2>1, <2>2, <2>5, <3>1
  <2> QED BY <2>3, <2>4, <2>5, Width DEF Bit
<1>3. Plus(x, One) \subseteq Bit /\ x \subseteq Bit
  BY Width DEF Plus, Xor, Carries, One, Word
<1> QED BY <1>2, <1>3

\* x + 1 + x is -1 only if the lowest zero of x is its sign, or if it has none.
LEMMA IsTmaxRight ==
  ASSUME NEW x \in Word
  PROVE  isTmax(x) = test_isTmax(x)
<1> DEFINE y == Plus(x, One)
           sum == Plus(y, x)
<1>1. isTmax(x) = IF Not(sum) = Zero /\ y # Zero THEN One ELSE Zero
  BY DEF isTmax, Bang, Zero, One
<1>2. test_isTmax(x) = IF x = Bit \ Sign THEN One ELSE Zero
  BY DEF test_isTmax, Truth, Not
<1>3. CASE x = Bit
  <2>1. y = Zero
    <3>1. ASSUME NEW i \in Bit PROVE i \notin y
      <4>1. i \in Xor(x, One) <=> i # 0
        BY <1>3, Width DEF Xor, One, Bit
      <4>2. i \in Carries(x, One) <=> i # 0
        <5>1. CASE i = 0
          BY <5>1 DEF Carries
        <5>2. CASE i # 0
          <6>1. 0 \in 0 .. i - 1 /\ 0 \in x \cap One
            BY <1>3, <5>2, Width DEF Bit, One
          <6>2. \A k \in 0 + 1 .. i - 1 : k \in x \cup One
            BY <1>3, Width DEF Bit
          <6> QED BY <5>2, <6>1, <6>2 DEF Carries
        <5> QED BY <5>1, <5>2
      <4> QED BY <4>1, <4>2 DEF Plus, Xor
    <3>2. y \subseteq Bit
      BY <1>3, Width DEF Plus, Xor, Carries, One
    <3> QED BY <3>1, <3>2 DEF Zero
  <2>2. x # Bit \ Sign
    BY <1>3, Width DEF Sign
  <2> QED BY <1>1, <1>2, <2>1, <2>2
<1>4. CASE x # Bit
  <2>1. PICK z \in Bit : z \notin x /\ \A j \in 0 .. z - 1 : j \in x
    BY <1>4, LowestZero
  <2>2. y = {z} \cup {i \in x : i > z}
    BY <2>1, Increment
  <2> HIDE DEF y
  <2>3. y # Zero /\ x \subseteq Bit /\ z \in Int /\ z >= 0 /\ z <= W - 1
    BY <2>2, Width DEF Zero, Word, Bit
  <2>4. CASE z = W - 1
    <3>1. x = 0 .. W - 2 /\ Bit \ Sign = 0 .. W - 2
      <4>1. 0 .. z - 1 = 0 .. W - 2 /\ Bit \ Sign = 0 .. W - 2
        BY <2>4, Width DEF Bit, Sign
      <4>2. \A j \in Bit : j \in 0 .. W - 2 \/ j = z
        BY <2>4, Width DEF Bit
      <4>3. x \subseteq 0 .. W - 2
        BY <2>1, <2>3, <4>2
      <4>4. 0 .. W - 2 \subseteq x
        BY <2>1, <4>1
      <4> QED BY <4>1, <4>3, <4>4
    <3>2. y = {W - 1}
      BY <2>2, <2>4, <3>1, Width
    <3>3. Xor(y, x) = Bit
      BY <3>1, <3>2, Width DEF Xor, Bit
    <3>4. Carries(y, x) = {}
      BY <3>1, <3>2, Width DEF Carries
    <3>5. Not(sum) = Zero
      BY <3>3, <3>4 DEF Plus, Xor, Not, Zero
    <3> QED BY <1>1, <1>2, <2>3, <3>1, <3>5
  <2>5. CASE z < W - 1
    <3>1. z + 1 \in Bit
      BY <2>3, <2>5, Width DEF Bit
    <3>2. z + 1 \in x <=> z + 1 \in y
      BY <2>2, <2>3
    <3>3. z + 1 \notin Carries(y, x)
      BY <2>1, <2>2, <2>3 DEF Carries
    <3>4. z + 1 \in Not(sum)
      BY <3>1, <3>2, <3>3 DEF Plus, Xor, Not
    <3>5. x # Bit \ Sign
      BY <2>1, <2>5, <2>3, Width DEF Sign
    <3> QED BY <1>1, <1>2, <3>4, <3>5 DEF Zero
  <2> QED BY <2>3, <2>4, <2>5, Width
<1> QED BY <1>3, <1>4

-----------------------------------------------------------------------------
(* Comparison.                                                             *)

\* A bounded set of integers has a greatest.
LEMMA MaxOf ==
  ASSUME NEW S, S \subseteq Int, S # {}, NEW b \in Int, \A x \in S : x <= b
  PROVE  Max(S) \in S /\ \A x \in S : x <= Max(S)
<1> DEFINE T == {b - x : x \in S}
<1>1. T \subseteq Nat /\ T # {}
  <2>1. ASSUME NEW y \in T PROVE y \in Nat
    <3>1. PICK x \in S : y = b - x
      OBVIOUS
    <3> QED BY <3>1
  <2>2. PICK x \in S : TRUE
    OBVIOUS
  <2>3. b - x \in T
    OBVIOUS
  <2> QED BY <2>1, <2>3
<1>2. PICK d \in T : \A y \in T : ~ (<<y, d>> \in OpToRel(<, Nat))
  <2> HIDE DEF T
  <2> QED BY <1>1, WFMin, NatLessThanWellFounded
<1>3. ASSUME NEW y \in T PROVE d <= y
  <2> HIDE DEF T
  <2>1. y \in Nat /\ d \in Nat
    BY <1>1
  <2>2. ~ (<<y, d>> \in OpToRel(<, Nat))
    BY <1>2
  <2>3. ~ (y < d)
    BY <2>1, <2>2 DEF OpToRel
  <2> QED BY <2>1, <2>3
<1>4. PICK x \in S : d = b - x
  BY <1>2
<1>5. \A y \in S : x >= y
  <2> SUFFICES ASSUME NEW y \in S PROVE x >= y
    OBVIOUS
  <2>1. b - x <= b - y
    BY <1>3, <1>4
  <2> QED BY <2>1
<1>6. Max(S) \in S /\ \A y \in S : Max(S) >= y
  BY <1>4, <1>5 DEF Max
<1> QED BY <1>6

\* Two words that differ do so in a highest bit.
LEMMA HighestDifference ==
  ASSUME NEW x \in Word, NEW y \in Word, x # y
  PROVE  \E d \in Bit : /\ ~ (d \in x <=> d \in y)
                        /\ \A j \in d + 1 .. W - 1 : j \in x <=> j \in y
<1> DEFINE S == {i \in Bit : ~ (i \in x <=> i \in y)}
<1>1. S \subseteq Bit /\ S # {}
  BY DEF Word
<1>2. \A i \in Bit : i \in Int /\ i <= W - 1 /\ 0 <= i
  BY Width DEF Bit
<1>3. W - 1 \in Int
  BY Width
<1>4. PICK d : d = Max(S)
  OBVIOUS
<1>5. d \in S /\ \A i \in S : i <= d
  <2> HIDE DEF S
  <2>1. S \subseteq Int /\ \A i \in S : i <= W - 1
    BY <1>1, <1>2
  <2>2. Max(S) \in S /\ \A i \in S : i <= Max(S)
    BY <1>1, <1>3, <2>1, MaxOf
  <2> QED BY <1>4, <2>2
<1>6. ASSUME NEW j \in d + 1 .. W - 1 PROVE j \in x <=> j \in y
  <2>1. d \in Int /\ 0 <= d
    BY <1>1, <1>2, <1>5
  <2>2. j \in Bit /\ ~ (j <= d)
    BY <1>3, <2>1 DEF Bit
  <2> QED BY <1>5, <2>2
<1> QED BY <1>5, <1>6

\* Words are ordered by the highest bit in which they differ.
LEMMA BelowAt ==
  ASSUME NEW x \in Word, NEW y \in Word, NEW d \in Bit, ~ (d \in x <=> d \in y),
         \A j \in d + 1 .. W - 1 : j \in x <=> j \in y
  PROVE  Below(x, y) <=> d \in y
<1>1. d \in y => Below(x, y)
  BY DEF Below
<1>2. ASSUME Below(x, y), d \notin y PROVE FALSE
  <2>1. PICK i \in y \ x : \A j \in i + 1 .. W - 1 : j \in x <=> j \in y
    BY <1>2 DEF Below
  <2>2. i \in Bit /\ i # d /\ i \in Int /\ d \in Int /\ i <= W - 1 /\ d <= W - 1
    BY <1>2, Width DEF Word, Bit
  <2>3. CASE i < d
    <3>1. d \in i + 1 .. W - 1
      BY <2>2, <2>3, Width
    <3> QED BY <2>1, <3>1
  <2>4. CASE d < i
    <3>1. i \in d + 1 .. W - 1
      BY <2>2, <2>4, Width
    <3> QED BY <2>1, <3>1
  <2> QED BY <2>2, <2>3, <2>4
<1> QED BY <1>1, <1>2

\* As ints, the sign counts the other way round.
LEMMA LessAt ==
  ASSUME NEW x \in Word, NEW y \in Word, NEW d \in Bit, ~ (d \in x <=> d \in y),
         \A j \in d + 1 .. W - 1 : j \in x <=> j \in y
  PROVE  Less(x, y) <=> IF d = W - 1 THEN d \in x ELSE d \in y
<1>1. PICK x1, y1 : x1 = Xor(x, Sign) /\ y1 = Xor(y, Sign)
  OBVIOUS
<1>2. x1 \in Word /\ y1 \in Word
  BY <1>1, Width DEF Xor, Sign, Word
<1>3. \A i \in Bit : /\ i \in x1 <=> IF i = W - 1 THEN i \notin x ELSE i \in x
                     /\ i \in y1 <=> IF i = W - 1 THEN i \notin y ELSE i \in y
  BY <1>1 DEF Xor, Sign
<1>4. \A j \in d + 1 .. W - 1 : j \in Bit
  BY Width DEF Bit
<1>5. ~ (d \in x1 <=> d \in y1)
  BY <1>3
<1>6. \A j \in d + 1 .. W - 1 : j \in x1 <=> j \in y1
  BY <1>3, <1>4
<1>7. Below(x1, y1) <=> d \in y1
  BY <1>2, <1>5, <1>6, BelowAt
<1>8. Less(x, y) <=> d \in y1
  BY <1>1, <1>7 DEF Less
<1> QED BY <1>3, <1>8

\* No word is less than itself.
LEMMA NotLess ==
  ASSUME NEW x
  PROVE  ~ Less(x, x)
  BY DEF Less, Below

\* A word that is not zero has a lowest one.
LEMMA LowestOne ==
  ASSUME NEW x \in Word, x # Zero
  PROVE  \E l \in x : l \in Bit /\ \A j \in x : l <= j
<1>1. Not(x) \in Word /\ Not(x) # Bit /\ x \subseteq Bit
  BY DEF Not, Word, Zero
<1>2. PICK l \in Bit : l \notin Not(x) /\ \A j \in 0 .. l - 1 : j \in Not(x)
  BY <1>1, LowestZero
<1>3. l \in x
  BY <1>2 DEF Not
<1>4. ASSUME NEW j \in x PROVE l <= j
  <2>1. j \in Bit /\ j \notin 0 .. l - 1
    BY <1>1, <1>2 DEF Not
  <2> QED BY <2>1, Width DEF Bit
<1> QED BY <1>2, <1>3, <1>4

\* -x has the same lowest one, and above it every bit is inverted.
LEMMA MinusBits ==
  ASSUME NEW x \in Word, NEW l \in x, \A j \in x : l <= j
  PROVE  \A i \in Bit : i \in Minus(x) <=> i = l \/ (i > l /\ i \notin x)
<1>1. x \subseteq Bit /\ \A i \in Bit : i \in Int
  BY Width DEF Word, Bit
<1> SUFFICES ASSUME NEW i \in Bit
             PROVE  i \in Minus(x) <=> i = l \/ (i > l /\ i \notin x)
  OBVIOUS
<1>2. i \in Minus(x) <=> (i \in x <=> \A j \in x : i <= j)
  BY DEF Minus
<1>3. (\A j \in x : i <= j) <=> i <= l
  <2>1. i <= l => \A j \in x : i <= j
    BY <1>1
  <2> QED BY <2>1
<1>4. i \in x => l <= i
  OBVIOUS
<1>5. i \in Int /\ l \in Int
  BY <1>1
<1>6. CASE i \in x
  BY <1>2, <1>3, <1>4, <1>5, <1>6
<1>7. CASE i \notin x
  <2>1. i # l
    BY <1>7
  <2> QED BY <1>2, <1>3, <1>5, <1>7, <2>1
<1> QED BY <1>6, <1>7

\* A bit of a sum.
LEMMA PlusBit ==
  ASSUME NEW x, NEW y, NEW i
  PROVE  i \in Plus(x, y) <=> ~ ((i \in x <=> i \notin y) <=> i \in Carries(x, y))
<1>1. i \in Xor(x, y) <=> (i \in x <=> i \notin y)
  BY DEF Xor
<1>2. i \in Plus(x, y) <=> ~ (i \in Xor(x, y) <=> i \in Carries(x, y))
  BY DEF Plus, Xor
<1> QED BY <1>1, <1>2

\* Where two words have one one between them, a carry into the sign must have
\* started below.
LEMMA CarryFrom ==
  ASSUME NEW x \in Word, NEW y \in Word, NEW d \in 0 .. W - 2,
         \A k \in d + 1 .. W - 2 : k \in x <=> k \notin y
  PROVE  /\ d \in x /\ d \in y => W - 1 \in Carries(x, y)
         /\ d \notin x /\ d \notin y => W - 1 \notin Carries(x, y)
         /\ (\A j \in 0 .. d : ~ (j \in x /\ j \in y)) => W - 1 \notin Carries(x, y)
<1>1. W - 1 \in Carries(x, y) <=>
        \E j \in 0 .. (W - 1) - 1 :
          j \in x \cap y /\ \A k \in j + 1 .. (W - 1) - 1 : k \in x \cup y
  BY Width DEF Carries
<1>2. (W - 1) - 1 = W - 2 /\ W - 2 \in Int /\ d \in Int /\ d >= 0
  BY Width
<1>3. ASSUME d \in x, d \in y PROVE W - 1 \in Carries(x, y)
  <2>1. d \in 0 .. (W - 1) - 1 /\ d \in x \cap y
    BY <1>2, <1>3
  <2>2. \A k \in d + 1 .. (W - 1) - 1 : k \in x \cup y
    BY <1>2
  <2> QED BY <1>1, <2>1, <2>2
<1>4. ASSUME W - 1 \in Carries(x, y)
      PROVE  /\ d \in x \/ d \in y
             /\ \E j \in 0 .. d : j \in x /\ j \in y
  <2>1. PICK j \in 0 .. (W - 1) - 1 :
               j \in x \cap y /\ \A k \in j + 1 .. (W - 1) - 1 : k \in x \cup y
    BY <1>1, <1>4
  <2>2. j <= d
    <3>1. j \notin d + 1 .. W - 2
      BY <2>1
    <3> QED BY <1>2, <2>1, <3>1
  <2>3. j \in 0 .. d
    BY <1>2, <2>1, <2>2
  <2>4. CASE j = d
    BY <2>1, <2>3, <2>4
  <2>5. CASE j # d
    <3>1. d \in j + 1 .. (W - 1) - 1
      BY <1>2, <2>2, <2>5
    <3>2. d \in x \cup y
      BY <2>1, <3>1
    <3> QED BY <2>1, <2>3, <3>2
  <2> QED BY <2>4, <2>5
<1> QED BY <1>3, <1>4

\* y - x has the sign that tells y < x, if x and y have the same sign.
LEMMA SignOfDifference ==
  ASSUME NEW x \in Word, NEW y \in Word, W - 1 \in x <=> W - 1 \in y
  PROVE  W - 1 \in Plus(y, Minus(x)) <=> Less(y, x)
<1> DEFINE m == Minus(x)
<1>1. m \in Word /\ x \subseteq Bit /\ y \subseteq Bit
  BY DEF Minus, Word
<1>2. W - 1 \in Plus(y, m) <=>
        ~ ((W - 1 \in y <=> W - 1 \notin m) <=> W - 1 \in Carries(y, m))
  BY PlusBit
<1> HIDE DEF m
<1>3. CASE y = x
  <2>1. ~ Less(y, x)
    BY <1>3, NotLess
  <2>2. CASE x = Zero
    <3>1. m = {}
      BY <2>2 DEF m, Minus, Zero
    <3>2. W - 1 \notin Carries(y, m)
      BY <3>1 DEF Carries
    <3> QED BY <1>2, <1>3, <2>1, <2>2, <3>1, <3>2 DEF m, Zero
  <2>3. CASE x # Zero
    <3>1. PICK l \in x : l \in Bit /\ \A j \in x : l <= j
      BY <2>3, LowestOne
    <3>2. \A i \in Bit : i \in m <=> i = l \/ (i > l /\ i \notin x)
      BY <3>1, MinusBits DEF m
    <3>3. l \in Int /\ l >= 0 /\ l <= W - 1
      BY <3>1, Width DEF Bit
    <3>4. CASE l = W - 1
      <4>1. \A j \in 0 .. (W - 1) - 1 : j \notin x
        BY <3>1, <3>4, Width
      <4>2. W - 1 \notin Carries(y, m)
        BY <1>3, <4>1 DEF Carries
      <4>3. W - 1 \in m /\ W - 1 \in y
        BY <1>3, <3>1, <3>2, <3>4
      <4> QED BY <1>2, <2>1, <4>2, <4>3 DEF m
    <3>5. CASE l # W - 1
      <4>1. l \in 0 .. W - 2 /\ l < W - 1
        BY <3>3, <3>5, Width
      <4>2. \A k \in l + 1 .. W - 2 : k \in y <=> k \notin m
        <5>1. \A k \in l + 1 .. W - 2 : k \in Bit /\ k > l /\ k # l
          BY <3>3, Width DEF Bit
        <5> QED BY <1>3, <3>2, <5>1
      <4>3. l \in y /\ l \in m
        BY <1>3, <3>1, <3>2
      <4>4. W - 1 \in Carries(y, m)
        BY <1>1, <4>1, <4>2, <4>3, CarryFrom
      <4>5. W - 1 \in m <=> W - 1 \notin y
        BY <1>3, <3>2, <4>1, Width
      <4> QED BY <1>2, <2>1, <4>4, <4>5 DEF m
    <3> QED BY <3>4, <3>5
  <2> QED BY <2>2, <2>3
<1>4. CASE y # x
  <2>1. PICK d \in Bit : /\ ~ (d \in y <=> d \in x)
                         /\ \A j \in d + 1 .. W - 1 : j \in y <=> j \in x
    BY <1>4, HighestDifference
  <2>2. d # W - 1
    BY <2>1
  <2>3. d \in 0 .. W - 2 /\ d \in Int /\ d < W - 1
    BY <2>2, Width DEF Bit
  <2>4. Less(y, x) <=> d \in x
    BY <2>1, <2>2, LessAt
  <2>5. CASE x = Zero
    <3>1. m = {}
      BY <2>5 DEF m, Minus, Zero
    <3>2. W - 1 \notin Carries(y, m)
      BY <3>1 DEF Carries
    <3> QED BY <1>2, <2>4, <2>5, <3>1, <3>2 DEF m, Zero
  <2>6. CASE x # Zero
    <3>1. PICK l \in x : l \in Bit /\ \A j \in x : l <= j
      BY <2>6, LowestOne
    <3>2. \A i \in Bit : i \in m <=> i = l \/ (i > l /\ i \notin x)
      BY <3>1, MinusBits DEF m
    <3>3. l \in Int /\ l >= 0 /\ l <= W - 1
      BY <3>1, Width DEF Bit
    <3>4. CASE l = W - 1
      <4>1. \A j \in 0 .. (W - 1) - 1 : j \notin m
        <5>1. \A j \in 0 .. (W - 1) - 1 : j \in Bit /\ j # l /\ ~ (j > l)
          BY <3>4, Width DEF Bit
        <5> QED BY <3>2, <5>1
      <4>2. W - 1 \notin Carries(y, m)
        BY <4>1 DEF Carries
      <4>3. W - 1 \in m /\ W - 1 \in y
        BY <3>1, <3>2, <3>4
      <4>4. d \notin x
        BY <2>3, <3>1, <3>4
      <4> QED BY <1>2, <2>4, <4>2, <4>3, <4>4 DEF m
    <3>5. CASE l # W - 1
      <4>1. l \in 0 .. W - 2 /\ l < W - 1
        BY <3>3, <3>5, Width
      <4>2. W - 1 \in m <=> W - 1 \notin y
        BY <3>2, <4>1, Width
      <4>3. SUFFICES W - 1 \in Carries(y, m) <=> d \notin x
        BY <1>2, <2>4, <4>2 DEF m
      <4>4. ASSUME NEW k \in d + 1 .. W - 2, k > l
            PROVE  k \in y <=> k \notin m
        <5>1. k \in Bit /\ k # l /\ k \in d + 1 .. W - 1
          BY <2>3, <3>3, <4>4, Width DEF Bit
        <5> QED BY <2>1, <3>2, <4>4, <5>1
      <4>5. CASE d > l
        <5>1. \A k \in d + 1 .. W - 2 : k \in y <=> k \notin m
          <6>1. \A k \in d + 1 .. W - 2 : k > l
            BY <2>3, <3>3, <4>5
          <6> QED BY <4>4, <6>1
        <5>2. d \in m <=> d \notin x
          BY <3>2, <4>5, <2>3, <3>3
        <5>3. CASE d \in x
          <6>1. d \notin y /\ d \notin m
            BY <2>1, <5>2, <5>3
          <6> QED BY <1>1, <2>3, <5>1, <5>3, <6>1, CarryFrom
        <5>4. CASE d \notin x
          <6>1. d \in y /\ d \in m
            BY <2>1, <5>2, <5>4
          <6> QED BY <1>1, <2>3, <5>1, <5>4, <6>1, CarryFrom
        <5> QED BY <5>3, <5>4
      <4>6. CASE d = l
        <5>1. \A k \in d + 1 .. W - 2 : k \in y <=> k \notin m
          <6>1. \A k \in d + 1 .. W - 2 : k > l
            BY <2>3, <3>3, <4>6
          <6> QED BY <4>4, <6>1
        <5>2. d \in x /\ d \notin y
          BY <2>1, <3>1, <4>6
        <5>3. \A j \in 0 .. d : ~ (j \in y /\ j \in m)
          <6> SUFFICES ASSUME NEW j \in 0 .. d, j \in y, j \in m PROVE FALSE
            OBVIOUS
          <6>1. j \in Bit /\ ~ (j > l) /\ j # l
            BY <2>3, <4>6, <5>2, Width DEF Bit
          <6> QED BY <3>2, <6>1
        <5> QED BY <1>1, <2>3, <5>1, <5>2, <5>3, CarryFrom
      <4>7. CASE d < l
        <5>1. \A k \in l + 1 .. W - 2 : k \in y <=> k \notin m
          <6>1. \A k \in l + 1 .. W - 2 : k \in d + 1 .. W - 2 /\ k > l
            BY <2>3, <3>3, <4>7
          <6> QED BY <4>4, <6>1
        <5>2. l \in y /\ l \in m
          <6>1. l \in d + 1 .. W - 1
            BY <2>3, <3>3, <4>7
          <6> QED BY <2>1, <3>1, <3>2, <6>1
        <5>3. W - 1 \in Carries(y, m)
          BY <1>1, <4>1, <5>1, <5>2, CarryFrom
        <5>4. d \notin x
          BY <2>3, <3>1, <3>3, <4>7
        <5> QED BY <5>3, <5>4
      <4> QED BY <2>3, <3>3, <4>5, <4>6, <4>7
    <3> QED BY <3>4, <3>5
  <2> QED BY <2>5, <2>6
<1> QED BY <1>3, <1>4

\* x - y may overflow; the signs are compared first.
LEMMA IsLessOrEqualRight ==
  ASSUME NEW x \in Word, NEW y \in Word
  PROVE  isLessOrEqual(x, y) = test_isLessOrEqual(x, y)
<1> DEFINE diff == Plus(y, Plus(Not(x), One))
           is_YminusX_pos == Bang(diff \cap Sign)
           isYposXneg == Bang(y \cap Sign) \cap Bang(Not(x) \cap Sign)
           isYnegXpos == Bang(Not(y) \cap Sign) \cap Bang(x \cap Sign)
<1>1. isLessOrEqual(x, y) = Bang(isYnegXpos) \cap (is_YminusX_pos \cup isYposXneg)
  BY DEF isLessOrEqual
<1>2. diff = Plus(y, Minus(x))
  BY NegateRight DEF negate, test_negate
<1>3. \A v : v \cap Sign = Zero <=> W - 1 \notin v
  BY DEF Sign, Zero
<1>4. W - 1 \in Not(x) <=> W - 1 \notin x
  BY Width DEF Not
<1>5. W - 1 \in Not(y) <=> W - 1 \notin y
  BY Width DEF Not
<1> HIDE DEF diff
<1>6. is_YminusX_pos = IF W - 1 \in diff THEN Zero ELSE One
  BY <1>3 DEF Bang
<1>7. isYposXneg = IF W - 1 \notin y /\ W - 1 \in x THEN One ELSE Zero
  BY <1>3, <1>4 DEF Bang, Zero
<1>8. isYnegXpos = IF W - 1 \in y /\ W - 1 \notin x THEN One ELSE Zero
  BY <1>3, <1>5 DEF Bang, Zero
<1> HIDE DEF is_YminusX_pos, isYposXneg, isYnegXpos
<1>9. test_isLessOrEqual(x, y) = IF Less(y, x) THEN Zero ELSE One
  BY DEF test_isLessOrEqual, Truth
<1>10. Bang(One) = Zero /\ Bang(Zero) = One
  BY DEF Bang, One, Zero
<1>11. CASE W - 1 \in x <=> W - 1 \in y
  <2>1. W - 1 \in diff <=> Less(y, x)
    BY <1>2, <1>11, SignOfDifference
  <2>2. isYposXneg = Zero /\ isYnegXpos = Zero
    BY <1>7, <1>8, <1>11
  <2> QED BY <1>1, <1>6, <1>9, <1>10, <2>1, <2>2 DEF Zero
<1>12. CASE ~ (W - 1 \in x <=> W - 1 \in y)
  <2>1. \A j \in (W - 1) + 1 .. W - 1 : j \in y <=> j \in x
    BY Width
  <2>2. Less(y, x) <=> W - 1 \in y
    BY <1>12, <2>1, LessAt, Width
  <2>3. CASE W - 1 \in y
    <3>1. isYnegXpos = One
      BY <1>8, <1>12, <2>3
    <3> QED BY <1>1, <1>9, <1>10, <2>2, <2>3, <3>1 DEF Zero
  <2>4. CASE W - 1 \notin y
    <3>1. isYnegXpos = Zero /\ isYposXneg = One
      BY <1>7, <1>8, <1>12, <2>4
    <3>2. is_YminusX_pos \subseteq One
      BY <1>6 DEF Zero
    <3> QED BY <1>1, <1>9, <1>10, <2>2, <2>4, <3>1, <3>2
  <2> QED BY <2>3, <2>4
<1> QED BY <1>11, <1>12

-----------------------------------------------------------------------------
(* Puzzles with literals.                                                  *)

\* The binary digits of a literal.
Digit(n, i) == (n \div 2 ^ i) % 2

\* A bit of a literal is a digit.
LEMMA LitBit ==
  ASSUME NEW n, NEW i
  PROVE  i \in Lit(n) <=> i \in Bit /\ i < 31 /\ Digit(n, i) = 1
  BY DEF Lit, Digit

\* A literal below 64 has six digits.
LEMMA SmallLit ==
  ASSUME NEW n \in 0 .. 63
  PROVE  \A i \in 6 .. 30 : Digit(n, i) = 0
<1>1. /\ Digit(n, 6) = 0 /\ Digit(n, 7) = 0 /\ Digit(n, 8) = 0 /\ Digit(n, 9) = 0 /\ Digit(n, 10) = 0
        /\ Digit(n, 11) = 0 /\ Digit(n, 12) = 0 /\ Digit(n, 13) = 0 /\ Digit(n, 14) = 0 /\ Digit(n, 15) = 0
        /\ Digit(n, 16) = 0 /\ Digit(n, 17) = 0 /\ Digit(n, 18) = 0 /\ Digit(n, 19) = 0 /\ Digit(n, 20) = 0
        /\ Digit(n, 21) = 0 /\ Digit(n, 22) = 0 /\ Digit(n, 23) = 0 /\ Digit(n, 24) = 0 /\ Digit(n, 25) = 0
        /\ Digit(n, 26) = 0 /\ Digit(n, 27) = 0 /\ Digit(n, 28) = 0 /\ Digit(n, 29) = 0 /\ Digit(n, 30) = 0
  BY DEF Digit
<1> QED BY <1>1

\* 48 and 57, '0' and '9'.
LEMMA DigitBounds ==
  ASSUME W > 6
  PROVE  Lit(48) = {4, 5} /\ Lit(57) = {0, 3, 4, 5}
<1>1. \A i \in Bit : i \in 0 .. 5 \/ i \in 6 .. 30 \/ (i >= 31 /\ i \in Int)
  BY Width DEF Bit
<1>2. {0, 3, 4, 5} \subseteq Bit
  BY Width DEF Bit
<1>3. /\ Digit(48, 0) = 0 /\ Digit(48, 1) = 0 /\ Digit(48, 2) = 0
      /\ Digit(48, 3) = 0 /\ Digit(48, 4) = 1 /\ Digit(48, 5) = 1
  BY DEF Digit
<1>4. /\ Digit(57, 0) = 1 /\ Digit(57, 1) = 0 /\ Digit(57, 2) = 0
      /\ Digit(57, 3) = 1 /\ Digit(57, 4) = 1 /\ Digit(57, 5) = 1
  BY DEF Digit
<1>5. ASSUME NEW i \in Bit
      PROVE  /\ i \in Lit(48) <=> i \in {4, 5}
             /\ i \in Lit(57) <=> i \in {0, 3, 4, 5}
  <2>1. CASE i \in 0 .. 5
    BY <1>3, <1>4, <2>1, LitBit
  <2>2. CASE i \in 6 .. 30
    <3>1. Digit(48, i) = 0 /\ Digit(57, i) = 0
      BY <2>2, SmallLit
    <3> QED BY <2>2, <3>1, LitBit
  <2>3. CASE i >= 31 /\ i \in Int
    BY <2>3, LitBit
  <2> QED BY <1>1, <2>1, <2>2, <2>3
<1>6. Lit(48) \subseteq Bit /\ Lit(57) \subseteq Bit
  BY DEF Lit
<1> QED BY <1>2, <1>5, <1>6

\* A digit agrees with '0' in all bits from 4 on, and with '8' or '9' if bit 3 is
\* one.
LEMMA IsAsciiDigitRight ==
  ASSUME NEW x \in Word, W > 6
  PROVE  isAsciiDigit(x) = test_isAsciiDigit(x)
<1> DEFINE high == \A i \in 4 .. W - 1 : i \in x <=> i \in {4, 5}
           low == 3 \notin x \/ (1 \notin x /\ 2 \notin x)
           spread == Sar(Xor(x, Not(Lit(48))), 4)
<1>1. Lit(48) = {4, 5} /\ Lit(57) = {0, 3, 4, 5}
  BY DigitBounds
<1>2. x \subseteq Bit /\ \A i \in Bit : i \in Int /\ 0 <= i /\ i <= W - 1
  BY Width DEF Word, Bit
<1>3. \A i \in Bit : i \in Xor(x, Not(Lit(48))) <=> (i \in x <=> i \in {4, 5})
  BY <1>1 DEF Xor, Not
<1>4. spread = Bit <=> high
  <2>1. ASSUME high, NEW i \in Bit
        PROVE  i \in spread
    <3>1. PICK j \in 4 .. W - 1 : j = IF i + 4 < W THEN i + 4 ELSE W - 1
      BY <1>2, Width
    <3>2. j \in Bit
      BY Width DEF Bit
    <3>3. j \in Xor(x, Not(Lit(48)))
      BY <1>3, <2>1, <3>2
    <3> QED BY <3>1, <3>3 DEF Sar
  <2>2. ASSUME spread = Bit, NEW j \in 4 .. W - 1
        PROVE  j \in x <=> j \in {4, 5}
    <3>1. j - 4 \in Bit /\ (j - 4) + 4 = j /\ j < W /\ j \in Bit
      BY Width DEF Bit
    <3>2. j \in Xor(x, Not(Lit(48)))
      BY <2>2, <3>1 DEF Sar
    <3> QED BY <1>3, <3>1, <3>2
  <2>3. spread \subseteq Bit
    BY DEF Sar
  <2> QED BY <2>1, <2>2, <2>3
<1>5. Bang(Not(spread)) = IF high THEN One ELSE Zero
  <2>1. spread \subseteq Bit
    BY DEF Sar
  <2>2. Not(spread) = Zero <=> spread = Bit
    BY <2>1 DEF Not, Zero
  <2> QED BY <1>4, <2>2 DEF Bang
<1>6. Bang(x \cap {3}) \cup Bang(x \cap {1, 2}) = IF low THEN One ELSE Zero
  <2>1. x \cap {3} = Zero <=> 3 \notin x
    BY DEF Zero
  <2>2. x \cap {1, 2} = Zero <=> 1 \notin x /\ 2 \notin x
    BY DEF Zero
  <2> QED BY <2>1, <2>2 DEF Bang, Zero
<1>7. isAsciiDigit(x) = IF high /\ low THEN One ELSE Zero
  <2>1. isAsciiDigit(x) = Bang(Not(spread)) \cap (Bang(x \cap {3}) \cup Bang(x \cap {1, 2}))
    BY DEF isAsciiDigit
  <2> HIDE DEF spread, high, low
  <2> QED BY <1>5, <1>6, <2>1 DEF Zero
<1>8. Lit(48) \in Word /\ Lit(57) \in Word
  BY DEF Lit, Word
<1>9. W - 1 \in Int /\ W - 1 > 5
  BY Width
<1>10. CASE high
  <2>1. ASSUME NEW d \in Bit, ~ (d \in x <=> d \in Lit(48))
        PROVE  d \in x /\ d # W - 1
    <3>1. d \in 0 .. 3 \/ d \in 4 .. W - 1
      BY <1>2
    <3>2. d \in 0 .. 3
      BY <1>1, <1>10, <2>1, <3>1
    <3> QED BY <1>1, <1>9, <2>1, <3>2
  <2>2. ~ Less(x, Lit(48))
    <3>1. CASE x = Lit(48)
      BY <3>1, NotLess
    <3>2. CASE x # Lit(48)
      <4>1. PICK d \in Bit : /\ ~ (d \in x <=> d \in Lit(48))
                             /\ \A j \in d + 1 .. W - 1 : j \in x <=> j \in Lit(48)
        BY <1>8, <3>2, HighestDifference
      <4>2. d \in x /\ d # W - 1
        BY <2>1, <4>1
      <4> QED BY <1>8, <4>1, <4>2, LessAt
    <3> QED BY <3>1, <3>2
  <2>3. Less(Lit(57), x) <=> ~ low
    <3>1. CASE x = Lit(57)
      <4>1. 3 \in x /\ 1 \notin x /\ 2 \notin x
        BY <1>1, <3>1
      <4> QED BY <3>1, <4>1, NotLess
    <3>2. CASE x # Lit(57)
      <4>1. PICK d \in Bit : /\ ~ (d \in Lit(57) <=> d \in x)
                             /\ \A j \in d + 1 .. W - 1 : j \in Lit(57) <=> j \in x
        BY <1>8, <3>2, HighestDifference
      <4>2. d \in {0, 1, 2, 3}
        <5>1. d \in 0 .. 3 \/ d \in 4 .. W - 1
          BY <1>2
        <5>2. d \in 0 .. 3
          BY <1>1, <1>10, <4>1, <5>1
        <5> QED BY <5>2
      <4>3. Less(Lit(57), x) <=> d \in x
        BY <1>8, <1>9, <4>1, <4>2, LessAt
      <4>4. \A j \in {1, 2, 3} : j > d => (j \in Lit(57) <=> j \in x)
        BY <1>9, <4>1, <4>2
      <4>5. CASE d = 3
        BY <1>1, <4>1, <4>3, <4>5
      <4>6. CASE d = 2
        BY <1>1, <4>1, <4>3, <4>4, <4>6
      <4>7. CASE d = 1
        BY <1>1, <4>1, <4>3, <4>4, <4>7
      <4>8. CASE d = 0
        BY <1>1, <4>1, <4>3, <4>4, <4>8
      <4> QED BY <4>2, <4>5, <4>6, <4>7, <4>8
    <3> QED BY <3>1, <3>2
  <2> HIDE DEF high, low
  <2> QED BY <1>7, <1>10, <2>2, <2>3 DEF test_isAsciiDigit, Truth
<1>11. CASE ~ high
  <2>1. PICK k \in 4 .. W - 1 : ~ (k \in x <=> k \in {4, 5})
    BY <1>11
  <2>2. x # Lit(48)
    BY <1>1, <2>1
  <2>3. PICK d \in Bit : /\ ~ (d \in x <=> d \in Lit(48))
                         /\ \A j \in d + 1 .. W - 1 : j \in x <=> j \in Lit(48)
    BY <1>8, <2>2, HighestDifference
  <2>4. d >= k /\ d \in Int /\ k \in Int /\ k >= 4
    <3>1. ~ (k \in d + 1 .. W - 1)
      BY <1>1, <2>1, <2>3
    <3> QED BY <1>2, <3>1
  <2>5. \A j \in d .. W - 1 : j \in Lit(57) <=> j \in Lit(48)
    <3>1. \A j \in d .. W - 1 : j \notin {0, 3}
      BY <2>4
    <3> QED BY <1>1, <3>1
  <2>6. d \in d .. W - 1 /\ \A j \in d + 1 .. W - 1 : j \in d .. W - 1
    BY <1>2, <1>9, <2>4
  <2>7. Less(x, Lit(48)) <=> IF d = W - 1 THEN d \in x ELSE d \in Lit(48)
    BY <1>8, <2>3, LessAt
  <2>8. /\ ~ (d \in Lit(57) <=> d \in x)
        /\ \A j \in d + 1 .. W - 1 : j \in Lit(57) <=> j \in x
    BY <2>3, <2>5, <2>6
  <2>9. Less(Lit(57), x) <=> IF d = W - 1 THEN d \in Lit(57) ELSE d \in x
    BY <1>8, <2>8, LessAt
  <2>10. Less(x, Lit(48)) \/ Less(Lit(57), x)
    BY <2>3, <2>5, <2>6, <2>7, <2>9
  <2> HIDE DEF high, low
  <2> QED BY <1>7, <1>11, <2>10 DEF test_isAsciiDigit, Truth
<1> QED BY <1>10, <1>11

\* Over the four bytes of a word of 32 bits, 0x55 has every even bit.
LEMMA AllOddBitsRight ==
  ASSUME NEW x \in Word, W = 32
  PROVE  allOddBits(x) = test_allOddBits(x)
<1> DEFINE masked == UNION {x \cup Shl(Byte55, k) : k \in {0, 8, 16, 24}}
<1>1. x \subseteq Bit /\ \A i \in Bit : i \in 0 .. 31
  BY DEF Word, Bit
<1>2. ASSUME NEW i \in Bit
      PROVE  i \in masked <=> i \in x \/ i % 2 # 1
  <2>1. i \in masked <=> i \in x \/ \E k \in {0, 8, 16, 24} : i - k \in {0, 2, 4, 6}
    <3>1. \A k : i \in Shl(Byte55, k) <=> i - k \in {0, 2, 4, 6}
      BY DEF Shl, Byte55
    <3>2. i \in masked <=> \E k \in {0, 8, 16, 24} : i \in x \cup Shl(Byte55, k)
      OBVIOUS
    <3> HIDE DEF masked
    <3> QED BY <3>1, <3>2
  <2>2. (\E k \in {0, 8, 16, 24} : i - k \in {0, 2, 4, 6}) <=> i % 2 # 1
    <3>1. (\E k \in {0, 8, 16, 24} : i - k \in {0, 2, 4, 6}) <=>
            \/ i - 0 \in {0, 2, 4, 6} \/ i - 8 \in {0, 2, 4, 6}
            \/ i - 16 \in {0, 2, 4, 6} \/ i - 24 \in {0, 2, 4, 6}
      OBVIOUS
    <3>2. i \in 0 .. 31
      BY <1>1
    <3> QED BY <3>1, <3>2
  <2> QED BY <2>1, <2>2
<1>3. masked \subseteq Bit
  BY <1>1 DEF Shl
<1> HIDE DEF masked
<1>4. Not(masked) = Zero <=> \A i \in Bit : i % 2 = 1 => i \in x
  BY <1>2, <1>3 DEF Not, Zero
<1>5. allOddBits(x) = Bang(Not(masked))
  BY DEF allOddBits, masked
<1> QED BY <1>4, <1>5 DEF test_allOddBits, Bang, Truth

\* -x - 1 is ~x.
LEMMA MinusOne ==
  ASSUME NEW x \in Word, x # Zero
  PROVE  Plus(Minus(x), Not(Zero)) = Not(x)
<1> DEFINE m == Minus(x)
<1>1. PICK l \in x : l \in Bit /\ \A j \in x : l <= j
  BY LowestOne
<1>2. \A i \in Bit : i \in m <=> i = l \/ (i > l /\ i \notin x)
  BY <1>1, MinusBits
<1> HIDE DEF m
<1>3. Not(Zero) = Bit /\ \A i \in Bit : i \in Int /\ 0 <= i /\ i <= W - 1
  BY Width DEF Not, Zero, Bit
<1>4. ASSUME NEW i \in Bit
      PROVE  i \in Carries(m, Bit) <=> i > l
  <2>1. ASSUME i > l PROVE i \in Carries(m, Bit)
    <3>1. l \in 0 .. i - 1 /\ l \in m \cap Bit
      BY <1>1, <1>2, <1>3, <2>1
    <3>2. \A k \in l + 1 .. i - 1 : k \in m \cup Bit
      BY <1>1, <1>3, Width DEF Bit
    <3> QED BY <3>1, <3>2 DEF Carries
  <2>2. ASSUME i \in Carries(m, Bit) PROVE i > l
    <3>1. PICK j \in 0 .. i - 1 : j \in m \cap Bit
      BY <2>2 DEF Carries
    <3>2. j >= l
      BY <1>2, <1>3, <1>1, <3>1
    <3> QED BY <1>1, <1>3, <3>1, <3>2
  <2> QED BY <2>1, <2>2
<1>5. ASSUME NEW i \in Bit
      PROVE  i \in Plus(m, Bit) <=> i \notin x
  <2>1. i \in Plus(m, Bit) <=> ~ ((i \in m <=> i \notin Bit) <=> i \in Carries(m, Bit))
    BY PlusBit
  <2>2. i \in Plus(m, Bit) <=> (i \in m <=> i > l)
    BY <1>4, <2>1
  <2>3. i < l => i \notin x
    BY <1>1, <1>3
  <2>4. i \in Int /\ l \in Int
    BY <1>1, <1>3
  <2>5. CASE i < l
    BY <1>2, <2>2, <2>3, <2>4, <2>5
  <2>6. CASE i = l
    BY <1>1, <1>2, <2>2, <2>4, <2>6
  <2>7. CASE i > l
    BY <1>2, <2>2, <2>4, <2>7
  <2> QED BY <2>4, <2>5, <2>6, <2>7
<1>6. Plus(m, Bit) \subseteq Bit
  BY DEF Plus, Xor, Carries, m, Minus
<1> QED BY <1>3, <1>5, <1>6 DEF m, Not

\* The bits of x up to p, if that is its highest one.
Size(x, p) == /\ p \in 0 .. W - 1
              /\ \A i \in x : i < p
              /\ p = 0 \/ p - 1 \in x

\* A word that is not negative has a size.
LEMMA HasSize ==
  ASSUME NEW x \in Word, W - 1 \notin x
  PROVE  \E p : /\ Size(x, p)
                /\ p = IF x = Zero THEN 0 ELSE Max(x) + 1
<1>1. \A i \in x : i \in Bit /\ i \in Int /\ 0 <= i /\ i <= W - 1
  BY Width DEF Word, Bit
<1>2. W - 1 \in Int /\ W - 1 >= 0
  BY Width
<1>3. CASE x = Zero
  BY <1>2, <1>3 DEF Size, Zero
<1>4. CASE x # Zero
  <2>1. x \subseteq Int /\ x # {} /\ \A i \in x : i <= W - 1
    BY <1>1, <1>4 DEF Zero
  <2>2. PICK h : h = Max(x)
    OBVIOUS
  <2>3. h \in x /\ \A i \in x : i <= h
    BY <1>2, <2>1, <2>2, MaxOf
  <2>4. h + 1 \in 0 .. W - 1 /\ (h + 1) - 1 = h
    BY <1>1, <1>2, <2>3
  <2>5. \A i \in x : i < h + 1
    BY <1>1, <2>3
  <2>6. Size(x, h + 1)
    BY <2>3, <2>4, <2>5 DEF Size
  <2> QED BY <1>4, <2>2, <2>6
<1> QED BY <1>3, <1>4

\* A step of the binary search: what is left is shorter by the bits shifted out.
LEMMA HalveRight ==
  ASSUME NEW x \in Word, NEW p, Size(x, p), NEW k \in Nat \ {0},
         NEW h, h = Halve(x, k), NEW y, y = Sar(x, h)
  PROVE  /\ h = IF p > k THEN k ELSE 0
         /\ y \in Word /\ Size(y, p - h)
<1>1. x \subseteq Bit /\ W - 1 \notin x
  BY Width DEF Size, Word
<1>2. \A i \in Bit : i \in Int /\ 0 <= i /\ i <= W - 1
  BY Width DEF Bit
<1>3. ASSUME NEW n \in Nat, NEW i \in Bit
      PROVE  i \in Sar(x, n) <=> i + n \in x
  <2>1. i + n < W \/ i + n \notin x
    BY <1>1, <1>2, Width
  <2> QED BY <1>1, <2>1 DEF Sar
<1>4. Sar(x, k) # Zero <=> p > k
  <2>1. ASSUME Sar(x, k) # Zero PROVE p > k
    <3>1. PICK i \in Bit : i \in Sar(x, k)
      BY <2>1 DEF Sar, Zero
    <3>2. i + k \in x /\ i >= 0 /\ i \in Int
      BY <1>2, <1>3, <3>1
    <3> QED BY <3>2, Width DEF Size
  <2>2. ASSUME p > k PROVE Sar(x, k) # Zero
    <3>1. p \in Int /\ p # 0 /\ p - 1 \in x
      BY <2>2, Width DEF Size
    <3>2. ((p - 1) - k) + k = p - 1 /\ (p - 1) - k >= 0 /\ (p - 1) - k <= p - 1
      BY <2>2, <3>1
    <3>3. (p - 1) - k \in Bit
      BY <1>1, <1>2, <3>1, <3>2, Width DEF Bit
    <3>4. (p - 1) - k \in Sar(x, k)
      BY <1>3, <3>1, <3>2, <3>3
    <3> QED BY <3>4 DEF Zero
  <2> QED BY <2>1, <2>2
<1>5. h = IF p > k THEN k ELSE 0
  BY <1>4 DEF Halve
<1>6. p \in Int /\ 0 <= p /\ p <= W - 1 /\ h \in Nat /\ p - h >= 0
  BY <1>5, Width DEF Size
<1>7. \A i \in Bit : i \in y <=> i + h \in x
  BY <1>3, <1>6
<1>8. y \subseteq Bit
  BY DEF Sar
<1>9. \A i \in y : i < p - h
  <2> SUFFICES ASSUME NEW i \in y PROVE i < p - h
    OBVIOUS
  <2>1. i + h < p /\ i \in Int
    BY <1>2, <1>7, <1>8 DEF Size
  <2> QED BY <1>6, <2>1
<1>10. p - h = 0 \/ (p - h) - 1 \in y
  <2>1. CASE p = 0
    <3>1. ~ (p > k)
      BY <2>1
    <3>2. h = 0
      BY <1>5, <3>1
    <3>3. p - h = 0
      BY <2>1, <3>2
    <3> QED BY <3>3
  <2>2. CASE p # 0
    <3>1. p - 1 \in x
      BY <2>2 DEF Size
    <3>2. p - h > 0
      BY <1>5, <1>6, <2>2
    <3>3. ((p - h) - 1) + h = p - 1 /\ (p - h) - 1 \in Bit
      BY <1>6, <3>2, Width DEF Bit
    <3> QED BY <1>7, <3>1, <3>3
  <2> QED BY <2>1, <2>2
<1>11. p - h \in 0 .. W - 1
  BY <1>6, Width
<1> QED BY <1>5, <1>8, <1>9, <1>10, <1>11 DEF Size, Word

\* Counting on from a literal.
LEMMA LitIncrement ==
  ASSUME NEW n \in 0 .. 62, W = 32
  PROVE  Plus(Lit(n), One) = Lit(n + 1)
<1>1. Bit = 0 .. 31 /\ Lit(n) \subseteq Bit /\ Lit(n) \in Word /\ Lit(n + 1) \subseteq Bit
  BY DEF Bit, Lit, Word
<1>2. \A i \in Bit : i \in 0 .. 5 \/ i \in 6 .. 30 \/ i = 31
  BY <1>1
<1>3. n \in 0 .. 63 /\ n + 1 \in 0 .. 63
  OBVIOUS
<1>4. \A i \in Bit : i > 5 => i \notin Lit(n) /\ i \notin Lit(n + 1)
  <2> SUFFICES ASSUME NEW i \in Bit, i > 5 PROVE i \notin Lit(n) /\ i \notin Lit(n + 1)
    OBVIOUS
  <2>1. CASE i \in 6 .. 30
    <3>1. Digit(n, i) = 0 /\ Digit(n + 1, i) = 0
      BY <1>3, <2>1, SmallLit
    <3> QED BY <3>1, LitBit
  <2>2. CASE i = 31
    BY <2>2, LitBit
  <2> QED BY <1>1, <2>1, <2>2
<1>5. \A i \in 0 .. 5 : /\ i \in Lit(n) <=> Digit(n, i) = 1
                        /\ i \in Lit(n + 1) <=> Digit(n + 1, i) = 1
  BY <1>1, LitBit
<1>6. PICK a0, a1, a2, a3, a4, a5 :
        /\ a0 = Digit(n, 0) /\ a1 = Digit(n, 1) /\ a2 = Digit(n, 2)
        /\ a3 = Digit(n, 3) /\ a4 = Digit(n, 4) /\ a5 = Digit(n, 5)
  OBVIOUS
<1>7. PICK b0, b1, b2, b3, b4, b5 :
        /\ b0 = Digit(n + 1, 0) /\ b1 = Digit(n + 1, 1) /\ b2 = Digit(n + 1, 2)
        /\ b3 = Digit(n + 1, 3) /\ b4 = Digit(n + 1, 4) /\ b5 = Digit(n + 1, 5)
  OBVIOUS
<1>8. /\ a0 \in {0, 1} /\ a1 \in {0, 1} /\ a2 \in {0, 1}
      /\ a3 \in {0, 1} /\ a4 \in {0, 1} /\ a5 \in {0, 1}
      /\ n = a0 + 2 * a1 + 4 * a2 + 8 * a3 + 16 * a4 + 32 * a5
  BY <1>6 DEF Digit
<1>9. /\ b0 \in {0, 1} /\ b1 \in {0, 1} /\ b2 \in {0, 1}
      /\ b3 \in {0, 1} /\ b4 \in {0, 1} /\ b5 \in {0, 1}
      /\ n + 1 = b0 + 2 * b1 + 4 * b2 + 8 * b3 + 16 * b4 + 32 * b5
  BY <1>7 DEF Digit
<1>10. Lit(n) # Bit
  <2>1. 6 \in Bit /\ 6 > 5
    BY <1>1
  <2> QED BY <1>4, <2>1
<1>11. PICK z \in Bit : z \notin Lit(n) /\ \A j \in 0 .. z - 1 : j \in Lit(n)
  BY <1>1, <1>10, LowestZero
<1>12. Plus(Lit(n), One) = {z} \cup {i \in Lit(n) : i > z}
  BY <1>1, <1>11, Increment
<1>13. /\ (0 \in Lit(n) <=> a0 = 1) /\ (1 \in Lit(n) <=> a1 = 1) /\ (2 \in Lit(n) <=> a2 = 1)
       /\ (3 \in Lit(n) <=> a3 = 1) /\ (4 \in Lit(n) <=> a4 = 1) /\ (5 \in Lit(n) <=> a5 = 1)
  BY <1>5, <1>6
<1>14. /\ (0 \in Lit(n + 1) <=> b0 = 1) /\ (1 \in Lit(n + 1) <=> b1 = 1)
       /\ (2 \in Lit(n + 1) <=> b2 = 1) /\ (3 \in Lit(n + 1) <=> b3 = 1)
       /\ (4 \in Lit(n + 1) <=> b4 = 1) /\ (5 \in Lit(n + 1) <=> b5 = 1)
  BY <1>5, <1>7
<1>15. z \in 0 .. 6
  <2>1. 6 \notin Lit(n)
    BY <1>1, <1>4
  <2> QED BY <1>1, <1>11, <2>1
<1>16. SUFFICES \A i \in 0 .. 5 : i \in Lit(n + 1) <=> i = z \/ (i \in Lit(n) /\ i > z)
  <2>1. z \in 0 .. 5
    BY <1>1, <1>4, <1>8, <1>11, <1>13, <1>15
  <2>2. \A i \in Bit : i \in Lit(n + 1) <=> i = z \/ (i \in Lit(n) /\ i > z)
    BY <1>1, <1>4, <1>16, <2>1
  <2> QED BY <1>1, <1>12, <2>2
<1>17. \A i \in 0 .. 5 : i \in {0, 1, 2, 3, 4, 5}
  OBVIOUS
<1>18. CASE z = 0
  <2>1. a0 = 0
    BY <1>8, <1>11, <1>13, <1>18
  <2>2. b0 = 1 /\ b1 = a1 /\ b2 = a2 /\ b3 = a3 /\ b4 = a4 /\ b5 = a5
    BY <1>8, <1>9, <2>1
  <2> QED BY <1>13, <1>14, <1>17, <1>18, <2>1, <2>2
<1>19. CASE z = 1
  <2>1. a0 = 1 /\ a1 = 0
    BY <1>8, <1>11, <1>13, <1>19
  <2>2. b0 = 0 /\ b1 = 1 /\ b2 = a2 /\ b3 = a3 /\ b4 = a4 /\ b5 = a5
    BY <1>8, <1>9, <2>1
  <2> QED BY <1>13, <1>14, <1>17, <1>19, <2>1, <2>2
<1>20. CASE z = 2
  <2>1. a0 = 1 /\ a1 = 1 /\ a2 = 0
    BY <1>8, <1>11, <1>13, <1>20
  <2>2. b0 = 0 /\ b1 = 0 /\ b2 = 1 /\ b3 = a3 /\ b4 = a4 /\ b5 = a5
    BY <1>8, <1>9, <2>1
  <2> QED BY <1>13, <1>14, <1>17, <1>20, <2>1, <2>2
<1>21. CASE z = 3
  <2>1. a0 = 1 /\ a1 = 1 /\ a2 = 1 /\ a3 = 0
    BY <1>8, <1>11, <1>13, <1>21
  <2>2. b0 = 0 /\ b1 = 0 /\ b2 = 0 /\ b3 = 1 /\ b4 = a4 /\ b5 = a5
    BY <1>8, <1>9, <2>1
  <2> QED BY <1>13, <1>14, <1>17, <1>21, <2>1, <2>2
<1>22. CASE z = 4
  <2>1. a0 = 1 /\ a1 = 1 /\ a2 = 1 /\ a3 = 1 /\ a4 = 0
    BY <1>8, <1>11, <1>13, <1>22
  <2>2. b0 = 0 /\ b1 = 0 /\ b2 = 0 /\ b3 = 0 /\ b4 = 1 /\ b5 = a5
    BY <1>8, <1>9, <2>1
  <2> QED BY <1>13, <1>14, <1>17, <1>22, <2>1, <2>2
<1>23. CASE z = 5
  <2>1. a0 = 1 /\ a1 = 1 /\ a2 = 1 /\ a3 = 1 /\ a4 = 1 /\ a5 = 0
    BY <1>8, <1>11, <1>13, <1>23
  <2>2. b0 = 0 /\ b1 = 0 /\ b2 = 0 /\ b3 = 0 /\ b4 = 0 /\ b5 = 1
    BY <1>8, <1>9, <2>1
  <2> QED BY <1>13, <1>14, <1>17, <1>23, <2>1, <2>2
<1>24. z # 6
  <2>1. ASSUME z = 6 PROVE FALSE
    <3>1. a0 = 1 /\ a1 = 1 /\ a2 = 1 /\ a3 = 1 /\ a4 = 1 /\ a5 = 1
      BY <1>11, <1>13, <2>1
    <3> QED BY <1>8, <3>1
  <2> QED BY <2>1
<1> QED BY <1>15, <1>18, <1>19, <1>20, <1>21, <1>22, <1>23, <1>24

\* The word without its sign has p bits; the search finds p - 1 of them in its
\* five steps, and the last one, if there is one, in what is left.
LEMMA HowManyBitsRight ==
  ASSUME NEW x \in Word, W = 32
  PROVE  howManyBits(x) = test_howManyBits(x)
<1>1. PICK x5 : x5 = Xor(x, Sar(x, W - 1))
  OBVIOUS
<1>2. /\ x5 \in Word /\ W - 1 \notin x5
      /\ x5 = IF Sign \subseteq x THEN Not(x) ELSE x
  <2>1. \A i \in Bit : i \in Sar(x, W - 1) <=> W - 1 \in x
    <3>1. \A i \in Bit : i + (W - 1) < W <=> i = 0
      BY Width DEF Bit
    <3>2. 0 + (W - 1) = W - 1
      BY Width
    <3> QED BY <3>1, <3>2 DEF Sar
  <2>2. Sar(x, W - 1) \subseteq Bit /\ x \subseteq Bit
    BY DEF Sar, Word
  <2>3. Sign \subseteq x <=> W - 1 \in x
    BY DEF Sign
  <2>4. CASE W - 1 \in x
    <3>1. Sar(x, W - 1) = Bit
      BY <2>1, <2>2, <2>4
    <3>2. x5 = Not(x)
      BY <1>1, <2>2, <3>1 DEF Xor, Not
    <3> QED BY <2>3, <2>4, <3>2 DEF Not, Word
  <2>5. CASE W - 1 \notin x
    <3>1. Sar(x, W - 1) = {}
      BY <2>1, <2>2, <2>5
    <3>2. x5 = x
      BY <1>1, <3>1 DEF Xor
    <3> QED BY <2>3, <2>5, <3>2
  <2> QED BY <2>4, <2>5
<1>3. PICK p : Size(x5, p) /\ p = IF x5 = Zero THEN 0 ELSE Max(x5) + 1
  BY <1>2, HasSize
<1>4. p \in 0 .. 31
  BY <1>3 DEF Size
<1>5. test_howManyBits(x) = Lit(p + 1)
  <2>1. x5 = IF Sign \subseteq x THEN Plus(Minus(x), Not(Zero)) ELSE x
    <3>1. Sign \subseteq x => x # Zero
      BY DEF Sign, Zero
    <3> QED BY <1>2, <3>1, MinusOne
  <2> QED BY <1>3, <2>1 DEF test_howManyBits
<1>6. PICK b5, x4 : b5 = Halve(x5, 16) /\ x4 = Sar(x5, b5)
  OBVIOUS
<1>7. PICK b4, x3 : b4 = Halve(x4, 8) /\ x3 = Sar(x4, b4)
  OBVIOUS
<1>8. PICK b3, x2 : b3 = Halve(x3, 4) /\ x2 = Sar(x3, b3)
  OBVIOUS
<1>9. PICK b2, x1 : b2 = Halve(x2, 2) /\ x1 = Sar(x2, b2)
  OBVIOUS
<1>10. PICK b1, b0 : b1 = Halve(x1, 1) /\ b0 = Sar(x1, b1)
  OBVIOUS
<1>11. howManyBits(x) = Plus(Lit(b5 + b4 + b3 + b2 + b1 + 1), b0)
  BY <1>1, <1>6, <1>7, <1>8, <1>9, <1>10 DEF howManyBits
<1>12. /\ 16 \in Nat \ {0} /\ 8 \in Nat \ {0} /\ 4 \in Nat \ {0}
       /\ 2 \in Nat \ {0} /\ 1 \in Nat \ {0}
  OBVIOUS
<1>13. PICK p4 : p4 = p - b5
  OBVIOUS
<1>14. b5 = (IF p > 16 THEN 16 ELSE 0) /\ x4 \in Word /\ Size(x4, p4)
  BY <1>2, <1>3, <1>6, <1>12, <1>13, HalveRight
<1>15. PICK p3 : p3 = p4 - b4
  OBVIOUS
<1>16. b4 = (IF p4 > 8 THEN 8 ELSE 0) /\ x3 \in Word /\ Size(x3, p3)
  BY <1>7, <1>12, <1>14, <1>15, HalveRight
<1>17. PICK p2 : p2 = p3 - b3
  OBVIOUS
<1>18. b3 = (IF p3 > 4 THEN 4 ELSE 0) /\ x2 \in Word /\ Size(x2, p2)
  BY <1>8, <1>12, <1>16, <1>17, HalveRight
<1>19. PICK p1 : p1 = p2 - b2
  OBVIOUS
<1>20. b2 = (IF p2 > 2 THEN 2 ELSE 0) /\ x1 \in Word /\ Size(x1, p1)
  BY <1>9, <1>12, <1>18, <1>19, HalveRight
<1>21. PICK p0 : p0 = p1 - b1
  OBVIOUS
<1>22. b1 = (IF p1 > 1 THEN 1 ELSE 0) /\ b0 \in Word /\ Size(b0, p0)
  BY <1>10, <1>12, <1>20, <1>21, HalveRight
<1>23. p4 \in 0 .. 16 /\ (p4 = 0 <=> p = 0) /\ p = p4 + b5 /\ b5 \in Nat
  BY <1>4, <1>13, <1>14
<1>24. p3 \in 0 .. 8 /\ (p3 = 0 <=> p4 = 0) /\ p4 = p3 + b4 /\ b4 \in Nat
  BY <1>15, <1>16, <1>23
<1>25. p2 \in 0 .. 4 /\ (p2 = 0 <=> p3 = 0) /\ p3 = p2 + b3 /\ b3 \in Nat
  BY <1>17, <1>18, <1>24
<1>26. p1 \in 0 .. 2 /\ (p1 = 0 <=> p2 = 0) /\ p2 = p1 + b2 /\ b2 \in Nat
  BY <1>19, <1>20, <1>25
<1>27. p0 \in 0 .. 1 /\ (p0 = 0 <=> p1 = 0) /\ p1 = p0 + b1 /\ b1 \in Nat
  BY <1>21, <1>22, <1>26
<1>28. b5 + b4 + b3 + b2 + b1 + 1 = (p - p0) + 1
  BY <1>23, <1>24, <1>25, <1>26, <1>27
<1>29. CASE p = 0
  <2>1. p0 = 0
    BY <1>23, <1>24, <1>25, <1>26, <1>27, <1>29
  <2>2. b0 = {}
    BY <1>22, <2>1, Width DEF Size, Word, Bit
  <2>3. (p - p0) + 1 = p + 1
    BY <1>29, <2>1
  <2>4. Plus(Lit(p + 1), {}) = Lit(p + 1)
    BY DEF Plus, Xor, Carries
  <2> QED BY <1>5, <1>11, <1>28, <2>2, <2>3, <2>4
<1>30. CASE p # 0
  <2>1. p0 = 1
    BY <1>23, <1>24, <1>25, <1>26, <1>27, <1>30
  <2>2. b0 = One
    <3>1. 0 \in b0
      BY <1>22, <2>1 DEF Size
    <3>2. \A i \in b0 : i = 0
      BY <1>22, <2>1, Width DEF Size, Word, Bit
    <3> QED BY <3>1, <3>2 DEF One
  <2>3. (p - p0) + 1 = p /\ p \in 0 .. 62
    BY <1>4, <2>1
  <2>4. Plus(Lit(p), One) = Lit(p + 1)
    BY <2>3, LitIncrement
  <2> QED BY <1>5, <1>11, <1>28, <2>2, <2>3, <2>4
<1> QED BY <1>29, <1>30

-----------------------------------------------------------------------------
(* The number of a word.                                                   *)

\* The number of x >> i, if t is what is left when all bits are shifted out.
Shifts(g, x, t) ==
  /\ g \in [0 .. W -> Int]
  /\ g[W] = t
  /\ \A i \in Bit : g[i] = 2 * g[i + 1] + (IF i \in x THEN 1 ELSE 0)

\* What holds of a bit, and of any bit below one of which it holds, holds of 0.
LEMMA Falling ==
  ASSUME NEW S, NEW top \in 0 .. W, top \in S,
         \A i \in 0 .. top - 1 : i + 1 \in S => i \in S
  PROVE  \A i \in 0 .. top : i \in S
<1> DEFINE T == {n \in Nat : n <= top /\ top - n \notin S}
<1>0. top \in Nat
  BY Width
<1> SUFFICES ASSUME T # {} PROVE FALSE
  <2> SUFFICES ASSUME NEW i \in 0 .. top, i \notin S PROVE T # {}
    OBVIOUS
  <2>1. top - i \in Nat /\ top - i <= top /\ top - (top - i) = i
    BY <1>0
  <2> QED BY <2>1
<1>1. T \subseteq Nat
  OBVIOUS
<1>2. PICK n \in T : \A y \in T : ~ (<<y, n>> \in OpToRel(<, Nat))
  <2> HIDE DEF T
  <2> QED BY <1>1, WFMin, NatLessThanWellFounded
<1>3. n \in Nat /\ n <= top /\ top - n \notin S /\ n # 0
  BY <1>0
<1>4. n - 1 \in Nat /\ n - 1 <= top /\ n - 1 < n
  BY <1>0, <1>3
<1>5. n - 1 \notin T
  <2> HIDE DEF T
  <2> QED BY <1>2, <1>3, <1>4 DEF OpToRel
<1>6. top - (n - 1) \in S
  BY <1>4, <1>5
<1>7. top - n \in 0 .. top - 1 /\ (top - n) + 1 = top - (n - 1)
  BY <1>0, <1>3
<1> QED BY <1>3, <1>6, <1>7

\* There is such a number ...
LEMMA ShiftsExist ==
  ASSUME NEW x, NEW t \in Int
  PROVE  \E g : Shifts(g, x, t)
<1> DEFINE Down(g, k) == /\ g \in [k .. W -> Int]
                         /\ g[W] = t
                         /\ \A i \in k .. W - 1 :
                              g[i] = 2 * g[i + 1] + (IF i \in x THEN 1 ELSE 0)
           S == {k \in 0 .. W : \E g : Down(g, k)}
<1>0. W \in Nat
  BY Width
<1>1. W \in S
  <2> DEFINE g == [i \in W .. W |-> t]
  <2>1. g \in [W .. W -> Int] /\ g[W] = t /\ W .. W - 1 = {}
    BY <1>0
  <2> HIDE DEF g
  <2>2. Down(g, W)
    BY <2>1
  <2> QED BY <1>0, <2>2
<1>2. ASSUME NEW k \in 0 .. W - 1, k + 1 \in S PROVE k \in S
  <2>1. PICK g : Down(g, k + 1)
    BY <1>2
  <2> DEFINE h == [i \in k .. W |-> IF i = k
                                   THEN 2 * g[k + 1] + (IF k \in x THEN 1 ELSE 0)
                                   ELSE g[i]]
  <2>2. k \in Int /\ k < W /\ k + 1 \in k + 1 .. W
    BY <1>0
  <2>3. \A i \in k + 1 .. W : h[i] = g[i] /\ g[i] \in Int
    BY <1>0, <2>1, <2>2
  <2>4. h[k] = 2 * g[k + 1] + (IF k \in x THEN 1 ELSE 0) /\ g[k + 1] \in Int
    BY <1>0, <2>1, <2>2
  <2>5. DOMAIN h = k .. W /\ h = [i \in k .. W |-> h[i]]
    OBVIOUS
  <2> HIDE DEF h
  <2>6. \A i \in k .. W : h[i] \in Int
    BY <1>0, <2>2, <2>3, <2>4
  <2>7. h[W] = t
    BY <1>0, <2>1, <2>2, <2>3
  <2>8. \A i \in k .. W - 1 : h[i] = 2 * h[i + 1] + (IF i \in x THEN 1 ELSE 0)
    <3> SUFFICES ASSUME NEW i \in k .. W - 1
                 PROVE  h[i] = 2 * h[i + 1] + (IF i \in x THEN 1 ELSE 0)
      OBVIOUS
    <3>1. CASE i = k
      BY <2>2, <2>3, <2>4, <3>1
    <3>2. CASE i # k
      <4>1. i \in (k + 1) .. (W - 1) /\ i \in k + 1 .. W /\ i + 1 \in k + 1 .. W
        BY <1>0, <2>2, <3>2
      <4>2. g[i] = 2 * g[i + 1] + (IF i \in x THEN 1 ELSE 0)
        BY <2>1, <4>1
      <4> QED BY <2>3, <4>1, <4>2
    <3> QED BY <3>1, <3>2
  <2>9. h \in [k .. W -> Int]
    BY <2>5, <2>6
  <2>10. Down(h, k)
    BY <2>7, <2>8, <2>9
  <2>11. k \in 0 .. W
    BY <1>0
  <2> QED BY <2>10, <2>11
<1>3. 0 \in 0 .. W /\ W \in 0 .. W
  BY <1>0
<1>4. 0 \in S
  <2> HIDE DEF S
  <2> QED BY <1>1, <1>2, <1>3, Falling
<1>5. PICK g : Down(g, 0)
  BY <1>4
<1> QED BY <1>5 DEF Shifts, Bit

\* ... and no other.
LEMMA ShiftsUnique ==
  ASSUME NEW x, NEW t \in Int, NEW f, Shifts(f, x, t), NEW g, Shifts(g, x, t)
  PROVE  f = g
<1> DEFINE S == {i \in 0 .. W : f[i] = g[i]}
<1>0. W \in Nat /\ W \in 0 .. W
  BY Width
<1>1. W \in S
  BY <1>0 DEF Shifts
<1>2. ASSUME NEW i \in 0 .. W - 1, i + 1 \in S PROVE i \in S
  BY <1>0, <1>2 DEF Shifts, Bit
<1>3. \A i \in 0 .. W : i \in S
  <2> HIDE DEF S
  <2> QED BY <1>0, <1>1, <1>2, Falling
<1>4. f = [i \in 0 .. W |-> f[i]] /\ g = [i \in 0 .. W |-> g[i]]
  BY DEF Shifts
<1> QED BY <1>3, <1>4

\* Val computes it from 0.
LEMMA ValIs ==
  ASSUME NEW x, NEW g, Shifts(g, x, 0)
  PROVE  Val(x) = g[0]
<1> DEFINE Def(f) == f = [i \in 0 .. W |->
              IF i = W THEN 0 ELSE 2 * f[i + 1] + (IF i \in x THEN 1 ELSE 0)]
           shifted == CHOOSE f : Def(f)
<1>0. W \in Nat /\ W \in 0 .. W
  BY Width
<1>1. Val(x) = shifted[0]
  BY DEF Val
<1>2. Def(g)
  <2>1. \A i \in 0 .. W : g[i] = IF i = W THEN 0
                                 ELSE 2 * g[i + 1] + (IF i \in x THEN 1 ELSE 0)
    <3> SUFFICES ASSUME NEW i \in 0 .. W, i # W
                 PROVE  g[i] = 2 * g[i + 1] + (IF i \in x THEN 1 ELSE 0)
      BY DEF Shifts
    <3>1. i \in Bit
      BY <1>0 DEF Bit
    <3> QED BY <3>1 DEF Shifts
  <2>2. g = [i \in 0 .. W |-> g[i]]
    BY DEF Shifts
  <2> QED BY <2>1, <2>2
<1>3. Def(shifted)
  <2> HIDE DEF Def
  <2> QED BY <1>2
<1> HIDE DEF shifted
<1>4. /\ shifted[W] = 0 /\ DOMAIN shifted = 0 .. W
      /\ shifted = [i \in 0 .. W |-> shifted[i]]
  BY <1>0, <1>3
<1>5. \A i \in 0 .. W - 1 :
        shifted[i] = 2 * shifted[i + 1] + (IF i \in x THEN 1 ELSE 0)
  BY <1>0, <1>3
<1>6. \A i \in 0 .. W : shifted[i] = g[i]
  <2> DEFINE S == {i \in 0 .. W : shifted[i] = g[i]}
  <2>1. W \in S
    BY <1>0, <1>4 DEF Shifts
  <2>2. ASSUME NEW i \in 0 .. W - 1, i + 1 \in S PROVE i \in S
    <3>1. i \in 0 .. W /\ i \in Bit
      BY <1>0 DEF Bit
    <3> QED BY <1>5, <2>2, <3>1 DEF Shifts
  <2>3. \A i \in 0 .. W : i \in S
    <3> HIDE DEF S
    <3> QED BY <1>0, <2>1, <2>2, Falling
  <2> QED BY <2>3
<1>7. 0 \in 0 .. W
  BY <1>0
<1> QED BY <1>1, <1>6, <1>7

\* The number of x as an int.
Leading(x) == IF W - 1 \in x THEN -1 ELSE 0
IntOf(x) == (CHOOSE g : Shifts(g, x, Leading(x)))[0]

LEMMA IntOfIs ==
  ASSUME NEW x
  PROVE  \E g : Shifts(g, x, Leading(x)) /\ IntOf(x) = g[0] /\ g[0] \in Int
<1>1. PICK t \in Int : t = Leading(x)
  BY DEF Leading
<1>2. \E g : Shifts(g, x, t)
  BY ShiftsExist
<1>3. PICK g : g = CHOOSE f : Shifts(f, x, Leading(x))
  OBVIOUS
<1>4. Shifts(g, x, Leading(x))
  BY <1>1, <1>2, <1>3
<1>5. g[0] \in Int
  BY <1>4, Width DEF Shifts
<1> QED BY <1>3, <1>4, <1>5 DEF IntOf

\* A word that is not negative has one number.
LEMMA ValIsIntOf ==
  ASSUME NEW x, W - 1 \notin x
  PROVE  Val(x) = IntOf(x)
<1>1. PICK g : Shifts(g, x, Leading(x)) /\ IntOf(x) = g[0]
  BY IntOfIs
<1>2. Shifts(g, x, 0)
  BY <1>1 DEF Leading
<1> QED BY <1>1, <1>2, ValIs

\* The number that is ahead at some bit, and behind in none above, is ahead.
LEMMA Ahead ==
  ASSUME NEW x, NEW y, NEW s, NEW t, NEW f, Shifts(f, x, s), NEW g, Shifts(g, y, t),
         NEW d \in 0 .. W, f[d] < g[d]
  PROVE  f[0] < g[0]
<1> DEFINE S == {i \in 0 .. W : f[i] < g[i]}
<1>1. d \in S
  OBVIOUS
<1>2. ASSUME NEW i \in 0 .. d - 1, i + 1 \in S PROVE i \in S
  <2>1. i \in Bit /\ i \in 0 .. W /\ i + 1 \in 0 .. W
    BY Width DEF Bit
  <2>2. f[i + 1] \in Int /\ g[i + 1] \in Int /\ f[i + 1] < g[i + 1]
    BY <1>2, <2>1 DEF Shifts
  <2>3. /\ f[i] = 2 * f[i + 1] + (IF i \in x THEN 1 ELSE 0)
        /\ g[i] = 2 * g[i + 1] + (IF i \in y THEN 1 ELSE 0)
    BY <2>1 DEF Shifts
  <2>4. f[i] < g[i]
    BY <2>2, <2>3
  <2> QED BY <2>1, <2>4
<1>3. \A i \in 0 .. d : i \in S
  <2> HIDE DEF S
  <2> QED BY <1>1, <1>2, Falling
<1>4. 0 \in 0 .. d
  BY Width
<1> QED BY <1>3, <1>4

\* Where two words have the same bits, their numbers are the same.
LEMMA Abreast ==
  ASSUME NEW x, NEW y, NEW t, NEW f, Shifts(f, x, t), NEW g, Shifts(g, y, t),
         NEW d \in 0 .. W, \A j \in d .. W - 1 : j \in x <=> j \in y
  PROVE  f[d] = g[d]
<1> DEFINE S == {i \in 0 .. W : i < d \/ f[i] = g[i]}
<1>1. W \in S /\ W \in 0 .. W
  BY Width DEF Shifts
<1>2. ASSUME NEW i \in 0 .. W - 1, i + 1 \in S PROVE i \in S
  <2>1. i \in Bit /\ i \in 0 .. W /\ i + 1 \in 0 .. W
    BY Width DEF Bit
  <2>2. CASE i < d
    BY <2>1, <2>2
  <2>3. CASE i >= d
    <3>1. i \in d .. W - 1 /\ ~ (i + 1 < d)
      BY <2>1, <2>3, Width
    <3>2. f[i + 1] = g[i + 1] /\ (i \in x <=> i \in y)
      BY <1>2, <3>1
    <3>3. f[i] = g[i]
      BY <2>1, <3>2 DEF Shifts
    <3> QED BY <2>1, <3>3
  <2> QED BY <2>1, <2>2, <2>3
<1>3. \A i \in 0 .. W : i \in S
  <2> HIDE DEF S
  <2> QED BY <1>1, <1>2, Falling
<1> QED BY <1>3

\* Words are ordered as their numbers.
LEMMA OrderAt ==
  ASSUME NEW x \in Word, NEW y \in Word, NEW d \in Bit,
         IF d = W - 1 THEN d \in x /\ d \notin y ELSE d \in y /\ d \notin x,
         \A j \in d + 1 .. W - 1 : j \in x <=> j \in y
  PROVE  IntOf(x) < IntOf(y)
<1>1. PICK f : Shifts(f, x, Leading(x)) /\ IntOf(x) = f[0]
  BY IntOfIs
<1>2. PICK g : Shifts(g, y, Leading(y)) /\ IntOf(y) = g[0]
  BY IntOfIs
<1>3. d \in 0 .. W /\ W \in 0 .. W /\ W - 1 \in Int /\ d + 1 \in 0 .. W
  BY Width DEF Bit
<1>4. CASE d = W - 1
  <2>1. f[W] = -1 /\ g[W] = 0
    BY <1>1, <1>2, <1>4 DEF Shifts, Leading
  <2>2. f[W] < g[W]
    BY <2>1
  <2> QED BY <1>1, <1>2, <1>3, <2>2, Ahead
<1>5. CASE d # W - 1
  <2>1. W - 1 \in d + 1 .. W - 1
    BY <1>5, Width DEF Bit
  <2>2. PICK t : t = Leading(x) /\ t = Leading(y)
    BY <2>1 DEF Leading
  <2>3. f[d + 1] = g[d + 1]
    BY <1>1, <1>2, <1>3, <2>2, Abreast
  <2>4. f[d + 1] \in Int
    BY <1>1, <1>3 DEF Shifts
  <2>5. f[d] = 2 * f[d + 1] + 0 /\ g[d] = 2 * g[d + 1] + 1
    BY <1>1, <1>2, <1>5 DEF Shifts
  <2>6. f[d] < g[d]
    BY <2>3, <2>4, <2>5
  <2> QED BY <1>1, <1>2, <1>3, <2>6, Ahead
<1> QED BY <1>4, <1>5

LEMMA IntOrder ==
  ASSUME NEW x \in Word, NEW y \in Word
  PROVE  /\ IntOf(x) \in Int /\ IntOf(y) \in Int
         /\ Less(x, y) <=> IntOf(x) < IntOf(y)
         /\ x = y <=> IntOf(x) = IntOf(y)
<1>1. IntOf(x) \in Int /\ IntOf(y) \in Int
  BY IntOfIs
<1>2. CASE x = y
  BY <1>1, <1>2, NotLess
<1>3. CASE x # y
  <2>1. PICK d \in Bit : /\ ~ (d \in x <=> d \in y)
                         /\ \A j \in d + 1 .. W - 1 : j \in x <=> j \in y
    BY <1>3, HighestDifference
  <2>2. Less(x, y) <=> IF d = W - 1 THEN d \in x ELSE d \in y
    BY <2>1, LessAt
  <2>3. CASE IF d = W - 1 THEN d \in x ELSE d \in y
    <3>1. IF d = W - 1 THEN d \in x /\ d \notin y ELSE d \in y /\ d \notin x
      BY <2>1, <2>3
    <3>2. IntOf(x) < IntOf(y)
      BY <2>1, <3>1, OrderAt
    <3> QED BY <1>1, <1>3, <2>2, <2>3, <3>2
  <2>4. CASE ~ (IF d = W - 1 THEN d \in x ELSE d \in y)
    <3>1. IF d = W - 1 THEN d \in y /\ d \notin x ELSE d \in x /\ d \notin y
      BY <2>1, <2>4
    <3>2. \A j \in d + 1 .. W - 1 : j \in y <=> j \in x
      BY <2>1
    <3>3. IntOf(y) < IntOf(x)
      BY <3>1, <3>2, OrderAt
    <3> QED BY <1>1, <1>3, <2>2, <2>4, <3>3
  <2> QED BY <2>3, <2>4
<1> QED BY <1>1, <1>2, <1>3

\* At least two of three.
Most(p, q, r) == (p /\ q) \/ (p /\ r) \/ (q /\ r)

\* A carry goes on from a bit of which at least two are one.
LEMMA CarryOn ==
  ASSUME NEW x \in Word, NEW y \in Word, NEW i \in 0 .. W - 2
  PROVE  i + 1 \in Carries(x, y) <=> Most(i \in x, i \in y, i \in Carries(x, y))
<1>0. i \in Bit /\ i + 1 \in Bit /\ i \in Int /\ (i + 1) - 1 = i
  BY Width DEF Bit
<1>1. i + 1 \in Carries(x, y) <=>
        \E j \in 0 .. i : j \in x \cap y /\ \A k \in j + 1 .. i : k \in x \cup y
  BY <1>0 DEF Carries
<1>2. i \in Carries(x, y) <=>
        \E j \in 0 .. i - 1 : j \in x \cap y /\ \A k \in j + 1 .. i - 1 : k \in x \cup y
  BY <1>0 DEF Carries
<1>3. ASSUME i \in x, i \in y PROVE i + 1 \in Carries(x, y)
  <2>1. i \in 0 .. i /\ i + 1 .. i = {}
    BY <1>0
  <2> QED BY <1>1, <1>3, <2>1
<1>4. ASSUME i \in x \/ i \in y, i \in Carries(x, y) PROVE i + 1 \in Carries(x, y)
  <2>1. PICK j \in 0 .. i - 1 : j \in x \cap y /\ \A k \in j + 1 .. i - 1 : k \in x \cup y
    BY <1>2, <1>4
  <2>2. j \in 0 .. i /\ \A k \in j + 1 .. i : k = i \/ k \in j + 1 .. i - 1
    BY <1>0, <2>1
  <2>3. \A k \in j + 1 .. i : k \in x \cup y
    BY <1>4, <2>1, <2>2
  <2> QED BY <1>1, <2>1, <2>2, <2>3
<1>5. ASSUME i + 1 \in Carries(x, y)
      PROVE  (i \in x /\ i \in y) \/ ((i \in x \/ i \in y) /\ i \in Carries(x, y))
  <2>1. PICK j \in 0 .. i : j \in x \cap y /\ \A k \in j + 1 .. i : k \in x \cup y
    BY <1>1, <1>5
  <2>2. CASE j = i
    BY <2>1, <2>2
  <2>3. CASE j # i
    <3>1. j \in 0 .. i - 1 /\ i \in j + 1 .. i /\ \A k \in j + 1 .. i - 1 : k \in j + 1 .. i
      BY <1>0, <2>1, <2>3
    <3>2. i \in x \cup y /\ \A k \in j + 1 .. i - 1 : k \in x \cup y
      BY <2>1, <3>1
    <3> QED BY <1>2, <2>1, <3>1, <3>2
  <2> QED BY <2>2, <2>3
<1> QED BY <1>3, <1>4, <1>5 DEF Most

\* A sum has the sum of the numbers, if that is so of what is left when all bits
\* are shifted out, with the carry out of the sign.
LEMMA SumOf ==
  ASSUME NEW x \in Word, NEW y \in Word, NEW s, NEW t, NEW u,
         NEW f, Shifts(f, x, s), NEW g, Shifts(g, y, t), NEW h, Shifts(h, Plus(x, y), u),
         u = s + t + (IF Most(W - 1 \in x, W - 1 \in y, W - 1 \in Carries(x, y))
                      THEN 1 ELSE 0)
  PROVE  h[0] = f[0] + g[0]
<1> DEFINE c(i) == IF i \in Carries(x, y) THEN 1 ELSE 0
           S == {i \in Bit : h[i] = f[i] + g[i] + c(i)}
<1>0. W \in Nat /\ W - 1 \in Bit /\ W - 1 \in 0 .. W /\ (W - 1) + 1 = W /\ 0 \in Bit
  BY Width
<1>1. \A i \in Bit : /\ f[i] = 2 * f[i + 1] + (IF i \in x THEN 1 ELSE 0)
                     /\ g[i] = 2 * g[i + 1] + (IF i \in y THEN 1 ELSE 0)
                     /\ h[i] = 2 * h[i + 1] + (IF i \in Plus(x, y) THEN 1 ELSE 0)
  BY DEF Shifts
<1>2. \A i \in 0 .. W : f[i] \in Int /\ g[i] \in Int /\ h[i] \in Int
  BY DEF Shifts
<1>3. f[W] = s /\ g[W] = t /\ h[W] = u
  BY DEF Shifts
<1>4. ASSUME NEW i \in Bit,
             h[i + 1] = f[i + 1] + g[i + 1]
                          + (IF Most(i \in x, i \in y, i \in Carries(x, y)) THEN 1 ELSE 0)
      PROVE  i \in S
  <2>1. i \in 0 .. W /\ i + 1 \in 0 .. W
    BY <1>0 DEF Bit
  <2>2. i \in Plus(x, y) <=> ~ ((i \in x <=> i \notin y) <=> i \in Carries(x, y))
    BY PlusBit
  <2>3. PICK p, q, r, d, m :
          /\ p = (IF i \in x THEN 1 ELSE 0) /\ q = (IF i \in y THEN 1 ELSE 0)
          /\ r = (IF i \in Carries(x, y) THEN 1 ELSE 0)
          /\ d = (IF i \in Plus(x, y) THEN 1 ELSE 0)
          /\ m = (IF Most(i \in x, i \in y, i \in Carries(x, y)) THEN 1 ELSE 0)
    OBVIOUS
  <2>4. /\ p \in Int /\ q \in Int /\ r \in Int /\ d \in Int /\ m \in Int
        /\ p + q + r = d + 2 * m
    BY <2>2, <2>3 DEF Most
  <2>5. PICK f1 \in Int, g1 \in Int, h1 \in Int :
          f1 = f[i + 1] /\ g1 = g[i + 1] /\ h1 = h[i + 1]
    BY <1>2, <2>1
  <2>6. f[i] = 2 * f1 + p /\ g[i] = 2 * g1 + q /\ h[i] = 2 * h1 + d /\ h1 = f1 + g1 + m
    BY <1>1, <1>4, <2>3, <2>5
  <2>7. h[i] = f[i] + g[i] + r
    BY <2>4, <2>6
  <2>8. c(i) = r
    BY <2>3
  <2> HIDE DEF c
  <2> QED BY <2>7, <2>8
<1>5. W - 1 \in S
  <2> HIDE DEF S
  <2> QED BY <1>0, <1>3, <1>4
<1>6. ASSUME NEW i \in 0 .. (W - 1) - 1, i + 1 \in S PROVE i \in S
  <2>1. i \in 0 .. W - 2 /\ i \in Bit
    BY <1>0 DEF Bit
  <2>2. i + 1 \in Carries(x, y) <=> Most(i \in x, i \in y, i \in Carries(x, y))
    BY <2>1, CarryOn
  <2>3. h[i + 1] = f[i + 1] + g[i + 1] + (IF i + 1 \in Carries(x, y) THEN 1 ELSE 0)
    BY <1>6
  <2> HIDE DEF S
  <2> QED BY <1>4, <2>1, <2>2, <2>3
<1>7. \A i \in 0 .. W - 1 : i \in S
  <2> HIDE DEF S
  <2> QED BY <1>0, <1>5, <1>6, Falling
<1>8. h[0] = f[0] + g[0] + c(0) /\ 0 \in 0 .. W /\ 0 .. 0 - 1 = {}
  BY <1>0, <1>7 DEF Bit
<1>9. c(0) = 0
  BY <1>8 DEF Carries
<1> HIDE DEF c
<1> QED BY <1>2, <1>8, <1>9

\* Adding adds the numbers: always if one word is negative and one is not, ...
LEMMA IntOfPlus ==
  ASSUME NEW x \in Word, NEW y \in Word,
         \/ W - 1 \in x /\ W - 1 \notin y
         \/ W - 1 \notin x /\ W - 1 \in y
         \/ W - 1 \notin x /\ W - 1 \notin y /\ W - 1 \notin Plus(x, y)
  PROVE  IntOf(Plus(x, y)) = IntOf(x) + IntOf(y)
<1>1. PICK f : Shifts(f, x, Leading(x)) /\ IntOf(x) = f[0]
  BY IntOfIs
<1>2. PICK g : Shifts(g, y, Leading(y)) /\ IntOf(y) = g[0]
  BY IntOfIs
<1>3. PICK h : Shifts(h, Plus(x, y), Leading(Plus(x, y))) /\ IntOf(Plus(x, y)) = h[0]
  BY IntOfIs
<1>4. W - 1 \in Plus(x, y) <=>
        ~ ((W - 1 \in x <=> W - 1 \notin y) <=> W - 1 \in Carries(x, y))
  BY PlusBit
<1>5. Leading(Plus(x, y)) = Leading(x) + Leading(y) +
        (IF Most(W - 1 \in x, W - 1 \in y, W - 1 \in Carries(x, y)) THEN 1 ELSE 0)
  BY <1>4 DEF Leading, Most
<1> QED BY <1>1, <1>2, <1>3, <1>5, SumOf

\* ... and if neither is, unless the sum is larger than the largest int.
LEMMA IntOfOverflow ==
  ASSUME NEW x \in Word, NEW y \in Word, W - 1 \notin x, W - 1 \notin y,
         W - 1 \in Plus(x, y)
  PROVE  IntOf(Not(Sign)) < IntOf(x) + IntOf(y)
<1>1. PICK f : Shifts(f, x, 0) /\ IntOf(x) = f[0]
  BY IntOfIs DEF Leading
<1>2. PICK g : Shifts(g, y, 0) /\ IntOf(y) = g[0]
  BY IntOfIs DEF Leading
<1>3. PICK h : Shifts(h, Plus(x, y), 0)
  BY ShiftsExist
<1>4. (IF Most(W - 1 \in x, W - 1 \in y, W - 1 \in Carries(x, y)) THEN 1 ELSE 0) = 0
  BY DEF Most
<1>5. 0 = 0 + 0 + (IF Most(W - 1 \in x, W - 1 \in y, W - 1 \in Carries(x, y))
                   THEN 1 ELSE 0)
  BY <1>4
<1>6. h[0] = f[0] + g[0]
  BY <1>1, <1>2, <1>3, <1>5, SumOf
<1>7. W - 1 \notin Not(Sign)
  BY DEF Not, Sign
<1>8. PICK m : Shifts(m, Not(Sign), 0) /\ IntOf(Not(Sign)) = m[0]
  BY <1>7, IntOfIs DEF Leading
<1>9. W - 1 \in Bit /\ W - 1 \in 0 .. W /\ (W - 1) + 1 = W
  BY Width
<1>10. m[W - 1] = 0
  BY <1>7, <1>8, <1>9 DEF Shifts
<1>11. h[W - 1] = 1
  BY <1>3, <1>9 DEF Shifts
<1>12. m[W - 1] < h[W - 1]
  BY <1>10, <1>11
<1>13. m[0] < h[0]
  BY <1>3, <1>8, <1>9, <1>12, Ahead
<1> QED BY <1>1, <1>2, <1>6, <1>8, <1>13

LEMMA IntOfNot ==
  ASSUME NEW x \in Word
  PROVE  IntOf(Not(x)) = -1 - IntOf(x)
<1>1. PICK f : Shifts(f, x, Leading(x)) /\ IntOf(x) = f[0]
  BY IntOfIs
<1>2. PICK g : Shifts(g, Not(x), Leading(Not(x))) /\ IntOf(Not(x)) = g[0]
  BY IntOfIs
<1> DEFINE S == {i \in 0 .. W : g[i] = -1 - f[i]}
<1>0. W \in 0 .. W /\ 0 \in 0 .. W
  BY Width
<1>3. W \in S
  <2>1. f[W] = Leading(x) /\ g[W] = Leading(Not(x))
    BY <1>1, <1>2 DEF Shifts
  <2>2. W - 1 \in Not(x) <=> W - 1 \notin x
    BY Width DEF Not
  <2>3. g[W] = -1 - f[W]
    BY <2>1, <2>2 DEF Leading
  <2> QED BY <1>0, <2>3
<1>4. ASSUME NEW i \in 0 .. W - 1, i + 1 \in S PROVE i \in S
  <2>1. i \in 0 .. W /\ i \in Bit /\ i + 1 \in 0 .. W
    BY Width DEF Bit
  <2>2. f[i + 1] \in Int /\ g[i + 1] = -1 - f[i + 1]
    BY <1>1, <1>4, <2>1 DEF Shifts
  <2>3. i \in Not(x) <=> i \notin x
    BY <2>1 DEF Not
  <2>4. /\ f[i] = 2 * f[i + 1] + (IF i \in x THEN 1 ELSE 0)
        /\ g[i] = 2 * g[i + 1] + (IF i \in Not(x) THEN 1 ELSE 0)
    BY <1>1, <1>2, <2>1 DEF Shifts
  <2>5. g[i] = -1 - f[i]
    BY <2>2, <2>3, <2>4
  <2> QED BY <2>1, <2>5
<1>5. \A i \in 0 .. W : i \in S
  <2> HIDE DEF S
  <2> QED BY <1>0, <1>3, <1>4, Falling
<1> QED BY <1>0, <1>1, <1>2, <1>5

\* A word of eight bits has the sum of their weights.
BitOf(x, i) == IF i \in x THEN 1 ELSE 0

LEMMA SmallNumber ==
  ASSUME W = 32, NEW x, x \subseteq 0 .. 7
  PROVE  IntOf(x) = BitOf(x, 0) + 2 * BitOf(x, 1) + 4 * BitOf(x, 2) + 8 * BitOf(x, 3)
                      + 16 * BitOf(x, 4) + 32 * BitOf(x, 5) + 64 * BitOf(x, 6)
                      + 128 * BitOf(x, 7)
<1>1. W - 1 \notin x
  OBVIOUS
<1>2. PICK f : Shifts(f, x, 0) /\ IntOf(x) = f[0]
  BY <1>1, IntOfIs DEF Leading
<1> DEFINE S == {i \in 0 .. W : i < 8 \/ f[i] = 0}
<1>3. W \in S /\ W \in 0 .. W
  BY <1>2 DEF Shifts
<1>4. ASSUME NEW i \in 0 .. W - 1, i + 1 \in S PROVE i \in S
  <2>1. i \in Bit /\ i \in 0 .. W
    BY Width DEF Bit
  <2>2. CASE i < 8
    BY <2>1, <2>2
  <2>3. CASE i >= 8
    <3>1. f[i + 1] = 0 /\ i \notin x
      BY <1>4, <2>3
    <3>2. f[i] = 0
      BY <1>2, <2>1, <3>1 DEF Shifts
    <3> QED BY <2>1, <3>2
  <2> QED BY <2>1, <2>2, <2>3
<1>5. \A i \in 0 .. W : i \in S
  <2> HIDE DEF S
  <2> QED BY <1>3, <1>4, Falling
<1>6. f[8] = 0
  BY <1>5
<1>7. \A i \in 0 .. 7 : f[i] = 2 * f[i + 1] + BitOf(x, i)
  BY <1>2 DEF Shifts, Bit, BitOf
<1>8. /\ f[7] = 2 * f[8] + BitOf(x, 7) /\ f[6] = 2 * f[7] + BitOf(x, 6)
      /\ f[5] = 2 * f[6] + BitOf(x, 5) /\ f[4] = 2 * f[5] + BitOf(x, 4)
      /\ f[3] = 2 * f[4] + BitOf(x, 3) /\ f[2] = 2 * f[3] + BitOf(x, 2)
      /\ f[1] = 2 * f[2] + BitOf(x, 1) /\ f[0] = 2 * f[1] + BitOf(x, 0)
  BY <1>7
<1>9. \A i \in 0 .. 7 : BitOf(x, i) \in Int
  BY DEF BitOf
<1>10. /\ BitOf(x, 0) \in Int /\ BitOf(x, 1) \in Int /\ BitOf(x, 2) \in Int
       /\ BitOf(x, 3) \in Int /\ BitOf(x, 4) \in Int /\ BitOf(x, 5) \in Int
       /\ BitOf(x, 6) \in Int /\ BitOf(x, 7) \in Int
  BY <1>9
<1> QED BY <1>2, <1>6, <1>8, <1>10

\* Literals of eight bits are the words of their numbers ...
LEMMA IntOfLit ==
  ASSUME W = 32, NEW n \in 0 .. 255
  PROVE  /\ Lit(n) \subseteq 0 .. 7 /\ Lit(n) \in Word /\ W - 1 \notin Lit(n)
         /\ IntOf(Lit(n)) = n
<1>1. /\ Digit(n, 8) = 0 /\ Digit(n, 9) = 0 /\ Digit(n, 10) = 0
      /\ Digit(n, 11) = 0 /\ Digit(n, 12) = 0 /\ Digit(n, 13) = 0 /\ Digit(n, 14) = 0
      /\ Digit(n, 15) = 0 /\ Digit(n, 16) = 0 /\ Digit(n, 17) = 0 /\ Digit(n, 18) = 0
      /\ Digit(n, 19) = 0 /\ Digit(n, 20) = 0 /\ Digit(n, 21) = 0 /\ Digit(n, 22) = 0
      /\ Digit(n, 23) = 0 /\ Digit(n, 24) = 0 /\ Digit(n, 25) = 0 /\ Digit(n, 26) = 0
      /\ Digit(n, 27) = 0 /\ Digit(n, 28) = 0 /\ Digit(n, 29) = 0 /\ Digit(n, 30) = 0
  BY DEF Digit
<1>2. \A i \in 8 .. 30 : Digit(n, i) = 0
  BY <1>1
<1>3. Lit(n) \subseteq 0 .. 7
  <2> SUFFICES ASSUME NEW i \in Lit(n) PROVE i \in 0 .. 7
    OBVIOUS
  <2>1. i \in 0 .. 30 /\ Digit(n, i) = 1
    BY LitBit DEF Bit
  <2> QED BY <1>2, <2>1
<1>4. Lit(n) \in Word /\ W - 1 \notin Lit(n)
  BY <1>3 DEF Word, Lit
<1>5. \A i \in 0 .. 7 : BitOf(Lit(n), i) = IF Digit(n, i) = 1 THEN 1 ELSE 0
  BY LitBit DEF BitOf, Bit
<1>6. PICK a0, a1, a2, a3, a4, a5, a6, a7 :
        /\ a0 = Digit(n, 0) /\ a1 = Digit(n, 1) /\ a2 = Digit(n, 2) /\ a3 = Digit(n, 3)
        /\ a4 = Digit(n, 4) /\ a5 = Digit(n, 5) /\ a6 = Digit(n, 6) /\ a7 = Digit(n, 7)
  OBVIOUS
<1>7. /\ a0 \in {0, 1} /\ a1 \in {0, 1} /\ a2 \in {0, 1} /\ a3 \in {0, 1}
      /\ a4 \in {0, 1} /\ a5 \in {0, 1} /\ a6 \in {0, 1} /\ a7 \in {0, 1}
      /\ n = a0 + 2 * a1 + 4 * a2 + 8 * a3 + 16 * a4 + 32 * a5 + 64 * a6 + 128 * a7
  BY <1>6 DEF Digit
<1>8. /\ BitOf(Lit(n), 0) = a0 /\ BitOf(Lit(n), 1) = a1 /\ BitOf(Lit(n), 2) = a2
      /\ BitOf(Lit(n), 3) = a3 /\ BitOf(Lit(n), 4) = a4 /\ BitOf(Lit(n), 5) = a5
      /\ BitOf(Lit(n), 6) = a6 /\ BitOf(Lit(n), 7) = a7
  <2>1. PICK x : x = Lit(n)
    OBVIOUS
  <2>2. \A i \in 0 .. 7 : BitOf(x, i) = IF Digit(n, i) = 1 THEN 1 ELSE 0
    BY <1>5, <2>1
  <2>3. /\ BitOf(x, 0) = (IF a0 = 1 THEN 1 ELSE 0) /\ BitOf(x, 1) = (IF a1 = 1 THEN 1 ELSE 0)
        /\ BitOf(x, 2) = (IF a2 = 1 THEN 1 ELSE 0) /\ BitOf(x, 3) = (IF a3 = 1 THEN 1 ELSE 0)
        /\ BitOf(x, 4) = (IF a4 = 1 THEN 1 ELSE 0) /\ BitOf(x, 5) = (IF a5 = 1 THEN 1 ELSE 0)
        /\ BitOf(x, 6) = (IF a6 = 1 THEN 1 ELSE 0) /\ BitOf(x, 7) = (IF a7 = 1 THEN 1 ELSE 0)
    BY <1>6, <2>2
  <2> QED BY <1>7, <2>1, <2>3
<1> QED BY <1>3, <1>4, <1>7, <1>8, SmallNumber

\* ... and there are no other words of eight bits.
LEMMA SmallIsLit ==
  ASSUME W = 32, NEW x, x \subseteq 0 .. 7
  PROVE  /\ x \in Word /\ W - 1 \notin x
         /\ IntOf(x) \in 0 .. 255 /\ Lit(IntOf(x)) = x
<1>1. x \in Word /\ W - 1 \notin x
  BY DEF Word, Bit
<1>2. /\ BitOf(x, 0) \in {0, 1} /\ BitOf(x, 1) \in {0, 1} /\ BitOf(x, 2) \in {0, 1}
      /\ BitOf(x, 3) \in {0, 1} /\ BitOf(x, 4) \in {0, 1} /\ BitOf(x, 5) \in {0, 1}
      /\ BitOf(x, 6) \in {0, 1} /\ BitOf(x, 7) \in {0, 1}
  BY DEF BitOf
<1>3. IntOf(x) \in 0 .. 255
  <2>1. IntOf(x) = BitOf(x, 0) + 2 * BitOf(x, 1) + 4 * BitOf(x, 2)
          + 8 * BitOf(x, 3) + 16 * BitOf(x, 4) + 32 * BitOf(x, 5)
          + 64 * BitOf(x, 6) + 128 * BitOf(x, 7)
    BY SmallNumber
  <2> QED BY <1>2, <2>1
<1>4. PICK n \in 0 .. 255 : n = IntOf(x)
  BY <1>3
<1>5. Lit(n) \in Word /\ IntOf(Lit(n)) = IntOf(x)
  BY <1>4, IntOfLit
<1>6. Lit(n) = x
  BY <1>1, <1>5, IntOrder
<1> QED BY <1>1, <1>3, <1>4, <1>6

\* Negating a word negates its number, but for the least int.
LEMMA IntOfMinus ==
  ASSUME W = 32, NEW x \in Word, x # Sign
  PROVE  Minus(x) \in Word /\ IntOf(Minus(x)) = - IntOf(x)
<1>1. Minus(x) = Plus(Not(x), One) /\ Minus(x) \in Word
  BY NegateRight DEF negate, test_negate, Minus, Word
<1>2. One \in Word /\ W - 1 \notin One /\ One \subseteq 0 .. 7 /\ Not(x) \in Word
  BY DEF One, Word, Not, Bit
<1>3. IntOf(One) = 1
  <2>1. /\ BitOf(One, 0) = 1 /\ BitOf(One, 1) = 0 /\ BitOf(One, 2) = 0
        /\ BitOf(One, 3) = 0 /\ BitOf(One, 4) = 0 /\ BitOf(One, 5) = 0
        /\ BitOf(One, 6) = 0 /\ BitOf(One, 7) = 0
    BY DEF BitOf, One
  <2>2. IntOf(One) = BitOf(One, 0) + 2 * BitOf(One, 1) + 4 * BitOf(One, 2)
          + 8 * BitOf(One, 3) + 16 * BitOf(One, 4) + 32 * BitOf(One, 5)
          + 64 * BitOf(One, 6) + 128 * BitOf(One, 7)
    BY <1>2, SmallNumber
  <2> QED BY <2>1, <2>2
<1>4. \/ W - 1 \in Not(x)
      \/ W - 1 \notin Not(x) /\ W - 1 \notin Plus(Not(x), One)
  <2>1. CASE W - 1 \notin x
    BY <2>1, Width DEF Not
  <2>2. CASE W - 1 \in x
    <3>1. PICK j \in x : j # W - 1
      BY <2>2 DEF Sign
    <3>2. j \in Bit
      BY DEF Word
    <3>3. ~ (W - 1 <= j)
      BY <3>1, <3>2 DEF Bit
    <3>4. W - 1 \notin Minus(x)
      BY <2>2, <3>1, <3>3 DEF Minus
    <3> QED BY <1>1, <2>2, <3>4 DEF Not
  <2> QED BY <2>1, <2>2
<1>5. IntOf(Plus(Not(x), One)) = IntOf(Not(x)) + IntOf(One)
  BY <1>2, <1>4, IntOfPlus
<1>6. IntOf(x) \in Int
  BY IntOrder
<1> QED BY <1>1, <1>3, <1>5, <1>6, IntOfNot

\* Two words that have the same opposite are the same.
LEMMA MinusDiffers ==
  ASSUME NEW x \in Word, NEW y \in Word, Minus(x) = Minus(y)
  PROVE  x = y
<1>0. x \subseteq Bit /\ y \subseteq Bit /\ \A i \in Bit : i \in Int
  BY Width DEF Word, Bit
<1>1. \A z \in Word : z = Zero => Minus(z) = Zero
  BY DEF Minus, Zero
<1>2. \A z \in Word : z # Zero =>
        \E l \in z : /\ l \in Bit /\ \A j \in z : l <= j
                     /\ \A i \in Bit : i \in Minus(z) <=> i = l \/ (i > l /\ i \notin z)
  BY LowestOne, MinusBits
<1>3. CASE x = Zero \/ y = Zero
  <2>1. \A z \in Word : z # Zero => Minus(z) # Zero
    BY <1>2 DEF Zero
  <2> QED BY <1>1, <1>3, <2>1
<1>4. CASE x # Zero /\ y # Zero
  <2>1. PICK l \in x : /\ l \in Bit /\ \A j \in x : l <= j
                       /\ \A i \in Bit : i \in Minus(x) <=> i = l \/ (i > l /\ i \notin x)
    BY <1>2, <1>4
  <2>2. PICK k \in y : /\ k \in Bit /\ \A j \in y : k <= j
                       /\ \A i \in Bit : i \in Minus(y) <=> i = k \/ (i > k /\ i \notin y)
    BY <1>2, <1>4
  <2>3. l = k
    BY <1>0, <2>1, <2>2
  <2>4. \A i \in Bit : i \in x <=> i \in y
    BY <1>0, <2>1, <2>2, <2>3
  <2> QED BY <1>0, <2>4
<1> QED BY <1>3, <1>4

\* The largest int is not small.
LEMMA TmaxLarge ==
  ASSUME W = 32
  PROVE  /\ Not(Sign) \in Word /\ Sign \in Word /\ W - 1 \notin Not(Sign)
         /\ IntOf(Not(Sign)) > 511 /\ IntOf(Sign) = -1 - IntOf(Not(Sign))
<1>1. /\ Not(Sign) \in Word /\ Sign \in Word /\ W - 1 \notin Not(Sign)
      /\ Not(Not(Sign)) = Sign
  BY DEF Not, Sign, Word, Bit
<1>2. PICK f : Shifts(f, Not(Sign), 0) /\ IntOf(Not(Sign)) = f[0]
  BY <1>1, IntOfIs DEF Leading
<1>3. f[32] = 0 /\ \A i \in 0 .. 31 : f[i] = 2 * f[i + 1] + (IF i = 31 THEN 0 ELSE 1)
  BY <1>2 DEF Shifts, Not, Sign, Bit
<1>4. \A i \in 0 .. 32 : f[i] \in Int
  BY <1>2 DEF Shifts
<1>5. /\ f[31] = 0 /\ f[30] = 1 /\ f[29] = 3 /\ f[28] = 7 /\ f[27] = 15 /\ f[26] = 31
      /\ f[25] = 63 /\ f[24] = 127 /\ f[23] = 255 /\ f[22] = 511 /\ f[21] = 1023
  BY <1>3
<1> DEFINE S == {i \in 0 .. 21 : f[i] > 511}
<1>6. 21 \in S /\ 21 \in 0 .. W
  BY <1>5
<1>7. ASSUME NEW i \in 0 .. 21 - 1, i + 1 \in S PROVE i \in S
  <2>1. f[i + 1] > 511 /\ f[i] = 2 * f[i + 1] + 1 /\ f[i + 1] \in Int
    BY <1>3, <1>4, <1>7
  <2>2. f[i] > 511
    BY <2>1
  <2> QED BY <2>2
<1>8. \A i \in 0 .. 21 : i \in S
  <2> HIDE DEF S
  <2> QED BY <1>6, <1>7, Falling
<1>9. IntOf(Not(Sign)) > 511
  BY <1>2, <1>8
<1>10. IntOf(Sign) = -1 - IntOf(Not(Sign))
  BY <1>1, IntOfNot
<1> QED BY <1>1, <1>9, <1>10

-----------------------------------------------------------------------------
(* The puzzles on floats, of 32 bits with a fraction of 23.                *)

FloatWidths == W = 32 /\ M = 23

LEMMA FloatConstants == FloatWidths => ExpMax = 255 /\ Bias = 127
<1> SUFFICES ASSUME FloatWidths PROVE ExpMax = 255 /\ Bias = 127
  OBVIOUS
<1>1. W - 1 - M = 8 /\ W - 2 - M = 7
  BY DEF FloatWidths
<1>2. 2 ^ 8 - 1 = 255 /\ 2 ^ 7 - 1 = 127
  OBVIOUS
<1>3. ExpMax = 2 ^ 8 - 1 /\ Bias = 2 ^ 7 - 1
  BY <1>1, Zenon DEF ExpMax, Bias
<1> QED BY <1>2, <1>3

\* The literals without ones and with eight of them.
LEMMA LitEnds == W = 32 => Lit(0) = {} /\ Lit(255) = 0 .. 7
<1> SUFFICES ASSUME W = 32 PROVE Lit(0) = {} /\ Lit(255) = 0 .. 7
  OBVIOUS
<1>1. IntOf({}) = 0 /\ IntOf(0 .. 7) = 255
  <2>1. IntOf({}) = BitOf({}, 0) + 2 * BitOf({}, 1) + 4 * BitOf({}, 2)
          + 8 * BitOf({}, 3) + 16 * BitOf({}, 4) + 32 * BitOf({}, 5)
          + 64 * BitOf({}, 6) + 128 * BitOf({}, 7)
    BY SmallNumber
  <2>2. PICK f : f = 0 .. 7
    OBVIOUS
  <2>3. IntOf(f) = BitOf(f, 0) + 2 * BitOf(f, 1) + 4 * BitOf(f, 2)
          + 8 * BitOf(f, 3) + 16 * BitOf(f, 4) + 32 * BitOf(f, 5)
          + 64 * BitOf(f, 6) + 128 * BitOf(f, 7)
    BY <2>2, SmallNumber
  <2>4. \A i \in 0 .. 7 : BitOf({}, i) = 0 /\ BitOf(f, i) = 1
    BY <2>2 DEF BitOf
  <2>5. /\ BitOf({}, 0) = 0 /\ BitOf({}, 1) = 0 /\ BitOf({}, 2) = 0 /\ BitOf({}, 3) = 0
        /\ BitOf({}, 4) = 0 /\ BitOf({}, 5) = 0 /\ BitOf({}, 6) = 0 /\ BitOf({}, 7) = 0
        /\ BitOf(f, 0) = 1 /\ BitOf(f, 1) = 1 /\ BitOf(f, 2) = 1 /\ BitOf(f, 3) = 1
        /\ BitOf(f, 4) = 1 /\ BitOf(f, 5) = 1 /\ BitOf(f, 6) = 1 /\ BitOf(f, 7) = 1
    BY <2>4
  <2>6. IntOf({}) = 0 /\ IntOf(f) = 255
    BY <2>1, <2>3, <2>5
  <2> QED BY <2>2, <2>6
<1>2. Lit(0) = {} /\ Lit(255) = 0 .. 7
  <2>1. {} \subseteq 0 .. 7 /\ 0 .. 7 \subseteq 0 .. 7
    OBVIOUS
  <2>2. Lit(IntOf({})) = {} /\ Lit(IntOf(0 .. 7)) = 0 .. 7
    BY <2>1, SmallIsLit
  <2> QED BY <1>1, <2>2
<1> QED BY <1>2

\* An exponent is packed into eight bits, and tells them.
LEMMA PackedExponent ==
  ASSUME FloatWidths, NEW n \in 0 .. 255
  PROVE  /\ Shl(Lit(n), M) \subseteq M .. W - 2
         /\ Shl(Lit(n), M) = {} <=> n = 0
         /\ Shl(Lit(n), M) = M .. W - 2 <=> n = 255
<1>0. W = 32 /\ M = 23
  BY DEF FloatWidths
<1>1. Lit(n) \subseteq 0 .. 7 /\ IntOf(Lit(n)) = n
  BY <1>0, IntOfLit
<1>2. \A i \in 0 .. 7 : i + M \in Bit /\ (i + M) - M = i
  BY <1>0 DEF Bit
<1>3. \A i \in Bit : i \in Shl(Lit(n), M) <=> i - M \in Lit(n)
  BY DEF Shl
<1>4. Shl(Lit(n), M) \subseteq M .. W - 2
  <2> SUFFICES ASSUME NEW i \in Shl(Lit(n), M) PROVE i \in M .. W - 2
    OBVIOUS
  <2>1. i \in Bit /\ i - M \in 0 .. 7
    BY <1>1 DEF Shl
  <2> QED BY <1>0, <2>1 DEF Bit
<1>5. \A i \in 0 .. 7 : i \in Lit(n) <=> i + M \in Shl(Lit(n), M)
  BY <1>2, <1>3
<1>6. \A i \in M .. W - 2 : i - M \in 0 .. 7 /\ i \in Bit
  BY <1>0 DEF Bit
<1>7. Shl(Lit(n), M) = {} <=> Lit(n) = {}
  BY <1>1, <1>3, <1>4, <1>5, <1>6
<1>8. Shl(Lit(n), M) = M .. W - 2 <=> Lit(n) = 0 .. 7
  <2>1. ASSUME Shl(Lit(n), M) = M .. W - 2 PROVE Lit(n) = 0 .. 7
    <3>1. \A i \in 0 .. 7 : i + M \in M .. W - 2
      BY <1>0
    <3> QED BY <1>1, <1>5, <2>1, <3>1
  <2>2. ASSUME Lit(n) = 0 .. 7 PROVE Shl(Lit(n), M) = M .. W - 2
    BY <1>3, <1>4, <1>6, <2>2
  <2> QED BY <2>1, <2>2
<1>9. Lit(0) = {} /\ Lit(255) = 0 .. 7
  BY <1>0, LitEnds
<1>10. IntOf({}) = 0 /\ IntOf(0 .. 7) = 255
  <2>1. 0 \in 0 .. 255 /\ 255 \in 0 .. 255
    OBVIOUS
  <2>2. IntOf(Lit(0)) = 0 /\ IntOf(Lit(255)) = 255
    BY <1>0, <2>1, IntOfLit
  <2> QED BY <1>9, <2>2
<1>11. Lit(n) = {} <=> n = 0
  BY <1>1, <1>9, <1>10, Zenon
<1>12. Lit(n) = 0 .. 7 <=> n = 255
  BY <1>1, <1>9, <1>10, Zenon
<1> QED BY <1>4, <1>7, <1>8, <1>11, <1>12, Zenon

\* The exponent of a float is that of its bits from 23 to 30.
LEMMA ExponentOf ==
  ASSUME FloatWidths, NEW x \in Word
  PROVE  /\ Exponent(x) \in 0 .. 255
         /\ Shl(Lit(Exponent(x)), M) = x \cap (M .. W - 2)
<1>0. W = 32 /\ M = 23
  BY DEF FloatWidths
<1>1. PICK w : w = Shr(x, M) \cap (0 .. W - 2 - M)
  OBVIOUS
<1>2. w \subseteq 0 .. 7
  BY <1>0, <1>1
<1>3. /\ w \in Word /\ W - 1 \notin w
      /\ IntOf(w) \in 0 .. 255 /\ Lit(IntOf(w)) = w
  BY <1>0, <1>2, SmallIsLit
<1>4. Exponent(x) = IntOf(w)
  BY <1>1, <1>3, ValIsIntOf DEF Exponent
<1>5. Shl(w, M) = x \cap (M .. W - 2)
  <2>1. ASSUME NEW i \in Shl(w, M) PROVE i \in x \cap (M .. W - 2)
    <3>1. i \in Bit /\ i - M \in w
      BY DEF Shl
    <3>2. i \in M .. W - 2
      BY <1>0, <1>2, <3>1 DEF Bit
    <3>3. (i - M) + M \in x /\ (i - M) + M = i
      BY <1>0, <1>1, <3>1 DEF Shr, Bit
    <3> QED BY <3>2, <3>3
  <2>2. ASSUME NEW i \in x \cap (M .. W - 2) PROVE i \in Shl(w, M)
    <3>1. i \in Bit /\ i - M \in Bit /\ i - M \in 0 .. W - 2 - M /\ (i - M) + M = i
      BY <1>0, <2>2 DEF Bit
    <3>2. i - M \in w
      BY <1>1, <2>2, <3>1 DEF Shr
    <3> QED BY <3>1, <3>2 DEF Shl
  <2> QED BY <2>1, <2>2
<1> QED BY <1>3, <1>4, <1>5

\* Doubling goes wrong only where the double is infinite, and the fraction stays.
LEMMA FloatScale2Marks ==
  ASSUME FloatWidths, NEW x \in Word
  PROVE  floatScale2(x) = test_floatScale2(x) <=>
           ~ (Exponent(x) = ExpMax - 1 /\ Fraction(x) # Zero)
<1>0. W = 32 /\ M = 23 /\ ExpMax = 255
  BY FloatConstants DEF FloatWidths
<1>1. PICK E : E = Exponent(x)
  OBVIOUS
<1>2. E \in 0 .. 255 /\ Shl(Lit(E), M) = x \cap (M .. W - 2)
  BY <1>1, ExponentOf
<1>3. PICK f : f = Fraction(x) /\ f \subseteq 0 .. M - 1
  BY DEF Fraction
<1>4. floatScale2(x) =
        CASE E = 255 -> x
          [] E = 0 /\ M \notin f -> Pack(x \cap Sign, E, Shl(f, 1))
          [] OTHER -> Pack(x \cap Sign, E + 1, f)
  BY <1>0, <1>1, <1>3 DEF floatScale2
<1>5. test_floatScale2(x) =
        CASE E = 255 /\ f # Zero -> x
          [] E = 0 -> (x \cap Sign) \cup Shl(x, 1)
          [] ~ (E = 255 /\ f # Zero) /\ E >= 255 - 1 -> (x \cap Sign) \cup Infinity
          [] OTHER -> Pack(x \cap Sign, E + 1, f)
  BY <1>0, <1>1, <1>3 DEF test_floatScale2, IsNaN
<1>6. Infinity = M .. W - 2
  <2>1. 255 \in 0 .. 255
    OBVIOUS
  <2> QED BY <1>0, <2>1, PackedExponent DEF Infinity, Pack, Zero
<1>7. \A i \in Bit : i \in 0 .. M - 1 \/ i \in M .. W - 2 \/ i = W - 1
  BY <1>0 DEF Bit
<1>8. x = (x \cap Sign) \cup (x \cap (M .. W - 2)) \cup f
  <2>1. x \subseteq Bit
    BY DEF Word
  <2> QED BY <1>3, <1>7, <2>1 DEF Fraction, Sign
<1>9. CASE E = 255
  <2>1. Shl(Lit(255), M) = M .. W - 2
    BY PackedExponent
  <2>2. CASE f = Zero
    <3>1. x = (x \cap Sign) \cup Infinity
      BY <1>2, <1>6, <1>8, <1>9, <2>1, <2>2 DEF Zero
    <3>2. floatScale2(x) = x /\ test_floatScale2(x) = (x \cap Sign) \cup Infinity
      BY <1>4, <1>5, <1>9, <2>2
    <3> QED BY <1>0, <1>1, <1>9, <3>1, <3>2
  <2>3. CASE f # Zero
    <3>1. floatScale2(x) = x /\ test_floatScale2(x) = x
      BY <1>4, <1>5, <1>9, <2>3
    <3> QED BY <1>0, <1>1, <1>9, <3>1
  <2> QED BY <2>2, <2>3
<1>10. CASE E = 0
  <2>1. M \notin f
    BY <1>0, <1>3
  <2>2. floatScale2(x) = Pack(x \cap Sign, 0, Shl(f, 1))
    BY <1>4, <1>10, <2>1
  <2>3. test_floatScale2(x) = (x \cap Sign) \cup Shl(x, 1)
    BY <1>5, <1>10
  <2>4. 0 \in 0 .. 255
    OBVIOUS
  <2>5. Shl(Lit(0), M) = {}
    BY <2>4, PackedExponent
  <2>6. x \cap (M .. W - 2) = {}
    BY <1>2, <1>10, <2>5
  <2>7. Shl(x, 1) = Shl(f, 1)
    <3> SUFFICES ASSUME NEW i \in Bit PROVE i - 1 \in x <=> i - 1 \in f
      BY DEF Shl
    <3>1. i - 1 # W - 1
      BY <1>0 DEF Bit
    <3> QED BY <1>8, <2>6, <3>1 DEF Sign
  <2>8. floatScale2(x) = test_floatScale2(x)
    BY <2>2, <2>3, <2>5, <2>7 DEF Pack
  <2> QED BY <1>0, <1>1, <1>10, <2>8
<1>11. CASE E = 254
  <2>1. floatScale2(x) = (x \cap Sign) \cup (M .. W - 2) \cup f
    <3>1. floatScale2(x) = Pack(x \cap Sign, 255, f)
      BY <1>4, <1>11
    <3>2. Shl(Lit(255), M) = M .. W - 2
      BY PackedExponent
    <3> QED BY <3>1, <3>2 DEF Pack
  <2>2. test_floatScale2(x) = (x \cap Sign) \cup (M .. W - 2)
    BY <1>5, <1>6, <1>11
  <2>3. f = Zero => floatScale2(x) = test_floatScale2(x)
    BY <2>1, <2>2 DEF Zero
  <2>4. ASSUME f # Zero PROVE floatScale2(x) # test_floatScale2(x)
    <3>1. PICK j \in f : j \in 0 .. M - 1
      BY <1>3, <2>4 DEF Zero
    <3>2. j # W - 1 /\ j \notin M .. W - 2
      BY <1>0, <3>1
    <3> QED BY <2>1, <2>2, <3>1, <3>2 DEF Sign
  <2> QED BY <1>0, <1>1, <1>3, <1>11, <2>3, <2>4
<1>12. CASE E \in 1 .. 253
  <2>1. floatScale2(x) = test_floatScale2(x)
    BY <1>4, <1>5, <1>12
  <2> QED BY <1>0, <1>1, <1>12, <2>1
<1> QED BY <1>2, <1>9, <1>10, <1>11, <1>12

\* Converting goes wrong from 2.0 on, up to where no int is large enough: the
\* implicit one stands a bit too far to the left.
LEMMA FloatFloat2IntMarks ==
  ASSUME FloatWidths, NEW x \in Word
  PROVE  floatFloat2Int(x) = test_floatFloat2Int(x) <=>
           ~ (Exponent(x) - Bias \in 1 .. W - 2)
<1>0. W = 32 /\ M = 23 /\ Bias = 127
  BY FloatConstants DEF FloatWidths
<1>1. PICK K : K = Exponent(x) - Bias
  OBVIOUS
<1>2. K \in Int
  BY <1>0, <1>1, ExponentOf
<1>3. PICK f : f = Fraction(x) /\ f \subseteq 0 .. M - 1
  BY DEF Fraction
<1>4. PICK s : s = CASE K = 0 -> One
                     [] 0 < K /\ K <= M -> Sar(f \cup ImplicitOne, M - K)
                     [] OTHER -> Shl(f \cup ImplicitOne, K - M)
  OBVIOUS
<1>5. floatFloat2Int(x) =
        CASE K < 0 -> Zero
          [] K >= W - 1 -> Sign
          [] OTHER -> IF x \cap Sign = Zero THEN s ELSE Plus(Not(s), One)
  BY <1>1, <1>3, <1>4 DEF floatFloat2Int
<1>6. PICK r : r = IF K <= M THEN Shr(f \cup {M}, M - K) ELSE Shl(f \cup {M}, K - M)
  OBVIOUS
<1>7. test_floatFloat2Int(x) =
        CASE K < 0 -> Zero
          [] K >= W - 1 -> Sign
          [] OTHER -> IF Sign \subseteq x THEN Minus(r) ELSE r
  BY <1>1, <1>3, <1>6 DEF test_floatFloat2Int
<1>8. Sign \subseteq x <=> ~ (x \cap Sign = Zero)
  BY DEF Sign, Zero
<1>9. s \in Word /\ r \in Word
  <2>1. One \in Word /\ \A y, k : Sar(y, k) \in Word /\ Shl(y, k) \in Word /\ Shr(y, k) \in Word
    BY Width DEF One, Sar, Shl, Shr, Word
  <2> QED BY <1>4, <1>6, <2>1
<1>10. Plus(Not(s), One) = Minus(s)
  BY <1>9, NegateRight DEF negate, test_negate
<1>11. CASE K < 0 \/ K >= 31
  <2>1. floatFloat2Int(x) = test_floatFloat2Int(x)
    BY <1>0, <1>2, <1>5, <1>7, <1>11
  <2>2. ~ (K \in 1 .. W - 2)
    BY <1>0, <1>11
  <2> QED BY <1>1, <2>1, <2>2
<1>12. CASE K = 0
  <2>1. s = One
    BY <1>4, <1>12
  <2>2. r = Shr(f \cup {M}, M)
    <3>1. K <= M /\ M - K = M
      BY <1>0, <1>12
    <3> QED BY <1>6, <3>1
  <2>3. \A i \in Bit : i \in Shr(f \cup {M}, M) <=> i = 0
    BY <1>0, <1>3 DEF Shr, Bit
  <2>4. r = One
    BY <1>0, <2>2, <2>3 DEF Shr, One, Bit
  <2>5. floatFloat2Int(x) = test_floatFloat2Int(x)
    BY <1>0, <1>5, <1>7, <1>8, <1>10, <1>12, <2>1, <2>4
  <2>6. ~ (K \in 1 .. W - 2)
    BY <1>12
  <2> QED BY <1>1, <2>5, <2>6
<1>13. CASE K \in 1 .. 30
  <2>1. K + 1 \in Bit /\ K + 1 < W
    BY <1>0, <1>13 DEF Bit
  <2>2. K + 1 \in s
    <3>1. CASE K <= M
      <4>1. s = Sar(f \cup ImplicitOne, M - K)
        BY <1>4, <1>13, <3>1
      <4>2. (K + 1) + (M - K) = M + 1 /\ M + 1 < W
        BY <1>0, <1>13
      <4>3. M + 1 \in f \cup ImplicitOne
        BY DEF ImplicitOne
      <4> QED BY <2>1, <4>1, <4>2, <4>3 DEF Sar
    <3>2. CASE ~ (K <= M)
      <4>1. s = Shl(f \cup ImplicitOne, K - M)
        BY <1>0, <1>4, <1>13, <3>2
      <4>2. (K + 1) - (K - M) = M + 1
        BY <1>0, <1>13
      <4>3. M + 1 \in f \cup ImplicitOne
        BY DEF ImplicitOne
      <4> QED BY <2>1, <4>1, <4>2, <4>3 DEF Shl
    <3> QED BY <3>1, <3>2
  <2>3. K + 1 \notin r
    <3>1. M + 1 \notin f \cup {M}
      BY <1>0, <1>3
    <3>2. CASE K <= M
      <4>1. r = Shr(f \cup {M}, M - K)
        BY <1>6, <3>2
      <4>2. (K + 1) + (M - K) = M + 1
        BY <1>0, <1>13
      <4> QED BY <3>1, <4>1, <4>2 DEF Shr
    <3>3. CASE ~ (K <= M)
      <4>1. r = Shl(f \cup {M}, K - M)
        BY <1>6, <3>3
      <4>2. (K + 1) - (K - M) = M + 1
        BY <1>0, <1>13
      <4> QED BY <3>1, <4>1, <4>2 DEF Shl
    <3> QED BY <3>2, <3>3
  <2>4. s # r
    BY <2>2, <2>3
  <2>5. Minus(s) # Minus(r)
    BY <1>9, <2>4, MinusDiffers
  <2>6. floatFloat2Int(x) = (IF x \cap Sign = Zero THEN s ELSE Minus(s))
    BY <1>0, <1>5, <1>10, <1>13
  <2>7. test_floatFloat2Int(x) = (IF x \cap Sign = Zero THEN r ELSE Minus(r))
    BY <1>0, <1>7, <1>8, <1>13
  <2>8. K \in 1 .. W - 2
    BY <1>0, <1>13
  <2> QED BY <1>1, <2>4, <2>5, <2>6, <2>7, <2>8
<1>14. K < 0 \/ K >= 31 \/ K = 0 \/ K \in 1 .. 30
  BY <1>2
<1> QED BY <1>11, <1>12, <1>13, <1>14

\* The literals of floatPower2.
LEMMA PowerLiterals ==
  ASSUME FloatWidths
  PROVE  /\ Lit(127) \in Word /\ W - 1 \notin Lit(127) /\ IntOf(Lit(127)) = 127
         /\ Lit(149) \in Word /\ IntOf(Lit(149)) = 149
         /\ Lit(255) \in Word /\ IntOf(Lit(255)) = 255
         /\ Zero \in Word /\ IntOf(Zero) = 0
<1>0. W = 32
  BY DEF FloatWidths
<1>1. 127 \in 0 .. 255 /\ 149 \in 0 .. 255 /\ 255 \in 0 .. 255 /\ 0 \in 0 .. 255
  OBVIOUS
<1>2. Lit(0) = Zero
  BY <1>0, LitEnds DEF Zero
<1> QED BY <1>0, <1>1, <1>2, IntOfLit
\* Whether a word is negative is in its sign, and none is greater than the
\* largest int.
LEMMA SignTells ==
  ASSUME NEW x \in Word
  PROVE  Less(x, Zero) <=> W - 1 \in x
<1>1. CASE x = Zero
  BY <1>1, NotLess DEF Zero
<1>2. CASE x # Zero
  <2>1. Zero \in Word
    BY DEF Zero, Word
  <2>2. PICK d \in Bit : /\ ~ (d \in x <=> d \in Zero)
                         /\ \A j \in d + 1 .. W - 1 : j \in x <=> j \in Zero
    BY <1>2, <2>1, HighestDifference
  <2>3. Less(x, Zero) <=> IF d = W - 1 THEN d \in x ELSE d \in Zero
    BY <2>1, <2>2, LessAt
  <2>4. d # W - 1 => W - 1 \in d + 1 .. W - 1
    BY Width DEF Bit
  <2> QED BY <2>2, <2>3, <2>4 DEF Zero
<1> QED BY <1>1, <1>2

LEMMA TmaxGreatest ==
  ASSUME NEW x \in Word
  PROVE  ~ Less(Not(Sign), x)
<1>1. CASE x = Not(Sign)
  BY <1>1, NotLess
<1>2. CASE x # Not(Sign)
  <2>1. Not(Sign) \in Word
    BY DEF Not, Word
  <2>2. PICK d \in Bit : /\ ~ (d \in Not(Sign) <=> d \in x)
                         /\ \A j \in d + 1 .. W - 1 : j \in Not(Sign) <=> j \in x
    BY <1>2, <2>1, HighestDifference
  <2>3. Less(Not(Sign), x) <=> IF d = W - 1 THEN d \in Not(Sign) ELSE d \in x
    BY <2>1, <2>2, LessAt
  <2>4. d \in Not(Sign) <=> d # W - 1
    BY DEF Not, Sign
  <2> QED BY <2>2, <2>3, <2>4
<1> QED BY <1>1, <1>2

\* The border from which adding the bias overflows.
LEMMA BiasOverflow ==
  ASSUME FloatWidths, NEW x \in Word
  PROVE  Less(Plus(Not(Sign), Minus(Lit(Bias))), x) <=> IntOf(Not(Sign)) - 127 < IntOf(x)
<1>0. W = 32 /\ Bias = 127
  BY FloatConstants DEF FloatWidths
<1>1. PICK T \in Int : T = IntOf(Not(Sign))
  BY <1>0, TmaxLarge, IntOrder
<1>2. PICK b : b = Minus(Lit(127))
  OBVIOUS
<1>3. b \in Word /\ IntOf(b) = -127
  <2>1. Lit(127) # Sign
    BY <1>0, PowerLiterals DEF Sign
  <2> QED BY <1>0, <1>2, <2>1, IntOfMinus, PowerLiterals
<1>4. W - 1 \in b
  <2>1. Less(b, Zero) <=> W - 1 \in b
    BY <1>3, SignTells
  <2> QED BY <1>3, <2>1, IntOrder, PowerLiterals
<1>5. PICK y : y = Plus(Not(Sign), b)
  OBVIOUS
<1>6. y \in Word
  BY <1>3, <1>5 DEF Plus, Xor, Carries, Word, Not
<1>7. IntOf(y) = T + (-127)
  BY <1>0, <1>1, <1>3, <1>4, <1>5, TmaxLarge, IntOfPlus
<1>8. Less(y, x) <=> T + (-127) < IntOf(x)
  BY <1>6, <1>7, IntOrder
<1> QED BY <1>0, <1>1, <1>2, <1>5, <1>8

\* Powers go wrong where the result is no normal number although it is not zero,
\* where the argument's sign gets into it, and where the bias overflows.
LEMMA FloatPower2Marks ==
  ASSUME FloatWidths, NEW x \in Word
  PROVE  floatPower2(x) = test_floatPower2(x) <=>
           ~ (IF Sign \subseteq x THEN ~Less(Lit(Bias + M - 1), Minus(x)) /\ x # Sign
              ELSE Less(Plus(Not(Sign), Minus(Lit(Bias))), x))
<1>0. W = 32 /\ M = 23 /\ ExpMax = 255 /\ Bias = 127 /\ Bias + M - 1 = 149
      /\ Bias - 1 + M = 149
  BY FloatConstants DEF FloatWidths
<1>1. PICK e : e = Plus(x, Lit(127))
  OBVIOUS
<1>2. e \in Word
  <2>1. Lit(127) \subseteq Bit /\ x \subseteq Bit
    BY DEF Lit, Word
  <2> QED BY <1>1, <2>1 DEF Plus, Xor, Carries, Word
<1>3. PICK v \in Int, w \in Int, T \in Int :
        v = IntOf(x) /\ w = IntOf(e) /\ T = IntOf(Not(Sign))
  BY <1>2, TmaxLarge, IntOrder, <1>0
<1>4. T > 511 /\ IntOf(Sign) = -1 - T
  BY <1>0, <1>3, TmaxLarge
<1>5. \A y \in Word : /\ Less(e, y) <=> w < IntOf(y)
                      /\ Less(x, y) <=> v < IntOf(y)
                      /\ Less(y, x) <=> IntOf(y) < v
  BY <1>2, <1>3, IntOrder
<1>6. (Less(e, Lit(255)) <=> w < 255) /\ (Less(e, Zero) <=> w < 0)
  BY <1>5, PowerLiterals
<1>7. floatPower2(x) =
        CASE ~ (w < 255) -> Pack(x \cap Sign, 255, Zero)
          [] w < 0 -> Zero
          [] OTHER -> (x \cap Sign) \cup Shl(e, M)
  BY <1>0, <1>1, <1>6 DEF floatPower2
<1>8. Sign \subseteq x <=> W - 1 \in x
  BY DEF Sign
<1>9. Infinity = M .. W - 2 /\ Pack(Zero, 255, Zero) = M .. W - 2 /\ M .. W - 2 # Zero
  <2>1. 255 \in 0 .. 255 /\ M \in M .. W - 2
    BY <1>0
  <2>2. Pack(Zero, 255, Zero) = M .. W - 2
    BY <2>1, PackedExponent DEF Pack, Zero
  <2> QED BY <1>0, <2>1, <2>2 DEF Infinity, Zero
<1>10. (W - 1 \in x <=> v < 0)
  <2>1. Less(x, Zero) <=> W - 1 \in x
    BY SignTells
  <2> QED BY <1>5, <2>1, PowerLiterals
<1>11. (W - 1 \in e <=> w < 0)
  <2>1. Less(e, Zero) <=> W - 1 \in e
    BY <1>2, SignTells
  <2> QED BY <1>6, <2>1
<1>12. (W - 1 \in x \/ W - 1 \notin e) => w = v + 127
  BY <1>1, <1>3, IntOfPlus, PowerLiterals
<1>13. W - 1 \notin x /\ W - 1 \in e => T < v + 127
  BY <1>1, <1>3, IntOfOverflow, PowerLiterals
<1>14. w <= T
  <2>1. ~ Less(Not(Sign), e)
    BY <1>2, TmaxGreatest
  <2> QED BY <1>0, <1>2, <1>3, <2>1, TmaxLarge, IntOrder
<1>15. CASE W - 1 \notin x
  <2>1. test_floatPower2(x) = IF 127 < v THEN Infinity ELSE Pack(Zero, 127 + v, Zero)
    <3>1. Less(Lit(127), x) <=> 127 < v
      BY <1>5, PowerLiterals
    <3>2. Val(x) = v
      BY <1>3, <1>15, ValIsIntOf
    <3> QED BY <1>0, <1>8, <1>15, <3>1, <3>2 DEF test_floatPower2
  <2>2. Less(Plus(Not(Sign), Minus(Lit(Bias))), x) <=> T - 127 < v
    BY <1>3, BiasOverflow
  <2>3. x \cap Sign = Zero
    BY <1>15 DEF Sign, Zero
  <2>4. v >= 0
    BY <1>10, <1>15
  <2>5. CASE w < 0
    <3>1. T < v + 127
      BY <1>11, <1>13, <1>15, <2>5
    <3>2. floatPower2(x) = Zero
      BY <1>7, <2>5
    <3>3. test_floatPower2(x) = Infinity
      BY <1>4, <2>1, <3>1
    <3> QED BY <1>8, <1>9, <1>15, <2>2, <3>1, <3>2, <3>3
  <2>6. CASE w >= 0
    <3>1. w = v + 127
      BY <1>11, <1>12, <2>6
    <3>2. ~ (T - 127 < v)
      BY <1>14, <3>1
    <3>3. CASE v >= 128
      <4>1. floatPower2(x) = Pack(Zero, 255, Zero)
        BY <1>7, <2>3, <3>1, <3>3
      <4>2. test_floatPower2(x) = Infinity
        BY <2>1, <3>3
      <4> QED BY <1>8, <1>9, <1>15, <2>2, <3>2, <4>1, <4>2
    <3>4. CASE v < 128
      <4>1. 127 + v \in 0 .. 255 /\ w = 127 + v /\ w < 255 /\ ~ (127 < v)
        BY <2>4, <3>1, <3>4
      <4>2. e = Lit(127 + v)
        <5>1. Lit(127 + v) \in Word /\ IntOf(Lit(127 + v)) = 127 + v
          BY <1>0, <4>1, IntOfLit
        <5>2. IntOf(e) = IntOf(Lit(127 + v))
          BY <1>3, <4>1, <5>1
        <5> QED BY <1>2, <5>1, <5>2, IntOrder
      <4>3. floatPower2(x) = Zero \cup Shl(Lit(127 + v), M)
        BY <1>7, <2>3, <2>6, <4>1, <4>2
      <4>4. test_floatPower2(x) = Pack(Zero, 127 + v, Zero)
        BY <2>1, <4>1
      <4> QED BY <1>8, <1>15, <2>2, <3>2, <4>3, <4>4 DEF Pack, Zero
    <3> QED BY <3>3, <3>4
  <2> QED BY <2>5, <2>6
<1>16. CASE W - 1 \in x
  <2>1. w = v + 127 /\ v < 0
    BY <1>10, <1>12, <1>16
  <2>2. CASE x = Sign
    <3>1. w < 0
      BY <1>3, <1>4, <2>1, <2>2
    <3>2. floatPower2(x) = Zero
      BY <1>7, <3>1
    <3>3. Minus(Sign) = Sign
      BY Width DEF Minus, Sign, Bit
    <3>4. test_floatPower2(x) = Zero
      BY <1>8, <1>16, <2>2, <3>3 DEF test_floatPower2
    <3> QED BY <1>8, <1>16, <2>2, <3>2, <3>4
  <2>3. CASE x # Sign
    <3>1. PICK n, m : n = - v /\ m = Minus(x)
      OBVIOUS
    <3>2. m \in Word /\ IntOf(m) = n /\ n \in Int /\ n > 0
      BY <1>0, <1>3, <2>1, <2>3, <3>1, IntOfMinus
    <3>3. W - 1 \notin m /\ m # Sign
      <4>1. Less(m, Zero) <=> W - 1 \in m
        BY <3>2, SignTells
      <4>2. Less(m, Zero) <=> n < 0
        BY <3>2, IntOrder, PowerLiterals
      <4> QED BY <3>2, <4>1, <4>2 DEF Sign
    <3>4. Val(m) = n
      BY <3>2, <3>3, ValIsIntOf
    <3>5. Less(Lit(149), m) <=> 149 < n
      BY <3>2, IntOrder, PowerLiterals
    <3>6. test_floatPower2(x) = CASE 149 < n -> Zero
                                  [] ~ (149 < n) /\ n >= 127 -> {149 - n}
                                  [] OTHER -> Pack(Zero, 127 - n, Zero)
      BY <1>0, <1>8, <1>16, <3>1, <3>3, <3>4, <3>5 DEF test_floatPower2
    <3>7. SUFFICES floatPower2(x) = test_floatPower2(x) <=> 149 < n
      BY <1>0, <1>8, <1>16, <2>3, <3>1, <3>5
    <3>8. CASE n > 127
      <4>1. floatPower2(x) = Zero
        BY <1>7, <2>1, <3>1, <3>8
      <4>2. 149 < n => test_floatPower2(x) = Zero
        BY <3>6
      <4>3. ~ (149 < n) => test_floatPower2(x) = {149 - n}
        BY <3>2, <3>6, <3>8
      <4>4. {149 - n} # Zero
        BY DEF Zero
      <4> QED BY <4>1, <4>2, <4>3, <4>4
    <3>9. CASE ~ (n > 127)
      <4>1. floatPower2(x) = (x \cap Sign) \cup Shl(e, M)
        BY <1>7, <2>1, <3>1, <3>2, <3>9
      <4>2. W - 1 \in floatPower2(x)
        BY <1>16, <4>1 DEF Sign
      <4>3. ~ (149 < n)
        BY <3>2, <3>9
      <4>4. CASE n = 127
        <5>1. test_floatPower2(x) = {149 - n}
          BY <3>6, <4>3, <4>4
        <5>2. W - 1 # 149 - n
          BY <1>0, <4>4
        <5> QED BY <4>2, <4>3, <5>1, <5>2
      <4>5. CASE n # 127
        <5>1. ~ (n >= 127)
          BY <3>2, <3>9, <4>5
        <5>2. test_floatPower2(x) = Pack(Zero, 127 - n, Zero)
          BY <3>6, <4>3, <5>1
        <5>3. 127 - n \in 0 .. 255
          BY <3>2, <5>1
        <5>4. Shl(Lit(127 - n), M) \subseteq M .. W - 2
          BY <5>3, PackedExponent
        <5>5. W - 1 \notin test_floatPower2(x)
          BY <1>0, <5>2, <5>4 DEF Pack, Zero
        <5> QED BY <4>2, <4>3, <5>5
      <4> QED BY <4>4, <4>5
    <3> QED BY <3>8, <3>9
  <2> QED BY <2>2, <2>3
<1> QED BY <1>15, <1>16

\* The exponent of a float is the number its bits from 23 to 30 spell.
LEMMA ExponentBits ==
  ASSUME FloatWidths, NEW x \in Word
  PROVE  Exponent(x) = BitOf(x, 23) + 2 * BitOf(x, 24) + 4 * BitOf(x, 25)
                         + 8 * BitOf(x, 26) + 16 * BitOf(x, 27) + 32 * BitOf(x, 28)
                         + 64 * BitOf(x, 29) + 128 * BitOf(x, 30)
<1>0. W = 32 /\ M = 23
  BY DEF FloatWidths
<1>1. PICK w : w = Shr(x, M) \cap (0 .. W - 2 - M)
  OBVIOUS
<1>2. w \subseteq 0 .. 7
  BY <1>0, <1>1
<1>3. W - 1 \notin w
  BY <1>0, <1>2
<1>4. Exponent(x) = IntOf(w)
  BY <1>1, <1>3, ValIsIntOf DEF Exponent
<1>5. \A i \in 0 .. 7 : i \in w <=> i + 23 \in x
  BY <1>0, <1>1 DEF Shr, Bit
<1>6. \A i \in 0 .. 7 : BitOf(w, i) = BitOf(x, i + 23)
  BY <1>5 DEF BitOf
<1>7. /\ BitOf(w, 0) = BitOf(x, 23) /\ BitOf(w, 1) = BitOf(x, 24)
      /\ BitOf(w, 2) = BitOf(x, 25) /\ BitOf(w, 3) = BitOf(x, 26)
      /\ BitOf(w, 4) = BitOf(x, 27) /\ BitOf(w, 5) = BitOf(x, 28)
      /\ BitOf(w, 6) = BitOf(x, 29) /\ BitOf(w, 7) = BitOf(x, 30)
  BY <1>6
<1>8. IntOf(w) = BitOf(w, 0) + 2 * BitOf(w, 1) + 4 * BitOf(w, 2) + 8 * BitOf(w, 3)
                   + 16 * BitOf(w, 4) + 32 * BitOf(w, 5) + 64 * BitOf(w, 6)
                   + 128 * BitOf(w, 7)
  BY <1>0, <1>2, SmallNumber
<1> QED BY <1>4, <1>7, <1>8

\* A word with a zero among its bits from 8 to 30 is far below the largest word of
\* its sign.
LEMMA FarFromEnds ==
  ASSUME FloatWidths, NEW x \in Word, NEW j \in 8 .. 30, j \notin x
  PROVE  /\ W - 1 \notin x => IntOf(x) <= IntOf(Not(Sign)) - 256
         /\ W - 1 \in x => IntOf(x) <= -257
<1>0. W = 32
  BY DEF FloatWidths
<1>1. PICK f : Shifts(f, x, Leading(x)) /\ IntOf(x) = f[0]
  BY IntOfIs
<1>2. \A i \in 0 .. 31 : /\ f[i] = 2 * f[i + 1] + BitOf(x, i)
                         /\ f[i] \in Int /\ f[i + 1] \in Int /\ BitOf(x, i) \in {0, 1}
  BY <1>0, <1>1 DEF Shifts, Bit, BitOf
<1>3. BitOf(x, j) = 0
  BY DEF BitOf
<1>4. CASE W - 1 \notin x
  <2>1. PICK u : Shifts(u, Not(Sign), 0) /\ IntOf(Not(Sign)) = u[0]
    BY <1>0, TmaxLarge, IntOfIs DEF Leading
  <2>2. \A i \in 0 .. 30 : /\ u[i] = 2 * u[i + 1] + 1
                           /\ u[i] \in Int /\ u[i + 1] \in Int
    <3>1. \A i \in 0 .. 30 : i \in Bit /\ i \in Not(Sign)
      BY <1>0 DEF Not, Sign, Bit
    <3> QED BY <1>0, <2>1, <3>1 DEF Shifts
  <2>3. f[31] = 0 /\ u[31] = 0
    <3>1. f[32] = 0 /\ u[32] = 0 /\ BitOf(x, 31) = 0
      BY <1>0, <1>1, <1>4, <2>1 DEF Shifts, Leading, BitOf
    <3>2. u[31] = 2 * u[32]
      BY <1>0, <2>1, <3>1 DEF Shifts, Not, Sign, Bit
    <3> QED BY <1>2, <3>1, <3>2
  <2> DEFINE S == {i \in 0 .. 31 : IF i > j THEN f[i] <= u[i] ELSE f[i] + 1 <= u[i]}
  <2>4. 31 \in S /\ 31 \in 0 .. W
    BY <1>0, <2>3
  <2>5. ASSUME NEW i \in 0 .. 31 - 1, i + 1 \in S PROVE i \in S
    <3>1. /\ f[i] = 2 * f[i + 1] + BitOf(x, i) /\ BitOf(x, i) \in {0, 1}
          /\ f[i + 1] \in Int /\ f[i] \in Int
      BY <1>2
    <3>2. u[i] = 2 * u[i + 1] + 1 /\ u[i + 1] \in Int /\ u[i] \in Int
      BY <2>2
    <3>3. CASE i > j
      <4>1. f[i + 1] <= u[i + 1]
        BY <2>5, <3>3
      <4>2. f[i] <= u[i]
        BY <3>1, <3>2, <4>1
      <4> QED BY <3>3, <4>2
    <3>4. CASE i = j
      <4>1. f[i + 1] <= u[i + 1]
        BY <2>5, <3>4
      <4>2. f[i] + 1 <= u[i]
        BY <1>3, <3>1, <3>2, <3>4, <4>1
      <4> QED BY <3>4, <4>2
    <3>5. CASE i < j
      <4>1. f[i + 1] + 1 <= u[i + 1]
        BY <2>5, <3>5
      <4>2. f[i] + 1 <= u[i]
        BY <3>1, <3>2, <4>1
      <4> QED BY <3>5, <4>2
    <3> QED BY <3>3, <3>4, <3>5
  <2>6. 8 \in S
    <3>1. \A i \in 0 .. 31 : i \in S
      <4> HIDE DEF S
      <4> QED BY <2>4, <2>5, Falling
    <3> HIDE DEF S
    <3> QED BY <3>1
  <2>7. f[8] + 1 <= u[8]
    BY <2>6
  <2>8. ASSUME NEW i \in 0 .. 7, NEW d \in Nat, f[i + 1] + d <= u[i + 1]
        PROVE  f[i] + 2 * d <= u[i]
    <3>1. f[i] = 2 * f[i + 1] + BitOf(x, i) /\ BitOf(x, i) \in {0, 1} /\ f[i + 1] \in Int
      BY <1>2
    <3>2. u[i] = 2 * u[i + 1] + 1 /\ u[i + 1] \in Int
      BY <2>2
    <3> QED BY <2>8, <3>1, <3>2
  <2>9. f[7] + 2 <= u[7]
    BY <2>7, <2>8
  <2>10. f[6] + 4 <= u[6]
    BY <2>8, <2>9
  <2>11. f[5] + 8 <= u[5]
    BY <2>8, <2>10
  <2>12. f[4] + 16 <= u[4]
    BY <2>8, <2>11
  <2>13. f[3] + 32 <= u[3]
    BY <2>8, <2>12
  <2>14. f[2] + 64 <= u[2]
    BY <2>8, <2>13
  <2>15. f[1] + 128 <= u[1]
    BY <2>8, <2>14
  <2>16. f[0] + 256 <= u[0]
    BY <2>8, <2>15
  <2>17. f[0] \in Int /\ u[0] \in Int
    BY <1>2, <2>2
  <2> QED BY <1>1, <1>4, <2>1, <2>16, <2>17
<1>5. CASE W - 1 \in x
  <2>1. f[31] = -1
    <3>1. f[32] = -1 /\ BitOf(x, 31) = 1
      BY <1>0, <1>1, <1>5 DEF Shifts, Leading, BitOf
    <3> QED BY <1>2, <3>1
  <2> DEFINE S == {i \in 0 .. 31 : IF i > j THEN f[i] <= -1 ELSE f[i] <= -2}
  <2>2. 31 \in S /\ 31 \in 0 .. W
    BY <1>0, <2>1
  <2>3. ASSUME NEW i \in 0 .. 31 - 1, i + 1 \in S PROVE i \in S
    <3>1. /\ f[i] = 2 * f[i + 1] + BitOf(x, i) /\ BitOf(x, i) \in {0, 1}
          /\ f[i + 1] \in Int /\ f[i] \in Int
      BY <1>2
    <3>2. CASE i > j
      <4>1. f[i + 1] <= -1
        BY <2>3, <3>2
      <4>2. f[i] <= -1
        BY <3>1, <4>1
      <4> QED BY <3>2, <4>2
    <3>3. CASE i = j
      <4>1. f[i + 1] <= -1
        BY <2>3, <3>3
      <4>2. f[i] <= -2
        BY <1>3, <3>1, <3>3, <4>1
      <4> QED BY <3>3, <4>2
    <3>4. CASE i < j
      <4>1. f[i + 1] <= -2
        BY <2>3, <3>4
      <4>2. f[i] <= -2
        BY <3>1, <4>1
      <4> QED BY <3>4, <4>2
    <3> QED BY <3>2, <3>3, <3>4
  <2>4. 8 \in S
    <3>1. \A i \in 0 .. 31 : i \in S
      <4> HIDE DEF S
      <4> QED BY <2>2, <2>3, Falling
    <3> HIDE DEF S
    <3> QED BY <3>1
  <2>5. f[8] <= -2
    BY <2>4
  <2>6. ASSUME NEW i \in 0 .. 7, NEW d \in Nat, f[i + 1] + 1 + d <= 0
        PROVE  f[i] + 1 + 2 * d <= 0
    <3>1. f[i] = 2 * f[i + 1] + BitOf(x, i) /\ BitOf(x, i) \in {0, 1} /\ f[i + 1] \in Int
      BY <1>2
    <3> QED BY <2>6, <3>1
  <2>7. f[8] + 1 + 1 <= 0
    <3>1. f[8] \in Int
      BY <1>2
    <3> QED BY <2>5, <3>1
  <2>8. f[7] + 1 + 2 <= 0
    BY <2>6, <2>7
  <2>9. f[6] + 1 + 4 <= 0
    BY <2>6, <2>8
  <2>10. f[5] + 1 + 8 <= 0
    BY <2>6, <2>9
  <2>11. f[4] + 1 + 16 <= 0
    BY <2>6, <2>10
  <2>12. f[3] + 1 + 32 <= 0
    BY <2>6, <2>11
  <2>13. f[2] + 1 + 64 <= 0
    BY <2>6, <2>12
  <2>14. f[1] + 1 + 128 <= 0
    BY <2>6, <2>13
  <2>15. f[0] + 1 + 256 <= 0
    BY <2>6, <2>14
  <2>16. f[0] \in Int
    BY <1>2
  <2> QED BY <1>1, <1>5, <2>15, <2>16
<1> QED BY <1>4, <1>5

\* A number of as many bits as the fraction of a float has.
Short(k) == k \in Nat /\ k < 2 ^ 23

\* The literal of such a number has its bits among these.
LEMMA LitRange ==
  ASSUME FloatWidths, NEW k, Short(k)
  PROVE  Lit(k) \subseteq 0 .. 22 /\ Lit(k) \in Word
<1>1. /\ Digit(k, 23) = 0 /\ Digit(k, 24) = 0 /\ Digit(k, 25) = 0 /\ Digit(k, 26) = 0
      /\ Digit(k, 27) = 0 /\ Digit(k, 28) = 0 /\ Digit(k, 29) = 0 /\ Digit(k, 30) = 0
  BY SMT DEF Digit, Short
<1>2. \A i \in 23 .. 30 : Digit(k, i) = 0
  BY <1>1
<1>3. ASSUME NEW i \in Lit(k) PROVE i \in 0 .. 22
  <2>1. i \in 0 .. 30 /\ Digit(k, i) = 1
    BY LitBit DEF FloatWidths, Bit
  <2> QED BY <1>2, <2>1
<1>4. Lit(k) \in Word
  BY DEF Lit, Word
<1> QED BY <1>3, <1>4

\* A literal that has no bit of n is added as if they were united.
LEMMA AddApart ==
  ASSUME NEW n \in Word, NEW m \in Word, n \cap m = {}
  PROVE  Plus(n, m) = n \cup m
<1>1. Carries(n, m) = {}
  BY DEF Carries
<1> QED BY <1>1 DEF Plus, Xor

\* What is smaller than the lowest bit of n is taken away from that bit.
LEMMA TakeAway ==
  ASSUME FloatWidths, NEW n \in Word, NEW p \in 23 .. 30, p \in n, n \subseteq p .. 30,
         NEW k, Short(k), Lit(k) # Zero
  PROVE  Plus(n, Minus(Lit(k))) = (n \ {p}) \cup {i \in Minus(Lit(k)) : i < p}
<1>0. W = 32
  BY DEF FloatWidths
<1>1. PICK m : m = Minus(Lit(k))
  OBVIOUS
<1>2. Lit(k) \in Word /\ Lit(k) \subseteq 0 .. 22
  BY LitRange
<1>3. PICK l \in Lit(k) : \A j \in Lit(k) : l <= j
  BY <1>2, LowestOne
<1>4. \A i \in Bit : i \in m <=> i = l \/ (i > l /\ i \notin Lit(k))
  BY <1>1, <1>2, <1>3, MinusBits
<1>5. \A i \in 23 .. 31 : i \in m
  BY <1>0, <1>2, <1>3, <1>4 DEF Bit
<1>6. \A i \in Bit : i \in Carries(n, m) <=> i > p
  <2>1. ASSUME NEW i \in Bit, i > p PROVE i \in Carries(n, m)
    <3>1. p \in 0 .. i - 1 /\ p \in n \cap m
      BY <1>0, <1>5, <2>1 DEF Bit
    <3>2. \A h \in p + 1 .. i - 1 : h \in n \cup m
      BY <1>0, <1>5 DEF Bit
    <3> QED BY <3>1, <3>2 DEF Carries
  <2>2. ASSUME NEW i \in Bit, i \in Carries(n, m) PROVE i > p
    <3>1. PICK j \in 0 .. i - 1 : j \in n
      BY <2>2 DEF Carries
    <3>2. j \in p .. 30
      BY <3>1
    <3> QED BY <1>0, <3>1, <3>2 DEF Bit
  <2> QED BY <2>1, <2>2
<1>7. PICK r : r = (n \ {p}) \cup {i \in m : i < p}
  OBVIOUS
<1>8. ASSUME NEW i \in Bit PROVE i \in Plus(n, m) <=> i \in r
  <2>1. i \in Plus(n, m) <=> ~ ((i \in n <=> i \notin m) <=> i \in Carries(n, m))
    BY PlusBit
  <2>2. i \in 0 .. 31
    BY <1>0 DEF Bit
  <2>3. CASE i < p
    BY <1>6, <1>7, <2>1, <2>2, <2>3
  <2>4. CASE i = p
    BY <1>5, <1>6, <1>7, <2>1, <2>2, <2>4
  <2>5. CASE i > p
    BY <1>5, <1>6, <1>7, <2>1, <2>2, <2>5
  <2> QED BY <2>2, <2>3, <2>4, <2>5
<1>9. m \subseteq Bit /\ n \subseteq Bit
  BY <1>1 DEF Minus, Word
<1>10. Plus(n, m) \subseteq Bit /\ r \subseteq Bit
  BY <1>7, <1>9 DEF Plus, Xor, Carries
<1>11. Plus(n, m) = r
  BY <1>8, <1>10
<1> QED BY <1>1, <1>7, <1>11

-----------------------------------------------------------------------------
(* What btest can only try.                                                *)

\* btest tries a few values of each argument; these seven puzzles agree with
\* their test functions on every word, of the 32 bits of an int or any other
\* width.
THEOREM PuzzlesRight ==
  ASSUME NEW x \in Word, NEW y \in Word, NEW z \in Word
  PROVE  /\ Agrees("bitXor", << x, y >>)
         /\ Agrees("tmin", << >>)
         /\ Agrees("isTmax", << x >>)
         /\ Agrees("negate", << x >>)
         /\ Agrees("conditional", << x, y, z >>)
         /\ Agrees("isLessOrEqual", << x, y >>)
         /\ Agrees("logicalNeg", << x >>)
  BY BitXorRight, TminRight, IsTmaxRight, NegateRight, ConditionalRight,
     IsLessOrEqualRight, LogicalNegRight
     DEF Agrees, solution_funct, test_funct

\* The puzzles whose constants are those of an int of 32 bits agree with their
\* test functions on every such int.
THEOREM PuzzlesRightOnInts ==
  ASSUME W = 32, NEW x \in Word
  PROVE  /\ Agrees("allOddBits", << x >>)
         /\ Agrees("isAsciiDigit", << x >>)
         /\ Agrees("howManyBits", << x >>)
  BY AllOddBitsRight, IsAsciiDigitRight, HowManyBitsRight
     DEF Agrees, solution_funct, test_funct

=============================================================================
