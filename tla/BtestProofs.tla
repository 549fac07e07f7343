----------------------------- MODULE BtestProofs -----------------------------
(***************************************************************************)
(* The harness of the data lab is honest: the types of its variables, and   *)
(* that points are earned, for any range of values, any random values, any  *)
(* options and any puzzles that do not return.  And what its marks are worth *)
(* on words of 32 bits: on which the puzzles are right, and why it finds no *)
(* error in those that are wrong.                                          *)
(***************************************************************************)
EXTENDS Btest, BitsProofs, SequenceTheorems, FiniteSetTheorems

\* The values of argument k, and the index of the one in the next call; a puzzle
\* with fewer arguments has one value of each it does not take.
Count(k) == IF k \in DOMAIN vals THEN Len(vals[k]) ELSE 1
Index(k) == IF k \in DOMAIN a THEN a[k] - 1 ELSE 0

\* The calls the nested loops have made before the next one.
Rank == (Index(1) * Count(2) + Index(2)) * Count(3) + Index(3)

InTest == at \in {"test", "looping", "agreed"}

\* The loops of test_function.
CallInv ==
  /\ at = "gen" \/ InTest => i \in DOMAIN test_set
  /\ InTest => /\ DOMAIN vals = 1 .. test.args
               /\ \A k \in DOMAIN vals : a[k] \in 1 .. Len(vals[k])
               /\ matched = IF at = "agreed" THEN Tuples ELSE Rank
  /\ ~ InTest => vals = <<>> /\ a = <<>> /\ matched = 0

\* What is reported is of puzzles before this one.
ReportInv ==
  /\ \A k \in DOMAIN report : report[k].terrors = 0 => report[k].tried
  /\ \A k \in DOMAIN report : \E j \in 1 .. i - 1 : report[k].name = test_set[j].name
  /\ \A k, l \in DOMAIN report : report[k].name = report[l].name => k = l
  /\ errors = Cardinality({k \in DOMAIN report : report[k].terrors = 1})
  /\ points <= max_points
  /\ (points = max_points) <=> (errors = 0)

BtestInv == TypeOK /\ CallInv /\ ReportInv

-----------------------------------------------------------------------------
(* The table, and the values generated.                                    *)

\* The table has thirteen puzzles, each worth a point at least, with names of
\* their own.
LEMMA Table ==
  /\ Len(test_set) = 13 /\ DOMAIN test_set = 1 .. 13
  /\ \A k \in 1 .. 13 : /\ test_set[k].args \in 0 .. 3
                        /\ test_set[k].rating \in Nat \ {0}
  /\ \A k, l \in 1 .. 13 : test_set[k].name = test_set[l].name => k = l
<1>1. Len(test_set) = 13 /\ DOMAIN test_set = 1 .. 13
  BY DEF test_set
<1>2. \A k \in 1 .. 13 : /\ test_set[k].args \in 0 .. 3
                         /\ test_set[k].rating \in Nat \ {0}
  <2>1. /\ test_set[1].args = 2 /\ test_set[2].args = 0 /\ test_set[3].args = 1
        /\ test_set[4].args = 1 /\ test_set[5].args = 1 /\ test_set[6].args = 1
        /\ test_set[7].args = 3 /\ test_set[8].args = 2 /\ test_set[9].args = 1
        /\ test_set[10].args = 1 /\ test_set[11].args = 1 /\ test_set[12].args = 1
        /\ test_set[13].args = 1
    BY DEF test_set, Puzzle
  <2>2. /\ test_set[1].rating = 1 /\ test_set[2].rating = 1 /\ test_set[3].rating = 1
        /\ test_set[4].rating = 2 /\ test_set[5].rating = 2 /\ test_set[6].rating = 3
        /\ test_set[7].rating = 3 /\ test_set[8].rating = 3 /\ test_set[9].rating = 4
        /\ test_set[10].rating = 4 /\ test_set[11].rating = 4
        /\ test_set[12].rating = 4 /\ test_set[13].rating = 4
    BY DEF test_set, Puzzle
  <2>3. \A k \in 1 .. 13 : test_set[k].args \in 0 .. 3
    BY <2>1
  <2>4. \A k \in 1 .. 13 : test_set[k].rating \in Nat \ {0}
    BY <2>2
  <2> QED BY <2>3, <2>4
<1>3. /\ test_set[1].name = "bitXor" /\ test_set[2].name = "tmin"
      /\ test_set[3].name = "isTmax" /\ test_set[4].name = "allOddBits"
      /\ test_set[5].name = "negate" /\ test_set[6].name = "isAsciiDigit"
      /\ test_set[7].name = "conditional" /\ test_set[8].name = "isLessOrEqual"
      /\ test_set[9].name = "logicalNeg" /\ test_set[10].name = "howManyBits"
      /\ test_set[11].name = "floatScale2" /\ test_set[12].name = "floatFloat2Int"
      /\ test_set[13].name = "floatPower2"
  BY DEF test_set, Puzzle
<1>4. \A k, l \in 1 .. 13 : test_set[k].name = test_set[l].name => k = l
  BY <1>3
<1> QED BY <1>1, <1>2, <1>4

\* Words stay words.
LEMMA WordsOf ==
  ASSUME NEW x \in Word, NEW y \in Word, NEW n
  PROVE  /\ Plus(x, y) \in Word /\ Minus(x) \in Word /\ Lit(n) \in Word
         /\ Not(x) \in Word /\ x \cup y \in Word /\ Shl(x, n) \in Word
         /\ Zero \in Word /\ Sign \in Word
<1>1. Plus(x, y) \in Word
  BY DEF Plus, Xor, Carries, Word
<1> QED BY <1>1, Width DEF Minus, Lit, Not, Shl, Zero, Sign, Word

\* The bit patterns floatVals starts from are words.
LEMMA FloatWords ==
  /\ {M} \in Word /\ {M - 1} \in Word
  /\ \A s, f \in Word : \A e : Pack(s, e, f) \in Word
<1>1. M \in Bit /\ M - 1 \in Bit
  BY FloatAssumption, WidthAssumption DEF Bit
<1>2. ASSUME NEW s \in Word, NEW f \in Word, NEW e
      PROVE  Pack(s, e, f) \in Word
  <2>1. Shl(Lit(e), M) \in Word
    BY DEF Shl, Word
  <2> QED BY <1>2, <2>1 DEF Pack, Word
<1> QED BY <1>1, <1>2 DEF Word

\* intVals generates words, and at least one.
LEMMA IntValues ==
  ASSUME NEW r \in Nat \ {0}
  PROVE  intVals(r) \in Seq(Word) /\ Len(intVals(r)) >= 1
<1> DEFINE Sample(k) == << Above(Sign, k), Under(Not(Sign), k), Lit(k), Minus(Lit(k)),
                           Rand[1 + (k % Len(Rand))] >>
<1>1. ASSUME NEW k \in Nat
      PROVE  Sample(k) \in [1 .. 5 -> Word]
  <2>1. Rand[1 + (k % Len(Rand))] \in Word
    <3>1. Rand \in Seq(Word) /\ Len(Rand) \in Nat /\ Len(Rand) > 0
      BY HarnessAssumption
    <3>2. 1 + (k % Len(Rand)) \in 1 .. Len(Rand)
      BY <3>1
    <3> QED BY <3>1, <3>2
  <2>2. /\ Above(Sign, k) \in Word /\ Under(Not(Sign), k) \in Word
        /\ Lit(k) \in Word /\ Minus(Lit(k)) \in Word
    <3>1. Sign \in Word /\ Not(Sign) \in Word
      BY Width DEF Sign, Not, Word
    <3>2. Lit(k) \in Word
      BY DEF Lit, Word
    <3>3. Minus(Lit(k)) \in Word
      BY <3>2, WordsOf
    <3> QED BY <3>1, <3>2, <3>3, WordsOf DEF Above, Under
  <2> QED BY <2>1, <2>2
<1> DEFINE sample == [k \in 0 .. r - 1 |-> Sample(k)]
<1>2. intVals(r) = [k \in 1 .. 5 * r |-> sample[(k - 1) \div 5][1 + ((k - 1) % 5)]]
  BY DEF intVals, Turns
<1> HIDE DEF Sample
<1>3. ASSUME NEW k \in 1 .. 5 * r
      PROVE  sample[(k - 1) \div 5][1 + ((k - 1) % 5)] \in Word
  <2>1. (k - 1) \div 5 \in 0 .. r - 1 /\ 1 + ((k - 1) % 5) \in 1 .. 5
    OBVIOUS
  <2>2. sample[(k - 1) \div 5] \in [1 .. 5 -> Word]
    BY <1>1, <2>1
  <2> QED BY <2>1, <2>2
<1> HIDE DEF sample
<1>4. intVals(r) \in [1 .. 5 * r -> Word]
  BY <1>2, <1>3
<1>5. 5 * r \in Nat /\ 5 * r >= 1
  OBVIOUS
<1> QED BY <1>4, <1>5

\* A power of two is positive, as the number of subsets of a set.
LEMMA FractionsPositive == 2 ^ M \in Nat \ {0}
<1>1. M \in Nat /\ M > 0
  BY FloatAssumption
<1>2. PICK S : S = 1 .. M
  OBVIOUS
<1>3. IsFiniteSet(S) /\ Cardinality(S) = M
  BY <1>1, <1>2, FS_Interval
<1>4. IsFiniteSet(SUBSET S) /\ Cardinality(SUBSET S) = 2 ^ M
  BY <1>3, FS_SUBSET
<1>5. Cardinality(SUBSET S) \in Nat
  BY <1>4, FS_CardinalityType
<1>6. Cardinality(SUBSET S) # 0
  BY <1>4, FS_EmptySet
<1> QED BY <1>4, <1>5, <1>6, Zenon

\* Each value and the same with the sign.
LEMMA SignedIn ==
  ASSUME NEW S, \A x \in S : x \cup Sign \in S,
         NEW s \in Seq(S), NEW r, r = Signed(s)
  PROVE  r \in Seq(S) /\ Len(r) = 2 * Len(s)
<1> DEFINE neg == [k \in DOMAIN s |-> s[k] \cup Sign]
<1>1. Len(s) \in Nat /\ DOMAIN s = 1 .. Len(s) /\ \A k \in DOMAIN s : s[k] \in S
  OBVIOUS
<1>2. neg \in [1 .. Len(s) -> S]
  BY <1>1
<1>3. neg \in Seq(S) /\ Len(neg) = Len(s)
  BY <1>1, <1>2
<1> HIDE DEF neg
<1>4. s \o neg \in Seq(S) /\ Len(s \o neg) = Len(s) + Len(neg)
  BY <1>3, ConcatProperties
<1> QED BY <1>1, <1>3, <1>4 DEF Signed, neg

\* Sequences, one after the other.
LEMMA Pieces ==
  ASSUME NEW S, NEW s \in Seq(S), NEW r \in Seq(S)
  PROVE  s \o r \in Seq(S) /\ Len(s \o r) = Len(s) + Len(r)
  BY ConcatProperties

\* The twelve values of a turn of floatVals.
LEMMA SignedFour ==
  ASSUME NEW S, \A x \in S : x \cup Sign \in S,
         NEW t1 \in Seq(S), NEW t2 \in Seq(S), NEW t3 \in Seq(S), NEW t4 \in Seq(S),
         Len(t1) = 1, Len(t2) = 2, Len(t3) = 2, Len(t4) = 1,
         NEW s, s = Signed(t1) \o Signed(t2) \o Signed(t3) \o Signed(t4)
  PROVE  s \in [1 .. 12 -> S]
<1>1. PICK s1, s2, s3, s4 : s1 = Signed(t1) /\ s2 = Signed(t2) /\ s3 = Signed(t3) /\ s4 = Signed(t4)
  OBVIOUS
<1>2. /\ s1 \in Seq(S) /\ Len(s1) = 2 * Len(t1) /\ s2 \in Seq(S) /\ Len(s2) = 2 * Len(t2)
      /\ s3 \in Seq(S) /\ Len(s3) = 2 * Len(t3) /\ s4 \in Seq(S) /\ Len(s4) = 2 * Len(t4)
  BY <1>1, SignedIn
<1>3. Len(s1) = 2 /\ Len(s2) = 4 /\ Len(s3) = 4 /\ Len(s4) = 2
  BY <1>2
<1>4. PICK u2, u3, u4 : u2 = s1 \o s2 /\ u3 = u2 \o s3 /\ u4 = u3 \o s4
  OBVIOUS
<1>5. u2 \in Seq(S) /\ Len(u2) = Len(s1) + Len(s2)
  BY <1>2, <1>4, Pieces
<1>6. u3 \in Seq(S) /\ Len(u3) = Len(u2) + Len(s3)
  BY <1>2, <1>4, <1>5, Pieces
<1>7. u4 \in Seq(S) /\ Len(u4) = Len(u3) + Len(s4)
  BY <1>2, <1>4, <1>6, Pieces
<1>8. u4 \in Seq(S) /\ Len(u4) = 12
  BY <1>3, <1>5, <1>6, <1>7
<1>9. u4 \in [1 .. Len(u4) -> S]
  BY <1>8, LenProperties
<1>10. s = u4
  BY <1>1, <1>4
<1> QED BY <1>8, <1>9, <1>10

\* What floatVals starts from, and what it makes of it in any turn, is in S.
FloatsIn(S) ==
  /\ \A x \in S : x \cup Sign \in S
  /\ \A k \in 0 .. 2 ^ M - 1 :
       /\ Lit(k) \in S
       /\ Above({M}, k) \in S /\ Under({M}, k) \in S
       /\ Above(Pack(Zero, Bias, Zero), k) \in S
       /\ Under(Pack(Zero, Bias, Zero), k) \in S
       /\ Under(Pack(Zero, ExpMax - 1, Zero), k) \in S
  /\ Pack(Zero, ExpMax, Zero) \in S
  /\ Pack(Zero, ExpMax, {M - 1}) \in S

\* It generates nothing else, and one value at least.
LEMMA FloatValuesIn ==
  ASSUME NEW S, FloatsIn(S), NEW r \in Nat \ {0}
  PROVE  floatVals(r) \in Seq(S) /\ Len(floatVals(r)) >= 1
<1>1. PICK c : c = 2 ^ M
  OBVIOUS
<1>2. c \in Nat \ {0}
  BY <1>1, FractionsPositive
<1>3. PICK q \in Nat \ {0} : q = (IF r > c THEN c ELSE r) /\ q <= c
  BY <1>2
<1>4. q = (IF r > 2 ^ M THEN 2 ^ M ELSE r)
  BY <1>1, <1>3, Zenon
<1> DEFINE smallest_norm == {M}
           one == Pack(Zero, Bias, Zero)
           largest_norm == Pack(Zero, ExpMax - 1, Zero)
           inf == Pack(Zero, ExpMax, Zero)
           nan == Pack(Zero, ExpMax, {M - 1})
           Around(k) ==
             Signed(<< Lit(k) >>)
               \o Signed(<< Above(smallest_norm, k), Under(smallest_norm, k) >>)
               \o Signed(<< Above(one, k), Under(one, k) >>)
               \o Signed(<< Under(largest_norm, k) >>)
           around == [k \in 0 .. q - 1 |-> Around(k)]
           turns == [k \in 1 .. 12 * q |-> around[(k - 1) \div 12][1 + ((k - 1) % 12)]]
<1>5. floatVals(r) = turns \o Signed(<< inf >>) \o Signed(<< nan >>)
  BY <1>4 DEF floatVals, Turns
<1>6. \A x \in S : x \cup Sign \in S
  BY DEF FloatsIn
<1>7. ASSUME NEW k \in 0 .. c - 1
      PROVE  /\ Lit(k) \in S
             /\ Above(smallest_norm, k) \in S /\ Under(smallest_norm, k) \in S
             /\ Above(one, k) \in S /\ Under(one, k) \in S /\ Under(largest_norm, k) \in S
  BY <1>1, Zenon DEF FloatsIn
<1>8. inf \in S /\ nan \in S
  BY DEF FloatsIn
<1> HIDE DEF smallest_norm, one, largest_norm, inf, nan
<1>9. ASSUME NEW k \in 0 .. q - 1
      PROVE  Around(k) \in [1 .. 12 -> S]
  <2>0. k \in 0 .. c - 1
    BY <1>2, <1>3
  <2>1. PICK t1 : t1 = << Lit(k) >>
    OBVIOUS
  <2>2. PICK t2 : t2 = << Above(smallest_norm, k), Under(smallest_norm, k) >>
    OBVIOUS
  <2>3. PICK t3 : t3 = << Above(one, k), Under(one, k) >>
    OBVIOUS
  <2>4. PICK t4 : t4 = << Under(largest_norm, k) >>
    OBVIOUS
  <2>5. t1 \in Seq(S) /\ Len(t1) = 1
    BY <1>7, <2>0, <2>1
  <2>6. t2 \in Seq(S) /\ Len(t2) = 2
    BY <1>7, <2>0, <2>2
  <2>7. t3 \in Seq(S) /\ Len(t3) = 2
    BY <1>7, <2>0, <2>3
  <2>8. t4 \in Seq(S) /\ Len(t4) = 1
    BY <1>7, <2>0, <2>4
  <2>9. PICK s : s = Signed(t1) \o Signed(t2) \o Signed(t3) \o Signed(t4)
    OBVIOUS
  <2>10. s \in [1 .. 12 -> S]
    BY <1>6, <2>5, <2>6, <2>7, <2>8, <2>9, SignedFour
  <2>11. Around(k) = s
    BY <2>1, <2>2, <2>3, <2>4, <2>9
  <2> QED BY <2>10, <2>11
<1> HIDE DEF Around
<1>10. turns \in Seq(S) /\ Len(turns) = 12 * q
  <2>1. ASSUME NEW k \in 1 .. 12 * q
        PROVE  around[(k - 1) \div 12][1 + ((k - 1) % 12)] \in S
    <3>1. (k - 1) \div 12 \in 0 .. q - 1 /\ 1 + ((k - 1) % 12) \in 1 .. 12
      OBVIOUS
    <3>2. around[(k - 1) \div 12] \in [1 .. 12 -> S]
      BY <1>9, <3>1
    <3> QED BY <3>1, <3>2
  <2>2. turns \in [1 .. 12 * q -> S]
    BY <2>1
  <2>3. 12 * q \in Nat
    OBVIOUS
  <2> HIDE DEF turns
  <2> QED BY <2>2, <2>3
<1> HIDE DEF turns
<1>11. PICK t1, t2 : t1 = << inf >> /\ t2 = << nan >>
  OBVIOUS
<1>12. t1 \in Seq(S) /\ t2 \in Seq(S)
  BY <1>8, <1>11
<1>13. PICK s1, s2 : s1 = Signed(t1) /\ s2 = Signed(t2)
  OBVIOUS
<1>14. s1 \in Seq(S) /\ s2 \in Seq(S)
  BY <1>6, <1>12, <1>13, SignedIn
<1>15. PICK u, v : u = turns \o s1 /\ v = u \o s2
  OBVIOUS
<1>16. u \in Seq(S) /\ Len(u) = Len(turns) + Len(s1)
  BY <1>10, <1>14, <1>15, Pieces
<1>17. v \in Seq(S) /\ Len(v) = Len(u) + Len(s2)
  BY <1>14, <1>15, <1>16, Pieces
<1>18. Len(v) >= 1
  <2>1. Len(s1) \in Nat /\ Len(s2) \in Nat
    BY <1>14
  <2> QED BY <1>10, <1>16, <1>17, <2>1
<1> QED BY <1>11, <1>13, <1>15, <1>17, <1>18, <1>5

\* They are words.
LEMMA FloatsAreWords == FloatsIn(Word)
<1>1. \A x \in Word : x \cup Sign \in Word
  BY WordsOf
<1>2. PICK one, largest_norm : /\ one = Pack(Zero, Bias, Zero)
                               /\ largest_norm = Pack(Zero, ExpMax - 1, Zero)
  OBVIOUS
<1>3. /\ {M} \in Word /\ one \in Word /\ largest_norm \in Word
      /\ Pack(Zero, ExpMax, Zero) \in Word /\ Pack(Zero, ExpMax, {M - 1}) \in Word
  <2>1. Zero \in Word
    BY DEF Zero, Word
  <2> QED BY <1>2, <2>1, FloatWords
<1>4. ASSUME NEW x \in Word, NEW k
      PROVE  Above(x, k) \in Word /\ Under(x, k) \in Word /\ Lit(k) \in Word
  <2>1. Lit(k) \in Word
    BY DEF Lit, Word
  <2>2. Minus(Lit(k)) \in Word
    BY <2>1, WordsOf
  <2> QED BY <2>1, <2>2, WordsOf DEF Above, Under
<1>5. \A k \in 0 .. 2 ^ M - 1 :
        /\ Lit(k) \in Word /\ Above({M}, k) \in Word /\ Under({M}, k) \in Word
        /\ Above(one, k) \in Word /\ Under(one, k) \in Word
        /\ Under(largest_norm, k) \in Word
  BY <1>3, <1>4, Zenon
<1> QED BY <1>1, <1>2, <1>3, <1>5, Zenon DEF FloatsIn

\* There is a turn, however many arguments share the range.
LEMMA RangePositive ==
  ASSUME NEW args
  PROVE  arg_test_range(args) \in Nat \ {0}
<1> DEFINE S == {1} \cup {n \in 1 .. TEST_RANGE : IF args = 3 THEN n ^ 3 < TEST_RANGE
                                                   ELSE n ^ args <= TEST_RANGE}
<1>1. TEST_RANGE \in Nat \ {0}
  BY HarnessAssumption
<1>2. S \subseteq 1 .. TEST_RANGE /\ S # {}
  BY <1>1
<1>3. arg_test_range(args) = Max(S)
  BY DEF arg_test_range
<1> HIDE DEF S
<1>4. S \subseteq Int /\ \A x \in S : x <= TEST_RANGE
  BY <1>1, <1>2
<1>5. Max(S) \in S
  <2>1. TEST_RANGE \in Int
    BY <1>1
  <2> QED BY <1>2, <1>4, <2>1, MaxOf
<1>6. Max(S) \in 1 .. TEST_RANGE
  BY <1>2, <1>5
<1> QED BY <1>1, <1>3, <1>6

\* There is a value for every argument, and they are words.
LEMMA ValuesGenerated ==
  ASSUME TypeOK, NEW t, NEW r \in Nat \ {0}, NEW k \in 1 .. 3
  PROVE  gen_vals(t, r, k) \in Seq(Word) /\ Len(gen_vals(t, r, k)) >= 1
<1>1. CASE k \in opts.has_arg
  <2>1. opts.argval[k] \in Word
    BY DEF TypeOK
  <2>2. gen_vals(t, r, k) = << opts.argval[k] >>
    BY <1>1 DEF gen_vals
  <2> QED BY <2>1, <2>2
<1>2. CASE k \notin opts.has_arg /\ t.float
  <2>1. gen_vals(t, r, k) = floatVals(r)
    BY <1>2 DEF gen_vals
  <2> QED BY <2>1, FloatsAreWords, FloatValuesIn
<1>3. CASE k \notin opts.has_arg /\ ~ t.float
  <2>1. gen_vals(t, r, k) = intVals(r)
    BY <1>3 DEF gen_vals
  <2> QED BY <2>1, IntValues
<1> QED BY <1>1, <1>2, <1>3

-----------------------------------------------------------------------------
(* Counting the calls.                                                     *)

\* Of a smaller number the multiple is smaller by one y at least.
LEMMA Multiples ==
  ASSUME NEW x \in Nat, NEW n \in Nat, NEW y \in Nat, x < n
  PROVE  x * y + y <= n * y
<1>1. PICK d \in Nat : n = (x + 1) + d
  <2>1. n - (x + 1) \in Nat
    OBVIOUS
  <2> QED BY <2>1
<1>2. n * y = (x * y + y) + d * y
  BY <1>1
<1>3. d * y \in Nat
  OBVIOUS
<1>4. x * y + y \in Nat
  OBVIOUS
<1> QED BY <1>2, <1>3, <1>4

\* Two digits.
LEMMA TwoDigits ==
  ASSUME NEW u \in Nat, NEW m \in Nat, NEW x \in Nat, NEW n \in Nat, u < m, x < n
  PROVE  u * n + x < m * n
<1>1. u * n + n <= m * n
  BY Multiples
<1>2. u * n \in Nat /\ m * n \in Nat
  OBVIOUS
<1> QED BY <1>1, <1>2

\* Three digits: the calls made are fewer than the tuples.
LEMMA RankBelow ==
  ASSUME NEW x1 \in Nat, NEW x2 \in Nat, NEW x3 \in Nat,
         NEW n1 \in Nat, NEW n2 \in Nat, NEW n3 \in Nat,
         x1 < n1, x2 < n2, x3 < n3
  PROVE  (x1 * n2 + x2) * n3 + x3 < (n1 * n2) * n3
<1>1. x1 * n2 + x2 \in Nat /\ n1 * n2 \in Nat
  OBVIOUS
<1>2. x1 * n2 + x2 < n1 * n2
  BY TwoDigits
<1> QED BY <1>1, <1>2, TwoDigits

\* With every index at its last value, one tuple is left.
LEMMA RankLast ==
  ASSUME NEW n1 \in Nat, NEW n2 \in Nat, NEW n3 \in Nat
  PROVE  (((n1 - 1) * n2 + (n2 - 1)) * n3 + (n3 - 1)) + 1 = (n1 * n2) * n3
<1>1. (n1 - 1) * n2 + (n2 - 1) = n1 * n2 - 1
  OBVIOUS
<1>2. PICK m \in Nat : m = n1 * n2
  OBVIOUS
<1>3. ((m - 1) * n3 + (n3 - 1)) + 1 = m * n3
  OBVIOUS
<1> QED BY <1>1, <1>2, <1>3

\* Where the next indices differ from these.
LEMMA NextOf ==
  ASSUME NEW n \in 0 .. 3, DOMAIN vals = 1 .. n, DOMAIN a = 1 .. n,
         \A k \in 1 .. n : vals[k] \in Seq(Word) /\ a[k] \in 1 .. Len(vals[k]),
         ~ LastCall
  PROVE  \E j \in 1 .. n :
           /\ a[j] < Len(vals[j])
           /\ \A k \in 1 .. n : k > j => a[k] = Len(vals[k])
           /\ NextIndices = [k \in 1 .. n |-> IF k < j THEN a[k]
                                            ELSE IF k = j THEN a[k] + 1 ELSE 1]
<1> DEFINE S == {k \in DOMAIN a : a[k] < Len(vals[k])}
<1>1. \A k \in 1 .. n : Len(vals[k]) \in Nat /\ a[k] \in Nat /\ a[k] <= Len(vals[k])
  OBVIOUS
<1>2. PICK k0 \in 1 .. n : a[k0] # Len(vals[k0])
  BY DEF LastCall
<1>3. k0 \in S
  BY <1>1, <1>2
<1>4. S \subseteq 1 .. n
  OBVIOUS
<1>5. S \subseteq Int /\ S # {} /\ 3 \in Int /\ \A k \in S : k <= 3
  <2> HIDE DEF S
  <2> QED BY <1>3, <1>4
<1>6. PICK j : j = Max(S)
  OBVIOUS
<1>7. j \in S /\ \A k \in S : k <= j
  <2> HIDE DEF S
  <2>1. Max(S) \in S /\ \A k \in S : k <= Max(S)
    BY <1>5, MaxOf
  <2> QED BY <1>6, <2>1
<1>8. NextIndices = [k \in 1 .. n |-> CASE k < j -> a[k] [] k = j -> a[k] + 1 [] k > j -> 1]
  BY <1>6 DEF NextIndices
<1>9. NextIndices = [k \in 1 .. n |-> IF k < j THEN a[k]
                                   ELSE IF k = j THEN a[k] + 1 ELSE 1]
  BY <1>7, <1>8
<1>10. j \in 1 .. n /\ a[j] < Len(vals[j])
  BY <1>7
<1>11. \A k \in 1 .. n : k > j => a[k] = Len(vals[k])
  <2> SUFFICES ASSUME NEW k \in 1 .. n, k > j PROVE a[k] = Len(vals[k])
    OBVIOUS
  <2>1. k \notin S
    <3>1. k \in Int /\ j \in Int /\ ~ (k <= j)
      BY <1>10
    <3> HIDE DEF S
    <3> QED BY <1>7, <3>1
  <2> QED BY <1>1, <2>1
<1> QED BY <1>9, <1>10, <1>11

\* The indices are below the counts, whatever the number of arguments.
LEMMA Digits ==
  ASSUME TypeOK, CallInv, InTest
  PROVE  /\ \A k \in 1 .. 3 : Index(k) \in Nat /\ Count(k) \in Nat /\ Index(k) < Count(k)
         /\ \A k \in 1 .. 3 : k \notin DOMAIN a => Index(k) = 0 /\ Count(k) = 1
         /\ Tuples = (Count(1) * Count(2)) * Count(3)
         /\ \E n \in 0 .. 3 : DOMAIN vals = 1 .. n /\ DOMAIN a = 1 .. n
<1>1. i \in 1 .. 13 /\ DOMAIN vals = 1 .. test.args
  BY Table DEF CallInv, InTest
<1>2. PICK n \in 0 .. 3 : n = test.args
  BY <1>1, Table DEF test
<1>3. DOMAIN vals = 1 .. n /\ DOMAIN a = 1 .. n
  <2>1. a \in [DOMAIN vals -> Nat]
    BY DEF TypeOK
  <2> QED BY <1>1, <1>2, <2>1
<1>4. \A k \in 1 .. n : vals[k] \in Seq(Word) /\ a[k] \in 1 .. Len(vals[k])
  BY <1>3 DEF TypeOK, CallInv
<1>5. ASSUME NEW k \in 1 .. 3
      PROVE  /\ Index(k) \in Nat /\ Count(k) \in Nat /\ Index(k) < Count(k)
             /\ k \notin DOMAIN a => Index(k) = 0 /\ Count(k) = 1
  <2>1. CASE k \in 1 .. n
    <3>1. Len(vals[k]) \in Nat /\ a[k] \in 1 .. Len(vals[k])
      BY <1>4, <2>1
    <3>2. Index(k) = a[k] - 1 /\ Count(k) = Len(vals[k])
      BY <1>3, <2>1 DEF Index, Count
    <3> QED BY <1>3, <2>1, <3>1, <3>2
  <2>2. CASE k \notin 1 .. n
    <3>1. Index(k) = 0 /\ Count(k) = 1
      BY <1>3, <2>2 DEF Index, Count
    <3> QED BY <3>1
  <2> QED BY <2>1, <2>2
<1>6. Tuples = (Count(1) * Count(2)) * Count(3)
  BY DEF Tuples, Count
<1> QED BY <1>3, <1>5, <1>6

\* Before the last call there are fewer calls than tuples; with it, as many.
LEMMA CallsLeft ==
  ASSUME TypeOK, CallInv, at \in {"test", "looping"}
  PROVE  /\ matched \in Nat /\ Tuples \in Nat /\ matched < Tuples
         /\ LastCall => matched + 1 = Tuples
<1>0. InTest /\ at # "agreed"
  BY DEF InTest
<1>1. PICK x1, x2, x3, n1, n2, n3 : /\ x1 = Index(1) /\ x2 = Index(2) /\ x3 = Index(3)
                                    /\ n1 = Count(1) /\ n2 = Count(2) /\ n3 = Count(3)
  OBVIOUS
<1>2. /\ x1 \in Nat /\ x2 \in Nat /\ x3 \in Nat /\ n1 \in Nat /\ n2 \in Nat /\ n3 \in Nat
      /\ x1 < n1 /\ x2 < n2 /\ x3 < n3
  BY <1>0, <1>1, Digits
<1>3. Tuples = (n1 * n2) * n3
  BY <1>0, <1>1, Digits
<1>4. matched = (x1 * n2 + x2) * n3 + x3
  BY <1>0, <1>1 DEF CallInv, Rank
<1>5. (x1 * n2 + x2) * n3 + x3 < (n1 * n2) * n3
  BY <1>2, RankBelow
<1>6. matched \in Nat
  BY DEF TypeOK
<1>7. (n1 * n2) * n3 \in Nat
  <2>1. PICK m : m = n1 * n2
    OBVIOUS
  <2>2. m \in Nat
    BY <1>2, <2>1
  <2> QED BY <1>2, <2>1, <2>2
<1>8. ASSUME LastCall
      PROVE  matched + 1 = Tuples
  <2>1. ASSUME NEW k \in 1 .. 3
        PROVE  Index(k) = Count(k) - 1
    <3>1. CASE k \in DOMAIN a
      <4>1. k \in DOMAIN vals
        BY <3>1 DEF TypeOK
      <4> QED BY <1>8, <3>1, <4>1 DEF LastCall, Index, Count
    <3>2. CASE k \notin DOMAIN a
      BY <1>0, <3>2, Digits
    <3> QED BY <3>1, <3>2
  <2>2. x1 = n1 - 1 /\ x2 = n2 - 1 /\ x3 = n3 - 1
    BY <1>1, <2>1
  <2>3. (((n1 - 1) * n2 + (n2 - 1)) * n3 + (n3 - 1)) + 1 = (n1 * n2) * n3
    BY <1>2, RankLast
  <2> QED BY <1>3, <1>4, <2>2, <2>3
<1> QED BY <1>3, <1>4, <1>5, <1>6, <1>7, <1>8

\* The next tuple is one further, whichever loop goes on.
LEMMA RankCarries ==
  ASSUME NEW x1 \in Nat, NEW x2 \in Nat, NEW x3 \in Nat, NEW n2 \in Nat, NEW n3 \in Nat
  PROVE  /\ (x1 * n2 + x2) * n3 + (x3 + 1) = ((x1 * n2 + x2) * n3 + x3) + 1
         /\ (x1 * n2 + (x2 + 1)) * n3 = ((x1 * n2 + x2) * n3 + (n3 - 1)) + 1
         /\ ((x1 + 1) * n2 + 0) * n3 = ((x1 * n2 + (n2 - 1)) * n3 + (n3 - 1)) + 1
<1>1. PICK m \in Nat : m = x1 * n2
  OBVIOUS
<1>2. (x1 + 1) * n2 = m + n2
  BY <1>1
<1>3. PICK p \in Nat : p = m + x2
  BY <1>1
<1>4. PICK q \in Nat : q = m + n2
  BY <1>1
<1>5. p * n3 + (x3 + 1) = (p * n3 + x3) + 1
  <2>1. p * n3 \in Nat
    OBVIOUS
  <2> QED BY <2>1
<1>6. (p + 1) * n3 = (p * n3 + (n3 - 1)) + 1
  OBVIOUS
<1>7. (q + 0) * n3 = ((q - 1) * n3 + (n3 - 1)) + 1
  OBVIOUS
<1>8. m + (x2 + 1) = p + 1 /\ m + (n2 - 1) = q - 1
  BY <1>3, <1>4
<1>9. (x1 + 1) * n2 = q
  BY <1>2, <1>4
<1>10. (x1 * n2 + x2) * n3 + (x3 + 1) = ((x1 * n2 + x2) * n3 + x3) + 1
  BY <1>1, <1>3, <1>5
<1>11. (x1 * n2 + (x2 + 1)) * n3 = ((x1 * n2 + x2) * n3 + (n3 - 1)) + 1
  BY <1>1, <1>3, <1>6, <1>8
<1>12. ((x1 + 1) * n2 + 0) * n3 = ((x1 * n2 + (n2 - 1)) * n3 + (n3 - 1)) + 1
  BY <1>1, <1>7, <1>8, <1>9
<1> QED BY <1>10, <1>11, <1>12

\* The nested loops go through the tuples one by one.
LEMMA NextCall ==
  ASSUME TypeOK, CallInv, InTest, ~ LastCall, a' = NextIndices, vals' = vals
  PROVE  /\ a' \in [DOMAIN vals -> Nat]
         /\ \A k \in DOMAIN vals : a'[k] \in 1 .. Len(vals[k])
         /\ Rank' = Rank + 1
<1>1. PICK n \in 0 .. 3 : DOMAIN vals = 1 .. n /\ DOMAIN a = 1 .. n
  BY Digits
<1>2. \A k \in 1 .. n : vals[k] \in Seq(Word) /\ a[k] \in 1 .. Len(vals[k])
  BY <1>1 DEF TypeOK, CallInv
<1>3. PICK j \in 1 .. n :
           /\ a[j] < Len(vals[j])
           /\ \A k \in 1 .. n : k > j => a[k] = Len(vals[k])
           /\ NextIndices = [k \in 1 .. n |-> IF k < j THEN a[k]
                                            ELSE IF k = j THEN a[k] + 1 ELSE 1]
  BY <1>1, <1>2, NextOf
<1>4. ASSUME NEW k \in 1 .. n
      PROVE  a'[k] \in Nat /\ a'[k] \in 1 .. Len(vals[k])
  <2>1. Len(vals[k]) \in Nat /\ a[k] \in Nat /\ 1 <= a[k] /\ a[k] <= Len(vals[k])
    BY <1>2
  <2>2. a'[k] = IF k < j THEN a[k] ELSE IF k = j THEN a[k] + 1 ELSE 1
    BY <1>3
  <2>3. CASE k < j
    BY <2>1, <2>2, <2>3
  <2>4. CASE k = j
    BY <1>3, <2>1, <2>2, <2>4
  <2>5. CASE ~ (k < j) /\ k # j
    BY <2>1, <2>2, <2>5
  <2> QED BY <2>3, <2>4, <2>5
<1>5. DOMAIN a' = 1 .. n
  BY <1>3
<1>6. a' \in [DOMAIN vals -> Nat]
  <2>1. a' = [k \in 1 .. n |-> a'[k]]
    BY <1>3
  <2> QED BY <1>1, <1>4, <2>1
<1>7. PICK x1, x2, x3, n1, n2, n3 : /\ x1 = Index(1) /\ x2 = Index(2) /\ x3 = Index(3)
                                    /\ n1 = Count(1) /\ n2 = Count(2) /\ n3 = Count(3)
  OBVIOUS
<1>8. /\ x1 \in Nat /\ x2 \in Nat /\ x3 \in Nat /\ n1 \in Nat /\ n2 \in Nat /\ n3 \in Nat
  BY <1>7, Digits
<1>9. PICK y1, y2, y3 : y1 = Index(1)' /\ y2 = Index(2)' /\ y3 = Index(3)'
  OBVIOUS
<1>10. Rank = (x1 * n2 + x2) * n3 + x3
  BY <1>7 DEF Rank
<1>11. Rank' = (y1 * n2 + y2) * n3 + y3
  BY <1>7, <1>9 DEF Rank, Count
<1>12. ASSUME NEW k \in 1 .. 3
       PROVE  Index(k)' = IF k < j THEN Index(k) ELSE IF k = j THEN Index(k) + 1 ELSE 0
  <2>1. CASE k \in 1 .. n
    <3>1. a[k] \in Nat
      BY <1>2, <2>1
    <3>2. a'[k] = IF k < j THEN a[k] ELSE IF k = j THEN a[k] + 1 ELSE 1
      BY <1>3, <2>1
    <3>3. Index(k)' = a'[k] - 1 /\ Index(k) = a[k] - 1
      BY <1>1, <1>5, <2>1 DEF Index
    <3> QED BY <3>1, <3>2, <3>3
  <2>2. CASE k \notin 1 .. n
    <3>1. Index(k)' = 0
      BY <1>5, <2>2 DEF Index
    <3>2. ~ (k < j) /\ k # j
      BY <2>2
    <3> QED BY <3>1, <3>2
  <2> QED BY <2>1, <2>2
<1>13. ASSUME NEW k \in 1 .. 3, k > j
       PROVE  Index(k) = Count(k) - 1
  <2>1. CASE k \in 1 .. n
    BY <1>1, <1>3, <1>13, <2>1 DEF Index, Count
  <2>2. CASE k \notin 1 .. n
    BY <1>1, <2>2 DEF Index, Count
  <2> QED BY <2>1, <2>2
<1>14. CASE j = 3
  <2>1. y1 = x1 /\ y2 = x2 /\ y3 = x3 + 1
    BY <1>7, <1>9, <1>12, <1>14
  <2> QED BY <1>1, <1>4, <1>6, <1>8, <1>10, <1>11, <2>1, RankCarries
<1>15. CASE j = 2
  <2>1. y1 = x1 /\ y2 = x2 + 1 /\ y3 = 0 /\ x3 = n3 - 1
    BY <1>7, <1>9, <1>12, <1>13, <1>15
  <2>2. (x1 * n2 + (x2 + 1)) * n3 = ((x1 * n2 + x2) * n3 + (n3 - 1)) + 1
    BY <1>8, RankCarries
  <2>3. (x1 * n2 + (x2 + 1)) * n3 \in Nat
    <3>1. PICK m \in Nat : m = x1 * n2 + (x2 + 1)
      BY <1>8
    <3> QED BY <1>8, <3>1
  <2> QED BY <1>1, <1>4, <1>6, <1>10, <1>11, <2>1, <2>2, <2>3
<1>16. CASE j = 1
  <2>1. y1 = x1 + 1 /\ y2 = 0 /\ y3 = 0 /\ x2 = n2 - 1 /\ x3 = n3 - 1
    BY <1>7, <1>9, <1>12, <1>13, <1>16
  <2>2. ((x1 + 1) * n2 + 0) * n3 = ((x1 * n2 + (n2 - 1)) * n3 + (n3 - 1)) + 1
    BY <1>8, RankCarries
  <2>3. ((x1 + 1) * n2 + 0) * n3 \in Nat
    <3>1. PICK m \in Nat : m = (x1 + 1) * n2 + 0
      BY <1>8
    <3> QED BY <1>8, <3>1
  <2> QED BY <1>1, <1>4, <1>6, <1>10, <1>11, <2>1, <2>2, <2>3
<1> QED BY <1>14, <1>15, <1>16

-----------------------------------------------------------------------------
(* The inductive invariant.                                                *)

\* At the start nothing is generated and nothing reported.
LEMMA InitBtestInv == Init => BtestInv
<1> SUFFICES ASSUME Init PROVE BtestInv
  OBVIOUS
<1>1. [k \in 1 .. 3 |-> Zero] \in [1 .. 3 -> Word]
  BY DEF Zero, Word
<1>2. opts \in [fname : OptNames \cup {""}, rating : Nat,
                has_arg : SUBSET (1 .. 3), argval : [1 .. 3 -> Word],
                limited : BOOLEAN]
  BY <1>1 DEF Init
<1>3. TypeOK
  <2>1. /\ at = "options" /\ given = 0 /\ i = 1 /\ vals = <<>> /\ a = <<>>
        /\ matched = 0 /\ alarm = FALSE /\ expiries = 0 /\ report = <<>>
        /\ points = 0 /\ max_points = 0 /\ errors = 0
    BY DEF Init
  <2>2. DOMAIN vals = {} /\ a \in [DOMAIN vals -> Nat]
    BY <2>1
  <2>3. report \in Seq(Finding)
    BY <2>1
  <2>4. at \in Place /\ alarm \in BOOLEAN
    BY <2>1 DEF Place
  <2>5. given \in 0 .. MaxOptions /\ expiries \in 0 .. MaxExpiries /\ matched \in Nat
    BY <2>1, HarnessAssumption
  <2>6. i \in 1 .. Len(test_set) + 1
    BY <2>1, Table
  <2>7. {points, max_points, errors} \subseteq Nat
    BY <2>1
  <2> QED BY <1>2, <2>2, <2>3, <2>4, <2>5, <2>6, <2>7 DEF TypeOK
<1>4. CallInv
  BY DEF Init, CallInv, InTest
<1>5. ReportInv
  <2>1. points = 0 /\ max_points = 0 /\ errors = 0 /\ report = <<>>
    BY DEF Init
  <2>2. DOMAIN report = {}
    BY <2>1
  <2>3. {k \in DOMAIN report : report[k].terrors = 1} = {}
    BY <2>2
  <2>4. errors = Cardinality({k \in DOMAIN report : report[k].terrors = 1})
    BY <2>1, <2>3, FS_EmptySet
  <2> QED BY <2>1, <2>2, <2>4 DEF ReportInv
<1> QED BY <1>3, <1>4, <1>5 DEF BtestInv

\* Reading an option changes what main has set, and perhaps ends the program.
LEMMA OptionsBtestInv == BtestInv /\ Options => BtestInv'
<1> SUFFICES ASSUME BtestInv, Options PROVE BtestInv'
  OBVIOUS
<1> DEFINE OptsType == [fname : OptNames \cup {""}, rating : Nat,
                        has_arg : SUBSET (1 .. 3), argval : [1 .. 3 -> Word],
                        limited : BOOLEAN]
<1>1. opts \in OptsType /\ given \in 0 .. MaxOptions /\ MaxOptions \in Nat
  BY HarnessAssumption DEF BtestInv, TypeOK
<1>2. at = "options" /\ UNCHANGED testVars
  BY DEF Options, OptionName, OptionRating, OptionValue, OptionNoLimit, OptionBad,
         StartTests, ReadsOption
<1>3. SUFFICES at' \in {"options", "run", "exited"} /\ opts' \in OptsType
               /\ given' \in 0 .. MaxOptions
  <2>1. UNCHANGED <<i, vals, a, matched, alarm, expiries, report, points, max_points,
                    errors>>
    BY <1>2 DEF testVars
  <2>2. TypeOK'
    BY <1>3, <2>1 DEF BtestInv, TypeOK, Place
  <2>3. CallInv'
    BY <1>2, <1>3, <2>1 DEF BtestInv, CallInv, InTest
  <2>4. ReportInv'
    BY <2>1 DEF BtestInv, ReportInv
  <2> QED BY <2>2, <2>3, <2>4 DEF BtestInv
<1>4. ReadsOption => given' \in 0 .. MaxOptions
  <2>1. ReadsOption => given < MaxOptions /\ given' = given + 1
    BY DEF ReadsOption
  <2> HIDE DEF OptsType
  <2> QED BY <1>1, <2>1
<1>5. ASSUME NEW name \in OptNames, OptionName(name)
      PROVE  at' = at /\ opts' \in OptsType /\ ReadsOption
  BY <1>1, <1>5 DEF OptionName
<1>6. ASSUME NEW n \in OptRatings, OptionRating(n)
      PROVE  at' \in {at, "exited"} /\ opts' \in OptsType /\ ReadsOption
  <2>1. n \in Int
    BY HarnessAssumption
  <2>2. CASE n < 0
    BY <1>1, <1>6, <2>2 DEF OptionRating
  <2>3. CASE ~ (n < 0)
    <3>1. n \in Nat
      BY <2>1, <2>3
    <3>2. opts' = [opts EXCEPT !.rating = n] /\ at' = at /\ ReadsOption
      BY <1>6, <2>3 DEF OptionRating
    <3>3. opts' \in OptsType
      BY <1>1, <3>1, <3>2
    <3> QED BY <3>2, <3>3
  <2> QED BY <2>2, <2>3
<1>7. ASSUME NEW k \in 1 .. 3, NEW word \in OptValues, NEW isfloat \in BOOLEAN,
             OptionValue(k, word, isfloat)
      PROVE  at' \in {at, "exited"} /\ opts' \in OptsType /\ ReadsOption
  <2>1. ReadsOption
    BY <1>7 DEF OptionValue
  <2>2. CASE at' = "exited" /\ UNCHANGED opts
    BY <1>1, <2>1, <2>2
  <2>3. CASE /\ opts' = [opts EXCEPT !.has_arg = @ \cup {k}, !.argval[k] = word]
             /\ UNCHANGED at
    <3>1. word \in Word
      BY HarnessAssumption
    <3>2. PICK o1 : o1 = [opts EXCEPT !.has_arg = @ \cup {k}]
      OBVIOUS
    <3>3. o1 \in OptsType
      BY <1>1, <3>2
    <3>4. opts' = [o1 EXCEPT !.argval[k] = word]
      BY <1>1, <2>3, <3>2
    <3>5. opts' \in OptsType
      BY <3>1, <3>3, <3>4
    <3> QED BY <2>1, <2>3, <3>5
  <2> QED BY <1>7, <2>2, <2>3 DEF OptionValue
<1>8. OptionNoLimit => at' = at /\ opts' \in OptsType /\ ReadsOption
  BY <1>1 DEF OptionNoLimit
<1>9. OptionBad => at' = "exited" /\ opts' \in OptsType /\ ReadsOption
  BY <1>1 DEF OptionBad
<1>10. StartTests => at' = "run" /\ opts' \in OptsType /\ given' = given
  BY <1>1 DEF StartTests
<1> HIDE DEF OptsType
<1> QED BY <1>1, <1>2, <1>4, <1>5, <1>6, <1>7, <1>8, <1>9, <1>10 DEF Options

\* The puzzle that is over is added to the report: without error only if it agreed
\* on every tuple.
LEMMA ScoredBtestInv ==
  ASSUME BtestInv, i \in 1 .. 13, NEW e \in {0, 1}, NEW g, Scored(e, g),
         e = 0 => g = Tuples, alarm' \in BOOLEAN, expiries' \in 0 .. MaxExpiries
  PROVE  BtestInv'
<1>1. PICK rating : rating = IF opts.rating = 0 THEN test.rating ELSE opts.rating
  OBVIOUS
<1>2. PICK found : found = [name |-> test.name, terrors |-> e, tried |-> g = Tuples]
  OBVIOUS
<1>3. /\ report' = Append(report, found)
      /\ errors' = errors + e
      /\ points' = points + (IF e = 0 THEN rating ELSE 0)
      /\ max_points' = max_points + rating
      /\ at' = "run" /\ i' = i + 1 /\ vals' = <<>> /\ a' = <<>> /\ matched' = 0
      /\ opts' = opts /\ given' = given
  BY <1>1, <1>2 DEF Scored
<1>4. found.name = test_set[i].name /\ found.terrors = e /\ (found.tried <=> g = Tuples)
  BY <1>2 DEF test
<1>5. found \in Finding
  BY <1>2, Table DEF Finding, test
<1>6. rating \in Nat \ {0}
  <2>1. test.rating \in Nat \ {0}
    BY Table DEF test
  <2>2. opts.rating \in Nat
    BY DEF BtestInv, TypeOK
  <2> QED BY <1>1, <2>1, <2>2
<1>7. PICK n \in Nat : n = Len(report) /\ DOMAIN report = 1 .. n
  <2>1. report \in Seq(Finding)
    BY DEF BtestInv, TypeOK
  <2> QED BY <2>1, LenProperties
<1>8. /\ DOMAIN report' = 1 .. n + 1
      /\ report'[n + 1] = found
      /\ \A k \in 1 .. n : report'[k] = report[k]
      /\ report' \in Seq(Finding)
  <2>1. report \in Seq(Finding)
    BY DEF BtestInv, TypeOK
  <2> QED BY <1>3, <1>5, <1>7, <2>1, AppendProperties
<1>9. TypeOK'
  <2>1. at' \in Place /\ i' \in 1 .. Len(test_set) + 1 /\ matched' \in Nat
    BY <1>3, Table DEF Place
  <2>2. DOMAIN vals' = {} /\ a' \in [DOMAIN vals' -> Nat]
    BY <1>3
  <2>3. {points, max_points, errors}' \subseteq Nat
    <3>1. points \in Nat /\ max_points \in Nat /\ errors \in Nat
      BY DEF BtestInv, TypeOK
    <3> QED BY <1>3, <1>6, <3>1
  <2>4. opts' = opts /\ given' = given
    BY <1>3
  <2> QED BY <1>8, <2>1, <2>2, <2>3, <2>4 DEF BtestInv, TypeOK
<1>10. CallInv'
  BY <1>3 DEF CallInv, InTest
<1>11. \A k \in DOMAIN report' : report'[k].terrors = 0 => report'[k].tried
  <2>1. \A k \in DOMAIN report : report[k].terrors = 0 => report[k].tried
    BY DEF BtestInv, ReportInv
  <2>2. found.terrors = 0 => found.tried
    BY <1>4
  <2> SUFFICES ASSUME NEW k \in 1 .. n + 1
               PROVE  report'[k].terrors = 0 => report'[k].tried
    BY <1>8
  <2>3. CASE k = n + 1
    <3>1. report'[k] = found
      BY <1>8, <2>3
    <3> QED BY <2>2, <3>1
  <2>4. CASE k # n + 1
    <3>1. k \in 1 .. n
      BY <2>4
    <3>2. report'[k] = report[k] /\ k \in DOMAIN report
      BY <1>7, <1>8, <3>1
    <3> QED BY <2>1, <3>2
  <2> QED BY <2>3, <2>4
<1>12. \A k \in 1 .. n : report[k].name # found.name
  <2> SUFFICES ASSUME NEW k \in 1 .. n, report[k].name = found.name PROVE FALSE
    OBVIOUS
  <2>1. PICK j \in 1 .. i - 1 : report[k].name = test_set[j].name
    BY <1>7 DEF BtestInv, ReportInv
  <2>2. j \in 1 .. 13 /\ j # i
    OBVIOUS
  <2> QED BY <1>4, <2>1, <2>2, Table
<1>13. \A k \in DOMAIN report' : \E j \in 1 .. i' - 1 : report'[k].name = test_set[j].name
  <2> SUFFICES ASSUME NEW k \in 1 .. n + 1
               PROVE  \E j \in 1 .. i : report'[k].name = test_set[j].name
    <3>1. i' - 1 = i /\ DOMAIN report' = 1 .. n + 1
      BY <1>3, <1>8
    <3> QED BY <3>1
  <2>1. CASE k = n + 1
    <3>1. report'[k].name = test_set[i].name /\ i \in 1 .. i
      BY <1>4, <1>8, <2>1
    <3> QED BY <3>1
  <2>2. CASE k # n + 1
    <3>1. k \in 1 .. n
      BY <2>2
    <3>2. PICK j \in 1 .. i - 1 : report[k].name = test_set[j].name
      BY <1>7, <3>1 DEF BtestInv, ReportInv
    <3>3. j \in 1 .. i
      OBVIOUS
    <3> QED BY <1>8, <3>1, <3>2, <3>3
  <2> QED BY <2>1, <2>2
<1>14. \A k, l \in DOMAIN report' : report'[k].name = report'[l].name => k = l
  <2>1. \A k, l \in 1 .. n : report[k].name = report[l].name => k = l
    BY <1>7 DEF BtestInv, ReportInv
  <2>2. \A k \in 1 .. n + 1 : k \in 1 .. n \/ k = n + 1
    OBVIOUS
  <2> QED BY <1>8, <1>12, <2>1, <2>2
<1>15. errors' = Cardinality({k \in DOMAIN report' : report'[k].terrors = 1})
  <2>1. PICK S : S = {k \in DOMAIN report : report[k].terrors = 1}
    OBVIOUS
  <2>2. IsFiniteSet(S)
    <3>1. S \subseteq 1 .. n
      BY <1>7, <2>1
    <3>2. IsFiniteSet(1 .. n)
      BY FS_Interval
    <3> QED BY <3>1, <3>2, FS_Subset
  <2>3. errors = Cardinality(S) /\ errors \in Nat
    BY <2>1 DEF BtestInv, ReportInv, TypeOK
  <2>4. PICK T : T = {k \in DOMAIN report' : report'[k].terrors = 1}
    OBVIOUS
  <2>5. \A k \in 1 .. n + 1 : k \in 1 .. n \/ k = n + 1
    OBVIOUS
  <2>6. \A k \in 1 .. n : k \in 1 .. n + 1 /\ k # n + 1
    OBVIOUS
  <2>7. CASE e = 0
    <3>1. T = S
      BY <1>4, <1>7, <1>8, <2>1, <2>4, <2>5, <2>6, <2>7
    <3>2. errors' = errors
      BY <1>3, <2>3, <2>7
    <3> QED BY <2>3, <2>4, <3>1, <3>2
  <2>8. CASE e = 1
    <3>1. T = S \cup {n + 1} /\ n + 1 \notin S
      BY <1>4, <1>7, <1>8, <2>1, <2>4, <2>5, <2>6, <2>8
    <3>2. Cardinality(T) = Cardinality(S) + 1
      BY <2>2, <3>1, FS_AddElement
    <3> QED BY <1>3, <2>3, <2>4, <2>8, <3>2
  <2> QED BY <2>7, <2>8
<1>16. points' <= max_points' /\ ((points' = max_points') <=> (errors' = 0))
  <2>1. points \in Nat /\ max_points \in Nat /\ errors \in Nat
    BY DEF BtestInv, TypeOK
  <2>2. points <= max_points /\ ((points = max_points) <=> (errors = 0))
    BY DEF BtestInv, ReportInv
  <2>3. CASE e = 0
    BY <1>3, <1>6, <2>1, <2>2, <2>3
  <2>4. CASE e = 1
    BY <1>3, <1>6, <2>1, <2>2, <2>4
  <2> QED BY <2>3, <2>4
<1>17. ReportInv'
  BY <1>11, <1>13, <1>14, <1>15, <1>16 DEF ReportInv
<1> QED BY <1>9, <1>10, <1>17 DEF BtestInv

\* run_tests is at a puzzle, or behind the last.
LEMMA PlaceInTable ==
  ASSUME BtestInv
  PROVE  i \in 1 .. 14
<1>1. i \in 1 .. Len(test_set) + 1
  BY DEF BtestInv, TypeOK
<1>2. Len(test_set) = 13
  BY Table
<1> QED BY <1>1, <1>2

\* run_tests between two puzzles.
LEMMA RunTestsBtestInv ==
  ASSUME BtestInv, RunTestsSkip \/ RunTestsCall \/ RunTestsEnd
  PROVE  BtestInv'
<1>1. /\ at = "run" /\ at' \in {"run", "gen", "done"} /\ i' \in 1 .. 14
      /\ at' = "gen" => i' \in 1 .. 13
      /\ i' \in {i, i + 1}
      /\ UNCHANGED <<opts, given, vals, a, matched, alarm, expiries, report, points,
                     max_points, errors>>
  <2>1. i \in 1 .. 14
    BY PlaceInTable
  <2>2. Len(test_set) = 13
    BY Table
  <2>3. CASE RunTestsSkip
    <3>1. i <= 13 /\ i' = i + 1 /\ at = "run" /\ at' = "run"
      BY <2>2, <2>3 DEF RunTestsSkip
    <3>2. i' \in 1 .. 14
      BY <2>1, <3>1
    <3> QED BY <2>3, <3>1, <3>2 DEF RunTestsSkip
  <2>4. CASE RunTestsCall
    <3>1. i <= 13 /\ i' = i
      BY <2>2, <2>4 DEF RunTestsCall, testVars
    <3>2. i' \in 1 .. 13
      BY <2>1, <3>1
    <3> QED BY <2>1, <2>4, <3>1, <3>2 DEF RunTestsCall, testVars
  <2>5. CASE RunTestsEnd
    <3>1. at = "run" /\ at' = "done" /\ i' = i
      BY <2>5 DEF RunTestsEnd, testVars
    <3> QED BY <2>1, <2>5, <3>1 DEF RunTestsEnd, testVars
  <2> QED BY <2>3, <2>4, <2>5
<1>2. TypeOK'
  <2>1. i' \in 1 .. Len(test_set) + 1 /\ at' \in Place
    BY <1>1, Table DEF Place
  <2> QED BY <1>1, <2>1 DEF BtestInv, TypeOK
<1>3. CallInv'
  BY <1>1, Table DEF BtestInv, CallInv, InTest
<1>4. ReportInv'
  <2>1. \A k \in DOMAIN report : \E j \in 1 .. i' - 1 : report[k].name = test_set[j].name
    <3> SUFFICES ASSUME NEW k \in DOMAIN report
                 PROVE  \E j \in 1 .. i' - 1 : report[k].name = test_set[j].name
      OBVIOUS
    <3>1. PICK j \in 1 .. i - 1 : report[k].name = test_set[j].name
      BY DEF BtestInv, ReportInv
    <3>2. i \in 1 .. 14
      BY PlaceInTable
    <3>3. j \in 1 .. i' - 1
      <4>1. i' = i \/ i' = i + 1
        BY <1>1
      <4> QED BY <3>2, <4>1
    <3> QED BY <3>1, <3>3
  <2> QED BY <1>1, <2>1 DEF BtestInv, ReportInv
<1> QED BY <1>2, <1>3, <1>4 DEF BtestInv

\* The values are generated, and the first call is that with all the first ones.
LEMMA StartBtestInv == BtestInv /\ TestFunctionStart => BtestInv'
<1> SUFFICES ASSUME BtestInv, TestFunctionStart PROVE BtestInv'
  OBVIOUS
<1>1. at = "gen" /\ at' = "test" /\ i \in 1 .. 13 /\ matched = 0
  BY Table DEF TestFunctionStart, BtestInv, CallInv, InTest
<1>2. PICK n \in 0 .. 3 : n = test.args
  BY <1>1, Table DEF test
<1>3. PICK r \in Nat \ {0} : r = arg_test_range(n)
  BY RangePositive
<1>4. /\ vals' = [k \in 1 .. n |-> gen_vals(test, r, k)]
      /\ a' = [k \in 1 .. n |-> 1]
  BY <1>2, <1>3 DEF TestFunctionStart
<1>5. ASSUME NEW k \in 1 .. n
      PROVE  vals'[k] \in Seq(Word) /\ Len(vals'[k]) \in Nat /\ Len(vals'[k]) >= 1
  <2>1. k \in 1 .. 3
    OBVIOUS
  <2>2. TypeOK
    BY DEF BtestInv
  <2>3. gen_vals(test, r, k) \in Seq(Word) /\ Len(gen_vals(test, r, k)) >= 1
    BY <2>1, <2>2, ValuesGenerated
  <2>4. vals'[k] = gen_vals(test, r, k)
    BY <1>4
  <2>5. vals'[k] \in Seq(Word)
    BY <2>3, <2>4
  <2> QED BY <2>3, <2>4, <2>5, LenProperties
<1>6. DOMAIN vals' = 1 .. n /\ DOMAIN a' = 1 .. n /\ a' \in [DOMAIN vals' -> Nat]
  BY <1>4
<1>7. /\ UNCHANGED <<opts, given, i, matched, expiries, report, points, max_points,
                     errors>>
      /\ alarm' = (alarm \/ opts.limited)
  BY DEF TestFunctionStart
<1>8. TypeOK'
  <2>1. alarm' \in BOOLEAN
    BY <1>7
  <2>2. at' \in Place
    BY <1>1 DEF Place
  <2>3. \A k \in DOMAIN vals' : vals'[k] \in Seq(Word)
    BY <1>5, <1>6
  <2> QED BY <1>6, <1>7, <2>1, <2>2, <2>3 DEF BtestInv, TypeOK
<1>9. Rank' = 0
  <2>1. ASSUME NEW k \in 1 .. 3
        PROVE  Index(k)' = 0
    <3>1. CASE k \in 1 .. n
      BY <1>4, <3>1 DEF Index
    <3>2. CASE k \notin 1 .. n
      BY <1>6, <3>2 DEF Index
    <3> QED BY <3>1, <3>2
  <2>2. ASSUME NEW k \in 1 .. 3
        PROVE  Count(k)' \in Nat
    <3>1. CASE k \in 1 .. n
      BY <1>5, <1>6, <3>1 DEF Count
    <3>2. CASE k \notin 1 .. n
      BY <1>6, <3>2 DEF Count
    <3> QED BY <3>1, <3>2
  <2>3. PICK n2, n3 : n2 = Count(2)' /\ n3 = Count(3)'
    OBVIOUS
  <2>4. n2 \in Nat /\ n3 \in Nat
    BY <2>2, <2>3
  <2>5. Rank' = (0 * n2 + 0) * n3 + 0
    BY <2>1, <2>3 DEF Rank
  <2> QED BY <2>4, <2>5
<1>10. CallInv'
  <2>1. i' = i /\ test' = test /\ i' \in DOMAIN test_set /\ matched' = Rank'
    BY <1>1, <1>7, <1>9, Table DEF test
  <2>2. ASSUME NEW k \in DOMAIN vals'
        PROVE  a'[k] \in 1 .. Len(vals'[k])
    <3>1. a'[k] = 1 /\ k \in 1 .. n
      BY <1>4, <1>6
    <3> QED BY <1>5, <3>1
  <2>3. InTest' /\ at' = "test"
    BY <1>1 DEF InTest
  <2> QED BY <1>2, <1>6, <2>1, <2>2, <2>3 DEF CallInv
<1>11. ReportInv'
  BY <1>7 DEF BtestInv, ReportInv
<1> QED BY <1>8, <1>10, <1>11 DEF BtestInv

\* A call that differs, the last one, and any other.
LEMMA TestCallBtestInv == BtestInv /\ TestCall => BtestInv'
<1> SUFFICES ASSUME BtestInv, TestCall PROVE BtestInv'
  OBVIOUS
<1>1. at = "test" /\ InTest /\ i \in 1 .. 13 /\ UNCHANGED <<alarm, expiries>>
  BY Table DEF TestCall, BtestInv, CallInv, InTest
<1>2. TypeOK /\ CallInv /\ alarm' \in BOOLEAN /\ expiries' \in 0 .. MaxExpiries
  BY <1>1 DEF BtestInv, TypeOK
<1>3. matched \in Nat /\ (LastCall => matched + 1 = Tuples)
  BY <1>1, <1>2, CallsLeft
<1>4. CASE Scored(1, matched)
  BY <1>1, <1>2, <1>4, ScoredBtestInv
<1>5. CASE /\ LastCall /\ at' = "agreed" /\ UNCHANGED a /\ matched' = matched + 1
           /\ UNCHANGED <<opts, given, i, vals, report, points, max_points, errors>>
  <2>1. TypeOK'
    <3>1. matched' \in Nat /\ at' \in Place
      BY <1>3, <1>5 DEF Place
    <3> QED BY <1>1, <1>2, <1>5, <3>1 DEF TypeOK
  <2>2. CallInv'
    <3>1. InTest' /\ test' = test /\ Tuples' = Tuples /\ matched' = Tuples
      BY <1>3, <1>5 DEF InTest, test, Tuples
    <3> QED BY <1>1, <1>2, <1>5, <3>1 DEF CallInv
  <2>3. ReportInv'
    BY <1>5 DEF BtestInv, ReportInv
  <2> QED BY <2>1, <2>2, <2>3 DEF BtestInv
<1>6. CASE /\ ~ LastCall /\ a' = NextIndices /\ matched' = matched + 1
           /\ UNCHANGED <<at, opts, given, i, vals, report, points, max_points, errors>>
  <2>1. /\ a' \in [DOMAIN vals -> Nat]
        /\ \A k \in DOMAIN vals : a'[k] \in 1 .. Len(vals[k])
        /\ Rank' = Rank + 1
    BY <1>1, <1>2, <1>6, NextCall
  <2>2. TypeOK'
    <3>1. matched' \in Nat
      BY <1>3, <1>6
    <3>2. a' \in [DOMAIN vals' -> Nat]
      BY <1>6, <2>1
    <3> QED BY <1>1, <1>2, <1>6, <3>1, <3>2 DEF TypeOK
  <2>3. CallInv'
    <3>1. InTest' /\ at' = "test" /\ test' = test /\ matched = Rank
      BY <1>1, <1>2, <1>6 DEF InTest, test, CallInv
    <3> QED BY <1>1, <1>2, <1>6, <2>1, <3>1 DEF CallInv
  <2>4. ReportInv'
    BY <1>6 DEF BtestInv, ReportInv
  <2> QED BY <2>2, <2>3, <2>4 DEF BtestInv
<1> QED BY <1>4, <1>5, <1>6 DEF TestCall

\* Of a puzzle that returns without error, as many calls agreed as there are tuples.
LEMMA TestReturnBtestInv == BtestInv /\ TestReturn => BtestInv'
<1> SUFFICES ASSUME BtestInv, TestReturn PROVE BtestInv'
  OBVIOUS
<1>1. at = "agreed" /\ InTest /\ Scored(0, matched) /\ UNCHANGED <<alarm, expiries>>
  BY DEF TestReturn, InTest
<1>2. i \in 1 .. 13 /\ matched = Tuples
  BY <1>1, Table DEF BtestInv, CallInv
<1>3. alarm' \in BOOLEAN /\ expiries' \in 0 .. MaxExpiries
  BY <1>1 DEF BtestInv, TypeOK
<1> QED BY <1>1, <1>2, <1>3, ScoredBtestInv

\* A puzzle that does not return leaves everything as it is.
LEMMA TestCallLoopsBtestInv == BtestInv /\ TestCallLoops => BtestInv'
<1> SUFFICES ASSUME BtestInv, TestCallLoops PROVE BtestInv'
  OBVIOUS
<1>1. /\ at = "test" /\ at' = "looping"
      /\ UNCHANGED <<opts, given, i, vals, a, matched, alarm, expiries, report, points,
                     max_points, errors>>
  BY DEF TestCallLoops, testVars
<1>2. TypeOK'
  BY <1>1 DEF BtestInv, TypeOK, Place
<1>3. CallInv'
  <2>1. InTest /\ InTest' /\ test' = test /\ Rank' = Rank
    BY <1>1 DEF InTest, test, Rank, Index, Count
  <2> QED BY <1>1, <2>1 DEF BtestInv, CallInv
<1>4. ReportInv'
  BY <1>1 DEF BtestInv, ReportInv
<1> QED BY <1>2, <1>3, <1>4 DEF BtestInv

\* The alarm expires while a puzzle is tested, before, and after.
LEMMA ExpiresBtestInv == BtestInv /\ Expires => BtestInv'
<1> SUFFICES ASSUME BtestInv, Expires PROVE BtestInv'
  OBVIOUS
<1>1. TypeOK /\ CallInv /\ expiries \in 0 .. MaxExpiries /\ MaxExpiries \in Nat
  BY HarnessAssumption DEF BtestInv, TypeOK
<1>2. CASE Timeout
  <2>1. InTest /\ i \in 1 .. 13
    BY <1>1, <1>2, Table DEF Timeout, InTest, CallInv
  <2>2. alarm' \in BOOLEAN /\ expiries' \in 0 .. MaxExpiries /\ Scored(1, matched)
    <3>1. /\ alarm' = FALSE /\ Scored(1, matched)
          /\ at = "looping" \/ expiries < MaxExpiries
          /\ expiries' = expiries + (IF at = "looping" THEN 0 ELSE 1)
      BY <1>2 DEF Timeout
    <3>2. expiries' \in 0 .. MaxExpiries
      BY <1>1, <3>1
    <3> QED BY <3>1, <3>2
  <2> QED BY <2>1, <2>2, ScoredBtestInv
<1>3. CASE TimeoutStale
  <2>1. i \in 1 .. 13
    BY <1>1, <1>3, Table DEF TimeoutStale, CallInv
  <2>2. alarm' \in BOOLEAN /\ expiries' \in 0 .. MaxExpiries /\ Scored(1, matched)
    <3>1. /\ alarm' = FALSE /\ Scored(1, matched)
          /\ expiries < MaxExpiries /\ expiries' = expiries + 1
      BY <1>3 DEF TimeoutStale
    <3>2. expiries' \in 0 .. MaxExpiries
      BY <1>1, <3>1
    <3> QED BY <3>1, <3>2
  <2> QED BY <2>1, <2>2, ScoredBtestInv
<1>4. CASE TimeoutLost
  <2>1. /\ at = "run" /\ at' = "lost" /\ alarm' = FALSE
        /\ expiries' \in 0 .. MaxExpiries
        /\ UNCHANGED <<opts, given, i, vals, a, matched, report, points, max_points,
                       errors>>
    BY <1>1, <1>4 DEF TimeoutLost
  <2>2. TypeOK'
    BY <1>1, <2>1 DEF TypeOK, Place
  <2>3. CallInv'
    BY <1>1, <2>1 DEF CallInv, InTest
  <2>4. ReportInv'
    BY <2>1 DEF BtestInv, ReportInv
  <2> QED BY <2>2, <2>3, <2>4 DEF BtestInv
<1> QED BY <1>2, <1>3, <1>4 DEF Expires

\* Nothing changes.
LEMMA StutterBtestInv == BtestInv /\ UNCHANGED vars => BtestInv'
<1> SUFFICES ASSUME BtestInv, UNCHANGED vars PROVE BtestInv'
  OBVIOUS
<1>1. UNCHANGED <<at, opts, given, i, vals, a, matched, alarm, expiries, report, points,
                  max_points, errors>>
  BY DEF vars
<1>2. TypeOK'
  BY <1>1 DEF BtestInv, TypeOK
<1>3. CallInv'
  BY <1>1 DEF BtestInv, CallInv, InTest, test, Rank, Index, Count, Tuples
<1>4. ReportInv'
  BY <1>1 DEF BtestInv, ReportInv
<1> QED BY <1>2, <1>3, <1>4 DEF BtestInv

\* Every step keeps the invariant.
LEMMA NextBtestInv == BtestInv /\ [Next]_vars => BtestInv'
<1> SUFFICES ASSUME BtestInv, [Next]_vars PROVE BtestInv'
  OBVIOUS
<1>1. CASE Options
  BY <1>1, OptionsBtestInv
<1>2. CASE RunTests
  BY <1>2, RunTestsBtestInv, StartBtestInv, TestCallBtestInv, TestReturnBtestInv
     DEF RunTests
<1>3. CASE TestCallLoops
  BY <1>3, TestCallLoopsBtestInv
<1>4. CASE Expires
  BY <1>4, ExpiresBtestInv
<1>5. CASE Rests \/ UNCHANGED vars
  <2>1. UNCHANGED vars
    BY <1>5 DEF Rests
  <2> QED BY <2>1, StutterBtestInv
<1> QED BY <1>1, <1>2, <1>3, <1>4, <1>5 DEF Next

\* The invariant holds throughout.
LEMMA BtestInvHolds == Spec => []BtestInv
  BY InitBtestInv, NextBtestInv, PTL DEF Spec

-----------------------------------------------------------------------------
(* What is claimed of the harness.                                         *)

\* The variables of the harness stay what they are meant to be: every value
\* generated is a word, there are as many indices as arguments, and the report
\* is of puzzles of the table.
THEOREM HarnessTypes == Spec => []TypeOK
<1>1. BtestInv => TypeOK
  BY DEF BtestInv
<1> QED BY <1>1, BtestInvHolds, PTL

\* Whatever options are given, whichever puzzles do not return and whenever the
\* alarm expires, a puzzle is reported without error only if it agreed with its
\* test function on every tuple of the values generated, none is reported twice,
\* and full points mean that no error was found.
THEOREM PointsAreHonest == Spec => []PointsAreEarned
<1>1. BtestInv => PointsAreEarned
  BY DEF BtestInv, ReportInv, PointsAreEarned
<1> QED BY <1>1, BtestInvHolds, PTL

-----------------------------------------------------------------------------
(* What full marks are worth.                                              *)

\* The arguments of a puzzle that are words.
LEMMA IntegersAgree ==
  ASSUME W = 32, NEW k \in 1 .. 13, ~ test_set[k].float,
         NEW args \in [1 .. test_set[k].args -> Word]
  PROVE  Agrees(test_set[k].name, args)
<1>1. k \in 1 .. 10
  <2>1. test_set[11].float /\ test_set[12].float /\ test_set[13].float
    BY DEF test_set, Puzzle
  <2> QED BY <2>1
<1>2. CASE k = 1
  <2>1. test_set[1].name = "bitXor" /\ test_set[1].args = 2
    BY DEF test_set, Puzzle
  <2>2. args[1] \in Word /\ args[2] \in Word
    BY <1>2, <2>1
  <2> QED BY <1>2, <2>1, <2>2, BitXorRight DEF Agrees, solution_funct, test_funct
<1>3. CASE k = 2
  <2>1. test_set[2].name = "tmin" /\ test_set[2].args = 0
    BY DEF test_set, Puzzle
  <2> QED BY <1>3, <2>1, TminRight DEF Agrees, solution_funct, test_funct
<1>4. CASE k = 3
  <2>1. test_set[3].name = "isTmax" /\ test_set[3].args = 1
    BY DEF test_set, Puzzle
  <2>2. args[1] \in Word
    BY <1>4, <2>1
  <2> QED BY <1>4, <2>1, <2>2, IsTmaxRight DEF Agrees, solution_funct, test_funct
<1>5. CASE k = 4
  <2>1. test_set[4].name = "allOddBits" /\ test_set[4].args = 1
    BY DEF test_set, Puzzle
  <2>2. args[1] \in Word
    BY <1>5, <2>1
  <2> QED BY <1>5, <2>1, <2>2, AllOddBitsRight DEF Agrees, solution_funct, test_funct
<1>6. CASE k = 5
  <2>1. test_set[5].name = "negate" /\ test_set[5].args = 1
    BY DEF test_set, Puzzle
  <2>2. args[1] \in Word
    BY <1>6, <2>1
  <2> QED BY <1>6, <2>1, <2>2, NegateRight DEF Agrees, solution_funct, test_funct
<1>7. CASE k = 6
  <2>1. test_set[6].name = "isAsciiDigit" /\ test_set[6].args = 1
    BY DEF test_set, Puzzle
  <2>2. args[1] \in Word
    BY <1>7, <2>1
  <2> QED BY <1>7, <2>1, <2>2, IsAsciiDigitRight DEF Agrees, solution_funct, test_funct
<1>8. CASE k = 7
  <2>1. test_set[7].name = "conditional" /\ test_set[7].args = 3
    BY DEF test_set, Puzzle
  <2>2. args[1] \in Word /\ args[2] \in Word /\ args[3] \in Word
    BY <1>8, <2>1
  <2> QED BY <1>8, <2>1, <2>2, ConditionalRight DEF Agrees, solution_funct, test_funct
<1>9. CASE k = 8
  <2>1. test_set[8].name = "isLessOrEqual" /\ test_set[8].args = 2
    BY DEF test_set, Puzzle
  <2>2. args[1] \in Word /\ args[2] \in Word
    BY <1>9, <2>1
  <2> QED BY <1>9, <2>1, <2>2, IsLessOrEqualRight DEF Agrees, solution_funct, test_funct
<1>10. CASE k = 9
  <2>1. test_set[9].name = "logicalNeg" /\ test_set[9].args = 1
    BY DEF test_set, Puzzle
  <2>2. args[1] \in Word
    BY <1>10, <2>1
  <2> QED BY <1>10, <2>1, <2>2, LogicalNegRight DEF Agrees, solution_funct, test_funct
<1>11. CASE k = 10
  <2>1. test_set[10].name = "howManyBits" /\ test_set[10].args = 1
    BY DEF test_set, Puzzle
  <2>2. args[1] \in Word
    BY <1>11, <2>1
  <2> QED BY <1>11, <2>1, <2>2, HowManyBitsRight DEF Agrees, solution_funct, test_funct
<1> QED BY <1>1, <1>2, <1>3, <1>4, <1>5, <1>6, <1>7, <1>8, <1>9, <1>10, <1>11

\* Of ints of 32 bits, and whatever of them btest tries: a puzzle on ints that it
\* passes is right on all of them.
THEOREM IntegerMarks == W = 32 => (Spec => []IntegerMarksAreRight)
<1> SUFFICES ASSUME W = 32 PROVE Spec => []IntegerMarksAreRight
  OBVIOUS
<1>1. IntegerMarksAreRight
  <2> SUFFICES ASSUME NEW t \in Range(test_set), ~ t.float, NEW args \in [1 .. t.args -> Ints]
               PROVE  Agrees(t.name, args)
    BY DEF IntegerMarksAreRight, RightOn
  <2>1. PICK k \in 1 .. 13 : t = test_set[k]
    BY Table DEF Range
  <2>2. Ints \subseteq Word
    BY HarnessAssumption
  <2>3. args \in [1 .. test_set[k].args -> Word]
    BY <2>1, <2>2
  <2> QED BY <2>1, <2>3, IntegersAgree
<1> QED BY <1>1, PTL

\* Each puzzle on floats is right on just the words not known to be wrong.
LEMMA FloatsAgree ==
  ASSUME W = 32, M = 23, NEW k \in 1 .. 13, test_set[k].float, NEW x \in Word
  PROVE  Agrees(test_set[k].name, << x >>) <=> ~ KnownWrong(test_set[k].name, x)
<1>0. FloatWidths
  BY DEF FloatWidths
<1>1. k \in {11, 12, 13}
  <2>1. /\ ~ test_set[1].float /\ ~ test_set[2].float /\ ~ test_set[3].float
        /\ ~ test_set[4].float /\ ~ test_set[5].float /\ ~ test_set[6].float
        /\ ~ test_set[7].float /\ ~ test_set[8].float /\ ~ test_set[9].float
        /\ ~ test_set[10].float
    BY DEF test_set, Puzzle
  <2> QED BY <2>1
<1>2. /\ test_set[11].name = "floatScale2" /\ test_set[12].name = "floatFloat2Int"
      /\ test_set[13].name = "floatPower2"
  BY DEF test_set, Puzzle
<1>3. << x >>[1] = x
  OBVIOUS
<1>4. CASE k = 11
  <2>1. Agrees("floatScale2", << x >>) <=> floatScale2(x) = test_floatScale2(x)
    BY <1>3 DEF Agrees, solution_funct, test_funct
  <2> QED BY <1>0, <1>2, <1>4, <2>1, FloatScale2Marks DEF KnownWrong
<1>5. CASE k = 12
  <2>1. Agrees("floatFloat2Int", << x >>) <=> floatFloat2Int(x) = test_floatFloat2Int(x)
    BY <1>3 DEF Agrees, solution_funct, test_funct
  <2> QED BY <1>0, <1>2, <1>5, <2>1, FloatFloat2IntMarks DEF KnownWrong
<1>6. CASE k = 13
  <2>1. Agrees("floatPower2", << x >>) <=> floatPower2(x) = test_floatPower2(x)
    BY <1>3 DEF Agrees, solution_funct, test_funct
  <2> QED BY <1>0, <1>2, <1>6, <2>1, FloatPower2Marks DEF KnownWrong, Under
<1> QED BY <1>1, <1>4, <1>5, <1>6

\* Of words of 32 bits, and whatever of them btest tries: a puzzle on floats that
\* it passes is wrong on all those KnownWrong names, and right on all others.
THEOREM FloatMarks == W = 32 /\ M = 23 => (Spec => []FloatMarksAreWrongWhereKnown)
<1> SUFFICES ASSUME W = 32, M = 23 PROVE Spec => []FloatMarksAreWrongWhereKnown
  OBVIOUS
<1>1. FloatMarksAreWrongWhereKnown
  <2> SUFFICES ASSUME NEW t \in Range(test_set), t.float, NEW x \in Floats \cup Ints
               PROVE  Agrees(t.name, << x >>) <=> ~ KnownWrong(t.name, x)
    BY DEF FloatMarksAreWrongWhereKnown
  <2>1. PICK k \in 1 .. 13 : t = test_set[k]
    BY Table DEF Range
  <2>2. x \in Word
    BY HarnessAssumption
  <2> QED BY <2>1, <2>2, FloatsAgree
<1> QED BY <1>1, PTL

-----------------------------------------------------------------------------
(* Why btest finds no error.                                               *)

\* Words on which no puzzle on floats is wrong: far from the largest int and from
\* -1, below 2.0 or above 2^64, and without a fraction right below infinity.
Harmless(x) ==
  /\ x \in Word
  /\ \E j \in 8 .. 30 : j \notin x
  /\ 30 \in x => 29 \in x
  /\ 24 .. 30 \subseteq x /\ 23 \notin x => x \cap (0 .. 22) = {}

\* The sign makes no difference, and small floats are among them.
LEMMA HarmlessSigned ==
  ASSUME FloatWidths, NEW x, Harmless(x)
  PROVE  Harmless(x \cup Sign)
<1>0. W = 32 /\ Sign = {31}
  BY DEF FloatWidths, Sign
<1>1. x \cup Sign \in Word
  BY <1>0 DEF Harmless, Word, Bit
<1>2. \A b \in 0 .. 30 : b \in x \cup Sign <=> b \in x
  BY <1>0
<1>3. \E j \in 8 .. 30 : j \notin x \cup Sign
  BY <1>2 DEF Harmless
<1>4. 30 \in x \cup Sign => 29 \in x \cup Sign
  BY <1>2 DEF Harmless
<1>5. ASSUME 24 .. 30 \subseteq x \cup Sign, 23 \notin x \cup Sign
      PROVE  (x \cup Sign) \cap (0 .. 22) = {}
  <2>1. 24 .. 30 \subseteq x /\ 23 \notin x
    BY <1>2, <1>5
  <2>2. x \cap (0 .. 22) = {}
    BY <2>1 DEF Harmless
  <2> QED BY <1>0, <2>2
<1> QED BY <1>1, <1>3, <1>4, <1>5 DEF Harmless

LEMMA HarmlessBelowTwo ==
  ASSUME NEW x \in Word, 30 \notin x
  PROVE  Harmless(x)
  BY DEF Harmless

\* No puzzle is wrong on such a word.
LEMMA HarmlessRight ==
  ASSUME FloatWidths, NEW x, Harmless(x)
  PROVE  /\ ~ KnownWrong("floatScale2", x)
         /\ ~ KnownWrong("floatFloat2Int", x)
         /\ ~ KnownWrong("floatPower2", x)
<1>0. W = 32 /\ M = 23 /\ ExpMax = 255 /\ Bias = 127 /\ Bias + M - 1 = 149
  BY FloatConstants DEF FloatWidths
<1>1. x \in Word
  BY DEF Harmless
<1>2. PICK e23, e24, e25, e26, e27, e28, e29, e30 :
        /\ e23 = BitOf(x, 23) /\ e24 = BitOf(x, 24) /\ e25 = BitOf(x, 25)
        /\ e26 = BitOf(x, 26) /\ e27 = BitOf(x, 27) /\ e28 = BitOf(x, 28)
        /\ e29 = BitOf(x, 29) /\ e30 = BitOf(x, 30)
  OBVIOUS
<1>3. Exponent(x) = e23 + 2 * e24 + 4 * e25 + 8 * e26 + 16 * e27 + 32 * e28
                      + 64 * e29 + 128 * e30
  BY <1>1, <1>2, ExponentBits
<1>4. /\ e23 \in {0, 1} /\ e24 \in {0, 1} /\ e25 \in {0, 1} /\ e26 \in {0, 1}
      /\ e27 \in {0, 1} /\ e28 \in {0, 1} /\ e29 \in {0, 1} /\ e30 \in {0, 1}
  BY <1>2 DEF BitOf
<1>5. ~ KnownWrong("floatScale2", x)
  <2>1. ASSUME Exponent(x) = 254 PROVE Fraction(x) = Zero
    <3>1. /\ e23 = 0 /\ e24 = 1 /\ e25 = 1 /\ e26 = 1 /\ e27 = 1 /\ e28 = 1 /\ e29 = 1
          /\ e30 = 1
      BY <1>3, <1>4, <2>1
    <3>2. /\ 23 \notin x /\ 24 \in x /\ 25 \in x /\ 26 \in x /\ 27 \in x /\ 28 \in x
          /\ 29 \in x /\ 30 \in x
      BY <1>2, <3>1 DEF BitOf
    <3>3. 24 .. 30 \subseteq x
      BY <3>2
    <3>4. x \cap (0 .. 22) = {}
      BY <3>2, <3>3 DEF Harmless
    <3> QED BY <1>0, <3>4 DEF Fraction, Zero
  <2> QED BY <1>0, <2>1 DEF KnownWrong
<1>6. ~ KnownWrong("floatFloat2Int", x)
  <2>1. e30 = 1 => e29 = 1
    BY <1>2 DEF Harmless, BitOf
  <2>2. ~ (Exponent(x) - 127 \in 1 .. 30)
    BY <1>3, <1>4, <2>1
  <2> QED BY <1>0, <2>2 DEF KnownWrong
<1>7. ~ KnownWrong("floatPower2", x)
  <2>1. PICK j \in 8 .. 30 : j \notin x
    BY DEF Harmless
  <2>2. /\ W - 1 \notin x => IntOf(x) <= IntOf(Not(Sign)) - 256
        /\ W - 1 \in x => IntOf(x) <= -257
    BY <1>1, <2>1, FarFromEnds
  <2>3. Sign \subseteq x <=> W - 1 \in x
    BY DEF Sign
  <2>4. PICK v \in Int, T \in Int : v = IntOf(x) /\ T = IntOf(Not(Sign))
    BY <1>0, <1>1, TmaxLarge, IntOrder
  <2>5. CASE W - 1 \in x
    <3>1. v <= -257
      BY <2>2, <2>4, <2>5
    <3>2. ASSUME x # Sign PROVE Less(Lit(149), Minus(x))
      <4>1. Minus(x) \in Word /\ IntOf(Minus(x)) = - v
        BY <1>0, <1>1, <2>4, <3>2, IntOfMinus
      <4>2. 149 < - v
        BY <3>1
      <4> QED BY <4>1, <4>2, PowerLiterals, IntOrder
    <3> QED BY <1>0, <2>3, <2>5, <3>2 DEF KnownWrong
  <2>6. CASE W - 1 \notin x
    <3>1. ~ (T - 127 < v)
      BY <2>2, <2>4, <2>6
    <3>2. ~ Less(Plus(Not(Sign), Minus(Lit(Bias))), x)
      BY <1>1, <2>4, <3>1, BiasOverflow
    <3> QED BY <2>3, <2>6, <3>2 DEF KnownWrong, Under
  <2> QED BY <2>5, <2>6
<1> QED BY <1>5, <1>6, <1>7

\* What a turn of floatVals takes away from a float leaves its lowest bit, or clears
\* it and leaves bits below it.
LEMMA UnderIs ==
  ASSUME FloatWidths, NEW n \in Word, NEW p \in 23 .. 30, p \in n, n \subseteq p .. 30,
         NEW k, Short(k)
  PROVE  \/ Under(n, k) = n
         \/ \E low : /\ low \subseteq 0 .. p - 1 /\ Under(n, k) = (n \ {p}) \cup low
                     /\ p = 24 => 23 \in low
<1>0. W = 32
  BY DEF FloatWidths
<1>1. CASE Lit(k) = Zero
  <2>1. Minus(Zero) = {} /\ Minus(Zero) \in Word
    BY DEF Minus, Zero, Word
  <2>2. Plus(n, {}) = n
    BY <2>1, AddApart
  <2> QED BY <1>1, <2>1, <2>2 DEF Under
<1>2. CASE Lit(k) # Zero
  <2>1. PICK m : m = Minus(Lit(k))
    OBVIOUS
  <2>2. PICK low : low = {b \in m : b < p}
    OBVIOUS
  <2>3. Under(n, k) = (n \ {p}) \cup low
    BY <1>2, <2>1, <2>2, TakeAway DEF Under
  <2>4. low \subseteq 0 .. p - 1
    BY <1>0, <2>1, <2>2 DEF Minus, Bit
  <2>5. p = 24 => 23 \in low
    <3>1. Lit(k) \subseteq 0 .. 22 /\ Lit(k) \in Word
      BY LitRange
    <3>2. 23 \in Bit
      BY <1>0 DEF Bit
    <3>3. PICK l \in Lit(k) : \A j \in Lit(k) : l <= j
      BY <1>2, <3>1, LowestOne
    <3>4. 23 \in m <=> 23 = l \/ (23 > l /\ 23 \notin Lit(k))
      BY <2>1, <3>1, <3>2, <3>3, MinusBits
    <3>5. 23 > l /\ 23 \notin Lit(k)
      BY <3>1, <3>3
    <3> QED BY <2>2, <3>4, <3>5
  <2> QED BY <2>3, <2>4, <2>5
<1> QED BY <1>1, <1>2

LEMMA AboveIs ==
  ASSUME FloatWidths, NEW n \in Word, n \subseteq 23 .. 30, NEW k, Short(k)
  PROVE  Above(n, k) = n \cup Lit(k) /\ Lit(k) \subseteq 0 .. 22 /\ Lit(k) \in Word
<1>1. Lit(k) \subseteq 0 .. 22 /\ Lit(k) \in Word
  BY LitRange
<1>2. n \cap Lit(k) = {}
  BY <1>1
<1> QED BY <1>1, <1>2, AddApart DEF Above

\* The floats floatVals starts from.
LEMMA Starts ==
  ASSUME FloatWidths
  PROVE  /\ Pack(Zero, Bias, Zero) = 23 .. 29
         /\ Pack(Zero, ExpMax - 1, Zero) = 24 .. 30
         /\ Pack(Zero, ExpMax, Zero) = 23 .. 30
         /\ Pack(Zero, ExpMax, {M - 1}) = 22 .. 30
<1>0. W = 32 /\ M = 23 /\ ExpMax = 255 /\ Bias = 127
  BY FloatConstants DEF FloatWidths
<1>1. ASSUME NEW n \in 0 .. 255, NEW w, w \subseteq 0 .. 7, IntOf(w) = n
      PROVE  Shl(Lit(n), M) = {b \in Bit : b - 23 \in w}
  <2>1. Lit(n) = w
    BY <1>0, <1>1, SmallIsLit
  <2> QED BY <1>0, <2>1 DEF Shl
<1>2. PICK w1, w2, w3 : w1 = 0 .. 6 /\ w2 = 1 .. 7 /\ w3 = 0 .. 7
  OBVIOUS
<1>3. w1 \subseteq 0 .. 7 /\ w2 \subseteq 0 .. 7 /\ w3 \subseteq 0 .. 7
  BY <1>2
<1>4. IntOf(w1) = 127 /\ IntOf(w2) = 254 /\ IntOf(w3) = 255
  <2>1. /\ \A b \in 0 .. 6 : BitOf(w1, b) = 1 /\ BitOf(w3, b) = 1
        /\ \A b \in 1 .. 7 : BitOf(w2, b) = 1
        /\ BitOf(w1, 7) = 0 /\ BitOf(w2, 0) = 0 /\ BitOf(w3, 7) = 1
    BY <1>2 DEF BitOf
  <2>2. IntOf(w1) = 127
    <3>1. /\ BitOf(w1, 0) = 1 /\ BitOf(w1, 1) = 1 /\ BitOf(w1, 2) = 1 /\ BitOf(w1, 3) = 1
          /\ BitOf(w1, 4) = 1 /\ BitOf(w1, 5) = 1 /\ BitOf(w1, 6) = 1 /\ BitOf(w1, 7) = 0
      BY <2>1
    <3>2. IntOf(w1) = BitOf(w1, 0) + 2 * BitOf(w1, 1) + 4 * BitOf(w1, 2)
            + 8 * BitOf(w1, 3) + 16 * BitOf(w1, 4) + 32 * BitOf(w1, 5)
            + 64 * BitOf(w1, 6) + 128 * BitOf(w1, 7)
      BY <1>0, <1>3, SmallNumber
    <3> QED BY <3>1, <3>2
  <2>3. IntOf(w2) = 254
    <3>1. /\ BitOf(w2, 0) = 0 /\ BitOf(w2, 1) = 1 /\ BitOf(w2, 2) = 1 /\ BitOf(w2, 3) = 1
          /\ BitOf(w2, 4) = 1 /\ BitOf(w2, 5) = 1 /\ BitOf(w2, 6) = 1 /\ BitOf(w2, 7) = 1
      BY <2>1
    <3>2. IntOf(w2) = BitOf(w2, 0) + 2 * BitOf(w2, 1) + 4 * BitOf(w2, 2)
            + 8 * BitOf(w2, 3) + 16 * BitOf(w2, 4) + 32 * BitOf(w2, 5)
            + 64 * BitOf(w2, 6) + 128 * BitOf(w2, 7)
      BY <1>0, <1>3, SmallNumber
    <3> QED BY <3>1, <3>2
  <2>4. IntOf(w3) = 255
    <3>1. /\ BitOf(w3, 0) = 1 /\ BitOf(w3, 1) = 1 /\ BitOf(w3, 2) = 1 /\ BitOf(w3, 3) = 1
          /\ BitOf(w3, 4) = 1 /\ BitOf(w3, 5) = 1 /\ BitOf(w3, 6) = 1 /\ BitOf(w3, 7) = 1
      BY <2>1
    <3>2. IntOf(w3) = BitOf(w3, 0) + 2 * BitOf(w3, 1) + 4 * BitOf(w3, 2)
            + 8 * BitOf(w3, 3) + 16 * BitOf(w3, 4) + 32 * BitOf(w3, 5)
            + 64 * BitOf(w3, 6) + 128 * BitOf(w3, 7)
      BY <1>0, <1>3, SmallNumber
    <3> QED BY <3>1, <3>2
  <2> QED BY <2>2, <2>3, <2>4
<1>5. /\ Shl(Lit(127), M) = 23 .. 29 /\ Shl(Lit(254), M) = 24 .. 30
      /\ Shl(Lit(255), M) = 23 .. 30
  <2>1. 127 \in 0 .. 255 /\ 254 \in 0 .. 255 /\ 255 \in 0 .. 255
    OBVIOUS
  <2>2. /\ Shl(Lit(127), M) = {b \in Bit : b - 23 \in w1}
        /\ Shl(Lit(254), M) = {b \in Bit : b - 23 \in w2}
        /\ Shl(Lit(255), M) = {b \in Bit : b - 23 \in w3}
    BY <1>1, <1>3, <1>4, <2>1
  <2>3. Bit = 0 .. 31
    BY <1>0 DEF Bit
  <2>4. /\ {b \in 0 .. 31 : b - 23 \in w1} = 23 .. 29
        /\ {b \in 0 .. 31 : b - 23 \in w2} = 24 .. 30
        /\ {b \in 0 .. 31 : b - 23 \in w3} = 23 .. 30
    BY <1>2
  <2> QED BY <2>2, <2>3, <2>4
<1>6. ExpMax - 1 = 254 /\ {M - 1} = {22}
  BY <1>0
<1>7. (23 .. 30) \cup {22} = 22 .. 30
  OBVIOUS
<1> QED BY <1>0, <1>5, <1>6, <1>7 DEF Pack, Zero

\* All that floatVals generates is harmless.
LEMMA FloatsAreHarmless ==
  ASSUME FloatWidths
  PROVE  FloatsIn({x \in Word : Harmless(x)})
<1>0. W = 32 /\ M = 23
  BY DEF FloatWidths
<1>1. PICK S : S = {x \in Word : Harmless(x)}
  OBVIOUS
<1>2. \A x : Harmless(x) => x \in S
  BY <1>1 DEF Harmless
<1>3. \A x \in S : x \cup Sign \in S
  BY <1>1, <1>2, HarmlessSigned
<1>4. PICK smallest_norm, one, largest_norm, inf, nan :
        /\ smallest_norm = {M} /\ one = Pack(Zero, Bias, Zero)
        /\ largest_norm = Pack(Zero, ExpMax - 1, Zero)
        /\ inf = Pack(Zero, ExpMax, Zero) /\ nan = Pack(Zero, ExpMax, {M - 1})
  OBVIOUS
<1>5. /\ smallest_norm = {23} /\ one = 23 .. 29 /\ largest_norm = 24 .. 30
      /\ inf = 23 .. 30 /\ nan = 22 .. 30
  BY <1>0, <1>4, Starts
<1>6. \A x : x \subseteq 0 .. 31 => x \in Word
  BY <1>0 DEF Word, Bit
<1>7. /\ smallest_norm \in Word /\ one \in Word /\ largest_norm \in Word
      /\ inf \in Word /\ nan \in Word
  BY <1>5, <1>6
<1>8. inf \in S /\ nan \in S
  <2>1. /\ 8 \notin inf /\ 8 \notin nan /\ 29 \in inf /\ 29 \in nan
        /\ 23 \in inf /\ 23 \in nan /\ 8 \in 8 .. 30
    BY <1>5
  <2> QED BY <1>2, <1>7, <2>1 DEF Harmless
<1>9. ASSUME NEW k, Short(k)
      PROVE  /\ Lit(k) \in S
             /\ Above(smallest_norm, k) \in S /\ Under(smallest_norm, k) \in S
             /\ Above(one, k) \in S /\ Under(one, k) \in S /\ Under(largest_norm, k) \in S
  <2>1. Lit(k) \subseteq 0 .. 22 /\ Lit(k) \in Word
    BY <1>9, LitRange
  <2>2. Lit(k) \in S
    <3>1. 30 \notin Lit(k)
      BY <2>1
    <3> QED BY <1>2, <2>1, <3>1, HarmlessBelowTwo
  <2>3. ASSUME NEW n \in Word, n \subseteq 23 .. 29
        PROVE  Above(n, k) \in S
    <3>1. Above(n, k) = n \cup Lit(k)
      <4>1. n \subseteq 23 .. 30
        BY <2>3
      <4> QED BY <1>9, <4>1, AboveIs
    <3>2. 30 \notin n \cup Lit(k)
      <4>1. 30 \notin 23 .. 29 /\ 30 \notin 0 .. 22
        OBVIOUS
      <4> QED BY <2>1, <2>3, <4>1
    <3>3. n \cup Lit(k) \in Word
      BY <2>1 DEF Word
    <3> QED BY <1>2, <3>1, <3>2, <3>3, HarmlessBelowTwo
  <2>4. ASSUME NEW n \in Word, n \subseteq 23 .. 29, 23 \in n
        PROVE  Under(n, k) \in S
    <3>1. PICK u : u = Under(n, k)
      OBVIOUS
    <3>2. n \subseteq 23 .. 30 /\ 23 \in 23 .. 30
      BY <2>4
    <3>3. u = n \/ \E low : low \subseteq 0 .. 22 /\ u = (n \ {23}) \cup low
      <4>1. \/ Under(n, k) = n
            \/ \E low : /\ low \subseteq 0 .. 23 - 1 /\ Under(n, k) = (n \ {23}) \cup low
                        /\ 23 = 24 => 23 \in low
        BY <1>9, <2>4, <3>2, UnderIs
      <4>2. 23 - 1 = 22
        OBVIOUS
      <4> QED BY <3>1, <4>1, <4>2
    <3>4. \A h \in u : h \in 0 .. 31 /\ h # 30
      <4>1. \A h \in n : h \in 0 .. 31 /\ h # 30
        <5>1. \A h \in 23 .. 29 : h \in 0 .. 31 /\ h # 30
          OBVIOUS
        <5> QED BY <2>4, <5>1
      <4>2. CASE u = n
        BY <4>1, <4>2
      <4>3. CASE u # n
        <5>1. PICK low : low \subseteq 0 .. 22 /\ u = (n \ {23}) \cup low
          BY <3>3, <4>3
        <5>2. \A h \in 0 .. 22 : h \in 0 .. 31 /\ h # 30
          OBVIOUS
        <5> QED BY <4>1, <5>1, <5>2
      <4> QED BY <4>2, <4>3
    <3>5. u \in Word /\ 30 \notin u
      <4>1. u \subseteq 0 .. 31
        BY <3>4
      <4> QED BY <1>6, <3>4, <4>1
    <3> QED BY <1>2, <3>1, <3>5, HarmlessBelowTwo
  <2>5. Under(largest_norm, k) \in S
    <3>1. PICK u : u = Under(largest_norm, k)
      OBVIOUS
    <3>2. 24 \in 23 .. 30 /\ 24 \in largest_norm /\ largest_norm \subseteq 24 .. 30
      BY <1>5
    <3>3. \/ u = largest_norm
          \/ \E low : /\ low \subseteq 0 .. 24 - 1 /\ u = (largest_norm \ {24}) \cup low
                      /\ 24 = 24 => 23 \in low
      BY <1>7, <1>9, <3>1, <3>2, UnderIs
    <3>4. CASE u = largest_norm
      <4>1. u \in Word /\ 8 \notin u /\ 8 \in 8 .. 30 /\ 29 \in u /\ u \cap (0 .. 22) = {}
        BY <1>5, <1>7, <3>4
      <4> QED BY <1>2, <3>1, <4>1 DEF Harmless
    <3>5. CASE u # largest_norm
      <4>1. PICK low : low \subseteq 0 .. 23 /\ u = (largest_norm \ {24}) \cup low
        BY <3>3, <3>5
      <4>2. u \subseteq 0 .. 31 /\ 24 \notin u /\ 29 \in u /\ 24 \in 8 .. 30 /\ 24 \in 24 .. 30
        BY <1>5, <4>1
      <4>3. u \in Word
        BY <1>6, <4>2
      <4> QED BY <1>2, <3>1, <4>2, <4>3 DEF Harmless
    <3> QED BY <3>4, <3>5
  <2>6. /\ smallest_norm \subseteq 23 .. 29 /\ 23 \in smallest_norm
        /\ one \subseteq 23 .. 29 /\ 23 \in one
    BY <1>5
  <2> QED BY <1>7, <2>2, <2>3, <2>4, <2>5, <2>6
<1>10. \A k \in 0 .. 2 ^ M - 1 : Short(k)
  <2>1. PICK c : c = 2 ^ M
    OBVIOUS
  <2>2. c = 2 ^ 23
    BY <1>0, <2>1, Zenon
  <2>3. c \in Nat
    BY <2>1, FractionsPositive, Zenon
  <2>4. \A k \in 0 .. c - 1 : k \in Nat /\ k < c
    BY <2>3
  <2>5. \A k \in 0 .. c - 1 : Short(k)
    BY <2>2, <2>4, Zenon DEF Short
  <2> QED BY <2>1, <2>5, Zenon
<1>11. \A k \in 0 .. 2 ^ M - 1 :
         /\ Lit(k) \in S /\ Above({M}, k) \in S /\ Under({M}, k) \in S
         /\ Above(Pack(Zero, Bias, Zero), k) \in S
         /\ Under(Pack(Zero, Bias, Zero), k) \in S
         /\ Under(Pack(Zero, ExpMax - 1, Zero), k) \in S
  BY <1>4, <1>9, <1>10, Zenon
<1> QED BY <1>1, <1>3, <1>4, <1>8, <1>11, Zenon DEF FloatsIn

\* Of 32 bits, with no argument given, the floats in a test are harmless.
ValuesInv ==
  InTest /\ opts.has_arg = {} /\ test.float =>
    \A k \in DOMAIN vals : vals[k] \in Seq({x \in Word : Harmless(x)})

\* They are when they are generated, and the calls leave them as they are.
LEMMA NextValuesInv ==
  ASSUME W = 32, M = 23, BtestInv, ValuesInv, [Next]_vars
  PROVE  ValuesInv'
<1> SUFFICES ASSUME InTest', opts'.has_arg = {}, test'.float, NEW k \in DOMAIN vals'
             PROVE  vals'[k] \in Seq({x \in Word : Harmless(x)})
  BY DEF ValuesInv
<1>0. FloatWidths
  BY DEF FloatWidths
<1>1. CASE UNCHANGED vals /\ UNCHANGED i /\ UNCHANGED opts /\ InTest
  BY <1>1 DEF ValuesInv, test
<1>2. CASE TestFunctionStart
  <2>1. i' = i /\ opts' = opts /\ vals' = [l \in 1 .. test.args |->
                                          gen_vals(test, arg_test_range(test.args), l)]
    BY <1>2 DEF TestFunctionStart
  <2>2. k \in 1 .. test.args /\ vals'[k] = gen_vals(test, arg_test_range(test.args), k)
    BY <2>1
  <2>3. opts.has_arg = {} /\ test.float
    BY <2>1 DEF test
  <2>4. vals'[k] = floatVals(arg_test_range(test.args))
    BY <2>2, <2>3 DEF gen_vals
  <2> QED BY <1>0, <2>4, RangePositive, FloatsAreHarmless, FloatValuesIn
<1>3. CASE Options
  <2>1. at' \in {"options", "run", "exited"}
    BY <1>3 DEF Options, OptionName, OptionRating, OptionValue, OptionNoLimit, OptionBad,
                StartTests, ReadsOption
  <2> QED BY <2>1 DEF InTest
<1>4. CASE RunTestsSkip \/ RunTestsCall \/ RunTestsEnd
  <2>1. at' \in {"run", "gen", "done"}
    BY <1>4 DEF RunTestsSkip, RunTestsCall, RunTestsEnd
  <2> QED BY <2>1 DEF InTest
<1>5. CASE TestCall
  <2>1. at = "test" /\ (at' = "run" \/ UNCHANGED <<opts, i, vals>>)
    BY <1>5 DEF TestCall, Scored
  <2> QED BY <1>1, <2>1 DEF InTest
<1>6. CASE TestCallLoops
  BY <1>1, <1>6 DEF TestCallLoops, testVars, InTest
<1>7. CASE TestReturn
  <2>1. at' = "run"
    BY <1>7 DEF TestReturn, Scored
  <2> QED BY <2>1 DEF InTest
<1>8. CASE Expires
  <2>1. at' \in {"run", "lost"}
    BY <1>8 DEF Expires, Timeout, TimeoutStale, TimeoutLost, Scored
  <2> QED BY <2>1 DEF InTest
<1>9. CASE Rests \/ UNCHANGED vars
  BY <1>1, <1>9 DEF Rests, vars, InTest
<1> QED BY <1>2, <1>3, <1>4, <1>5, <1>6, <1>7, <1>8, <1>9 DEF Next, RunTests

\* Such a call agrees: on ints every call does, and on floats all harmless ones.
LEMMA CallAgrees ==
  ASSUME W = 32, M = 23, BtestInv, ValuesInv, at = "test", opts.has_arg = {}
  PROVE  Agrees(test.name, Arguments)
<1>0. FloatWidths
  BY DEF FloatWidths
<1>1. i \in 1 .. 13 /\ DOMAIN vals = 1 .. test.args /\ DOMAIN a = 1 .. test.args
  <2>1. TypeOK /\ CallInv /\ InTest
    BY DEF BtestInv, InTest
  <2> QED BY <2>1, Table DEF TypeOK, CallInv
<1>2. \A k \in 1 .. test.args : vals[k] \in Seq(Word) /\ a[k] \in 1 .. Len(vals[k])
  BY <1>1 DEF BtestInv, TypeOK, CallInv, InTest
<1>3. CASE ~ test.float
  <2>1. \A k \in 1 .. test.args : vals[k][a[k]] \in Word
    BY <1>2
  <2>2. Arguments \in [1 .. test.args -> Word]
    BY <1>1, <2>1 DEF Arguments
  <2> QED BY <1>1, <1>3, <2>2, IntegersAgree DEF test
<1>4. CASE test.float
  <2>1. i \in {11, 12, 13}
    <3>1. /\ ~ test_set[1].float /\ ~ test_set[2].float /\ ~ test_set[3].float
          /\ ~ test_set[4].float /\ ~ test_set[5].float /\ ~ test_set[6].float
          /\ ~ test_set[7].float /\ ~ test_set[8].float /\ ~ test_set[9].float
          /\ ~ test_set[10].float
      BY DEF test_set, Puzzle
    <3> QED BY <1>1, <1>4, <3>1 DEF test
  <2>2. test.args = 1 /\ test.name \in {"floatScale2", "floatFloat2Int", "floatPower2"}
    <3>1. /\ test_set[11].name = "floatScale2" /\ test_set[12].name = "floatFloat2Int"
          /\ test_set[13].name = "floatPower2"
          /\ test_set[11].args = 1 /\ test_set[12].args = 1 /\ test_set[13].args = 1
      BY DEF test_set, Puzzle
    <3> QED BY <2>1, <3>1 DEF test
  <2>3. PICK x : x = vals[1][a[1]]
    OBVIOUS
  <2>4. x \in Word /\ Harmless(x)
    <3>1. vals[1] \in Seq({y \in Word : Harmless(y)})
      BY <1>1, <1>4, <2>2 DEF ValuesInv, InTest
    <3>2. a[1] \in 1 .. Len(vals[1])
      BY <1>2, <2>2
    <3> QED BY <2>3, <3>1, <3>2
  <2>5. Arguments = << x >>
    <3>1. DOMAIN a = 1 .. 1
      BY <1>1, <2>2
    <3>2. Arguments = [k \in 1 .. 1 |-> x]
      BY <2>3, <3>1 DEF Arguments
    <3> QED BY <3>2
  <2>6. ~ KnownWrong(test.name, x)
    BY <1>0, <2>2, <2>4, HarmlessRight
  <2> QED BY <1>1, <1>4, <2>4, <2>5, <2>6, FloatsAgree DEF test
<1> QED BY <1>3, <1>4

\* Of 32 bits, however many values btest tries around each border and whatever its
\* random ones: as long as it generates the arguments itself, it counts no error
\* but those of its alarm, so that without one it gives full marks to bits.c.
THEOREM ErrorsAreAlarms == W = 32 /\ M = 23 => (Spec => ErrorsAreOfTheAlarm)
<1> SUFFICES ASSUME W = 32, M = 23 PROVE Spec => ErrorsAreOfTheAlarm
  OBVIOUS
<1>1. Init => ValuesInv
  BY DEF Init, ValuesInv, InTest
<1>2. BtestInv /\ ValuesInv /\ [Next]_vars => ValuesInv'
  BY NextValuesInv
<1>3. BtestInv /\ ValuesInv /\ [Next]_vars =>
        [opts.has_arg = {} /\ errors' # errors => Timeout \/ TimeoutStale]_vars
  <2> SUFFICES ASSUME BtestInv, ValuesInv, Next, opts.has_arg = {}, errors' # errors
               PROVE  Timeout \/ TimeoutStale
    BY DEF vars
  <2>1. errors \in Nat
    BY DEF BtestInv, TypeOK
  <2>2. ~ Options
    BY DEF Options, OptionName, OptionRating, OptionValue, OptionNoLimit, OptionBad,
           StartTests, ReadsOption, testVars
  <2>3. ~ RunTestsSkip /\ ~ RunTestsCall /\ ~ RunTestsEnd /\ ~ TestFunctionStart
    BY DEF RunTestsSkip, RunTestsCall, RunTestsEnd, TestFunctionStart, testVars
  <2>4. ~ TestCall
    <3> SUFFICES ASSUME TestCall PROVE FALSE
      OBVIOUS
    <3>1. Agrees(test.name, Arguments)
      BY CallAgrees DEF TestCall
    <3>2. errors' = errors
      BY <2>1, <3>1 DEF TestCall, Scored
    <3> QED BY <3>2
  <2>5. ~ TestReturn
    BY <2>1 DEF TestReturn, Scored
  <2>6. ~ TestCallLoops /\ ~ TimeoutLost /\ ~ Rests
    BY DEF TestCallLoops, testVars, TimeoutLost, Rests, vars
  <2> QED BY <2>2, <2>3, <2>4, <2>5, <2>6 DEF Next, RunTests, Expires
<1> QED BY <1>1, <1>2, <1>3, BtestInvHolds, PTL DEF Spec, ErrorsAreOfTheAlarm

=============================================================================
