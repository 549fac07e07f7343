------------------------------ MODULE BitsTests ------------------------------
(***************************************************************************)
(* What the puzzles of bits.c are to compute: the functions of tests.c that *)
(* btest compares them with, and the table of both in decl.c.              *)
(***************************************************************************)
EXTENDS Bits, Sequences

test_bitXor(x, y) == Xor(x, y)

test_tmin == Sign

test_isTmax(x) == Truth(x = Not(Sign))

test_allOddBits(x) == Truth(\A i \in Bit : i % 2 = 1 => i \in x)

test_negate(x) == Minus(x)

test_isAsciiDigit(x) == Truth(~Less(x, Lit(48)) /\ ~Less(Lit(57), x))

test_conditional(x, y, z) == IF x # Zero THEN y ELSE z

test_isLessOrEqual(x, y) == Truth(~Less(y, x))

test_logicalNeg(x) == Bang(x)

\* The word without its sign, -x - 1 for a negative one, is shifted out.
test_howManyBits(x) ==
  LET a == IF Sign \subseteq x THEN Plus(Minus(x), Not(Zero)) ELSE x
  IN  Lit((IF a = Zero THEN 0 ELSE Max(a) + 1) + 1)

-----------------------------------------------------------------------------
(* The floating-point unit, as tests.c uses it.                            *)

Infinity == Pack(Zero, ExpMax, Zero)
IsNaN(uf) == Exponent(uf) = ExpMax /\ Fraction(uf) # Zero

\* 2 * f, which is exact unless it is too large.
test_floatScale2(uf) ==
  LET exp == Exponent(uf)
      sign == uf \cap Sign
  IN  CASE IsNaN(uf) -> uf
        [] exp = 0 -> sign \cup Shl(uf, 1)
        [] ~IsNaN(uf) /\ exp >= ExpMax - 1 -> sign \cup Infinity
        [] OTHER -> Pack(sign, exp + 1, Fraction(uf))

\* (int) f drops the fraction, and gives 0x80000000 for what is no int.
test_floatFloat2Int(uf) ==
  LET E == Exponent(uf) - Bias
      significand == Fraction(uf) \cup {M}
      integer == IF E <= M THEN Shr(significand, M - E)
                 ELSE Shl(significand, E - M)
  IN  CASE E < 0 -> Zero
        [] E >= W - 1 -> Sign
        [] OTHER -> IF Sign \subseteq uf THEN Minus(integer) ELSE integer

\* 2.0 or 0.5, multiplied by itself |x| times: a normal number, a denormal one,
\* or the product has overflowed or vanished.
test_floatPower2(x) ==
  LET negative == Sign \subseteq x
      a == IF negative THEN Minus(x) ELSE x
      n == Val(a)
      vanishes == a = Sign \/ Less(Lit(Bias - 1 + M), a)
  IN  CASE ~negative /\ Less(Lit(Bias), a) -> Infinity
        [] negative /\ vanishes -> Zero
        [] negative /\ ~vanishes /\ n >= Bias -> {Bias - 1 + M - n}
        [] OTHER -> Pack(Zero, IF negative THEN Bias - n ELSE Bias + n, Zero)

-----------------------------------------------------------------------------

Puzzle(name, args, rating, float) ==
  [name |-> name, args |-> args, rating |-> rating, float |-> float]

\* The table of decl.c.  The arguments of a puzzle on floats are bit patterns
\* (a range of {1, 1} there), those of the others any int.
test_set == <<
  Puzzle("bitXor", 2, 1, FALSE),
  Puzzle("tmin", 0, 1, FALSE),
  Puzzle("isTmax", 1, 1, FALSE),
  Puzzle("allOddBits", 1, 2, FALSE),
  Puzzle("negate", 1, 2, FALSE),
  Puzzle("isAsciiDigit", 1, 3, FALSE),
  Puzzle("conditional", 3, 3, FALSE),
  Puzzle("isLessOrEqual", 2, 3, FALSE),
  Puzzle("logicalNeg", 1, 4, FALSE),
  Puzzle("howManyBits", 1, 4, FALSE),
  Puzzle("floatScale2", 1, 4, TRUE),
  Puzzle("floatFloat2Int", 1, 4, TRUE),
  Puzzle("floatPower2", 1, 4, TRUE) >>

\* solution_funct and test_funct, on the tuple a of arguments.
solution_funct(name, a) ==
  CASE name = "bitXor" -> bitXor(a[1], a[2])
    [] name = "tmin" -> tmin
    [] name = "isTmax" -> isTmax(a[1])
    [] name = "allOddBits" -> allOddBits(a[1])
    [] name = "negate" -> negate(a[1])
    [] name = "isAsciiDigit" -> isAsciiDigit(a[1])
    [] name = "conditional" -> conditional(a[1], a[2], a[3])
    [] name = "isLessOrEqual" -> isLessOrEqual(a[1], a[2])
    [] name = "logicalNeg" -> logicalNeg(a[1])
    [] name = "howManyBits" -> howManyBits(a[1])
    [] name = "floatScale2" -> floatScale2(a[1])
    [] name = "floatFloat2Int" -> floatFloat2Int(a[1])
    [] name = "floatPower2" -> floatPower2(a[1])

test_funct(name, a) ==
  CASE name = "bitXor" -> test_bitXor(a[1], a[2])
    [] name = "tmin" -> test_tmin
    [] name = "isTmax" -> test_isTmax(a[1])
    [] name = "allOddBits" -> test_allOddBits(a[1])
    [] name = "negate" -> test_negate(a[1])
    [] name = "isAsciiDigit" -> test_isAsciiDigit(a[1])
    [] name = "conditional" -> test_conditional(a[1], a[2], a[3])
    [] name = "isLessOrEqual" -> test_isLessOrEqual(a[1], a[2])
    [] name = "logicalNeg" -> test_logicalNeg(a[1])
    [] name = "howManyBits" -> test_howManyBits(a[1])
    [] name = "floatScale2" -> test_floatScale2(a[1])
    [] name = "floatFloat2Int" -> test_floatFloat2Int(a[1])
    [] name = "floatPower2" -> test_floatPower2(a[1])

Agrees(name, a) == solution_funct(name, a) = test_funct(name, a)

=============================================================================
