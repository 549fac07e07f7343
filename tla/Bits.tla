-------------------------------- MODULE Bits --------------------------------
(***************************************************************************)
(* The puzzles of the data lab as bits.c solves them, on words of W bits    *)
(* (31 in the code is W - 1 here) and floats with a fraction of M bits (23  *)
(* in the code).  Signed arithmetic that overflows wraps, as in what gcc    *)
(* makes of this code.                                                     *)
(***************************************************************************)
EXTENDS Words

CONSTANT M  \* bits in the fraction of a float

ASSUME FloatAssumption == M \in Nat \ {0} /\ M <= W - 3

bitXor(x, y) == Not(Not(x) \cap Not(y)) \cap Not(x \cap y)

tmin == Shl(One, W - 1)

isTmax(x) ==
  Bang(Not(Plus(Plus(x, One), x)) \cup Bang(Plus(x, One)))

\* The constant 0x55.
Byte55 == {0, 2, 4, 6}

allOddBits(x) ==
  Bang(Not(UNION {x \cup Shl(Byte55, k) : k \in {0, 8, 16, 24}}))

negate(x) == Plus(Not(x), One)

\* Mutant of isAsciiDigit: whatever has the high bits of a digit.
isAsciiDigitWide(x) == Bang(Not(Sar(Xor(x, Not(Lit(48))), 4)))

isAsciiDigit(x) ==
  LET checkHighByte == Bang(Not(Sar(Xor(x, Not(Lit(48))), 4)))
      cond1 == Bang(x \cap {3})
      cond2 == Bang(x \cap {1, 2})
  IN  checkHighByte \cap (cond1 \cup cond2)

conditional(x, y, z) ==
  LET B == Sar(Shl(Bang(x), W - 1), W - 1)
  IN  (Not(B) \cap y) \cup (B \cap z)

isLessOrEqual(x, y) ==
  LET is_YminusX_pos == Bang(Plus(y, Plus(Not(x), One)) \cap Sign)
      isYposXneg == Bang(y \cap Sign) \cap Bang(Not(x) \cap Sign)
      isYnegXpos == Bang(Not(y) \cap Sign) \cap Bang(x \cap Sign)
  IN  Bang(isYnegXpos) \cap (is_YminusX_pos \cup isYposXneg)

logicalNeg(x) ==
  LET filterPos == Sar(Sign \cap Not(x), W - 1)
      Tmax == Not(Shl(One, W - 1))
      allToNeg == Plus(x, filterPos \cap Tmax)
  IN  Xor(Sar(allToNeg, W - 1) \cap One, One)

\* One step of howManyBits: shift x right by k if that leaves anything.
Halve(x, k) == IF Sar(x, k) # Zero THEN k ELSE 0

howManyBits(x) ==
  LET x5 == Xor(x, Sar(x, W - 1))
      b5 == Halve(x5, 16)
      x4 == Sar(x5, b5)
      b4 == Halve(x4, 8)
      x3 == Sar(x4, b4)
      b3 == Halve(x3, 4)
      x2 == Sar(x3, b3)
      b2 == Halve(x2, 2)
      x1 == Sar(x2, b2)
      b1 == Halve(x1, 1)
      b0 == Sar(x1, b1)
  IN  Plus(Lit(b5 + b4 + b3 + b2 + b1 + 1), b0)

-----------------------------------------------------------------------------
(* Floats: a sign, W - 1 - M bits of exponent and M bits of fraction.      *)

ExpMax == 2 ^ (W - 1 - M) - 1       \* 0xff
Bias == 2 ^ (W - 2 - M) - 1         \* 127

Fraction(uf) == uf \cap (0 .. M - 1)
Exponent(uf) == Val(Shr(uf, M) \cap (0 .. W - 2 - M))

Pack(sign, exp, mantissa) == sign \cup Shl(Lit(exp), M) \cup mantissa

\* Mutant of floatScale2: the bit a denormal float shifts out is cut off.
floatScale2Masked(uf) ==
  LET sign == uf \cap Sign
      exp == Exponent(uf)
      mantissa == Fraction(uf)
  IN  CASE exp = ExpMax -> uf
        [] exp = 0 -> Pack(sign, exp, Shl(mantissa, 1) \cap (0 .. M - 1))
        [] OTHER -> Pack(sign, exp + 1, mantissa)

floatScale2(uf) ==
  LET sign == uf \cap Sign
      exp == Exponent(uf)
      mantissa == Fraction(uf)
  IN  CASE exp = ExpMax -> uf
        [] exp = 0 /\ M \notin mantissa -> Pack(sign, exp, Shl(mantissa, 1))
        [] OTHER -> Pack(sign, exp + 1, mantissa)

\* The implicit one of the significand, 1 << 24 in the code.
ImplicitOne == {M + 1}

\* Mutant of floatFloat2Int: 1.0 is shifted like any other float.
floatFloat2IntShifted(uf) ==
  LET E == Exponent(uf) - Bias
      mantissa == Fraction(uf) \cup ImplicitOne
      shifted == IF E <= M THEN Sar(mantissa, M - E) ELSE Shl(mantissa, E - M)
  IN  CASE E < 0 -> Zero
        [] E >= W - 1 -> Sign
        [] OTHER -> IF uf \cap Sign = Zero THEN shifted
                    ELSE Plus(Not(shifted), One)

floatFloat2Int(uf) ==
  LET E == Exponent(uf) - Bias
      mantissa == Fraction(uf) \cup ImplicitOne
      shifted == CASE E = 0 -> One
                   [] 0 < E /\ E <= M -> Sar(mantissa, M - E)
                   [] OTHER -> Shl(mantissa, E - M)
  IN  CASE E < 0 -> Zero
        [] E >= W - 1 -> Sign
        [] OTHER -> IF uf \cap Sign = Zero THEN shifted
                    ELSE Plus(Not(shifted), One)

floatPower2(x) ==
  LET exp == Plus(x, Lit(Bias))
  IN  CASE ~Less(exp, Lit(ExpMax)) -> Pack(x \cap Sign, ExpMax, Zero)
        [] Less(exp, Zero) -> Zero
        [] OTHER -> (x \cap Sign) \cup Shl(exp, M)

=============================================================================
