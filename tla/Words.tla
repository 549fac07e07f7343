-------------------------------- MODULE Words --------------------------------
(***************************************************************************)
(* Machine words of W bits.  A word is the set of its bits that are one,    *)
(* so that & is intersection, | is union, and arithmetic wraps as it does   *)
(* in the machine.                                                         *)
(***************************************************************************)
EXTENDS Integers, FiniteSetsExt

CONSTANT W  \* bits in an int

ASSUME WidthAssumption == W \in Nat \ {0}

Bit == 0 .. W - 1

Word == SUBSET Bit

Zero == {}
One == {0}
Sign == {W - 1}

Not(x) == Bit \ x

Xor(x, y) == (x \ y) \cup (y \ x)

\* x << k.
Shl(x, k) == {i \in Bit : i - k \in x}

\* x >> k, of an unsigned x and of an int.
Shr(x, k) == {i \in Bit : i + k \in x}
Sar(x, k) == {i \in Bit : IF i + k < W THEN i + k \in x ELSE W - 1 \in x}

\* The bits of x + y that a carry comes into: one was generated below and
\* every bit in between passed it on.
Carries(x, y) ==
  {i \in Bit : \E j \in 0 .. i - 1 :
                 j \in x \cap y /\ \A k \in j + 1 .. i - 1 : k \in x \cup y}

Plus(x, y) == Xor(Xor(x, y), Carries(x, y))

\* -x: every bit above the lowest one of x is inverted.
Minus(x) == {i \in Bit : i \in x <=> \A j \in x : i <= j}

\* x < y, as unsigned and as int.
Below(x, y) ==
  \E i \in y \ x : \A j \in i + 1 .. W - 1 : j \in x <=> j \in y

Less(x, y) == Below(Xor(x, Sign), Xor(y, Sign))

\* !x, and the value of a comparison.
Bang(x) == IF x = Zero THEN One ELSE Zero
Truth(b) == IF b THEN One ELSE Zero

\* The word of a small natural number, and the number of a small word.
Lit(n) == {i \in Bit : i < 31 /\ (n \div 2 ^ i) % 2 = 1}
Val(x) ==
  LET shifted[i \in 0 .. W] == \* the number of x >> i
        IF i = W THEN 0 ELSE 2 * shifted[i + 1] + (IF i \in x THEN 1 ELSE 0)
  IN  shifted[0]

=============================================================================
